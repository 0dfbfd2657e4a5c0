---------------------------- MODULE StubsProofs ----------------------------
(****************************************************************************)
(* What is proved of the history budget and of the reader that finds its    *)
(* work again in a trace: StubsRebuilt, for any outputs, budgets, length of *)
(* a stub and number of turns.                                              *)
(*                                                                          *)
(* Rebuilt alone is not inductive: it speaks of one request, and what the   *)
(* reader makes of the next depends on what it was told of those before.    *)
(* StubsInv adds what it lives by.  The texts it keeps are the history as   *)
(* sent, as far as it was sent.  A result still whole carries results of    *)
(* the turn before the one it was first seen in, none of them credited, and *)
(* no two carry the same.  A native message is one output, and every result *)
(* of its turn before it is credited or in a whole message before it: so,   *)
(* the oldest being stubbed first, the first exact match is its own even    *)
(* among equal outputs.  A wrapped message carries its whole turn, so that  *)
(* whatever its text includes is its own.                                   *)
(*                                                                          *)
(* Both folds, of the budget and of the reader, are taken as sequences of   *)
(* their intermediate results (StubsBy, ReadBy), whose steps the lemmas     *)
(* then follow side by side.                                                *)
(****************************************************************************)
EXTENDS Stubs, PickProofs, TLAPS

\* Types of what a run and its reader keep.
StubTexts    == [len : Nat, plain : BOOLEAN, outs : Seq(Nat), stub : BOOLEAN, was : Nat]
StubRoles    == {"system", "user", "assistant", "tool"}
StubMessages == [role : StubRoles, isToolResult : BOOLEAN, text : StubTexts, ids : SUBSET Nat]
StubResults  == [turn : Nat, output : Nat]
StubsTold    == [chars : Nat, items : SUBSET Nat]
Nows == [stubbed : Seq(StubMessages), told : Seq(StubsTold), before : Nat, after : Nat, sent : BOOLEAN]

\* A result the model may still see in full.
Whole(ms, i) == i \in 1 .. Len(ms) /\ ms[i].isToolResult = TRUE /\ ms[i].text.stub = FALSE
\* The results of turn t.
Batch(rs, t) == {e \in 1 .. Len(rs) : rs[e].turn = t}
\* The turn a message was first sent in, or will be.
Seen(rd, t, i) == IF i \in 1 .. Len(rd.prev) THEN rd.firstSeen[i] ELSE t + 1

\* A message of role tool is one output of its turn; the results of that turn before it
\* are credited, or in messages before it: an equal output is found for the first only.
OneOutput(ms, rs, rd, t, i) ==
  /\ ms[i].text.plain = TRUE
  /\ \E e \in 1 .. Len(rs) : ms[i].ids = {e} /\ ms[i].text.outs[1] = rs[e].output
  /\ \A d \in Batch(rs, Seen(rd, t, i) - 1), e \in ms[i].ids :
       d < e => \/ d \in rd.credited
                \/ \E j \in 1 .. i - 1 : Whole(ms, j) /\ ms[j].role = "tool" /\ d \in ms[j].ids
\* A wrapped message carries all results of its turn, and its text includes each.
AllOutputs(ms, rs, rd, t, i) ==
  /\ ms[i].text.plain = FALSE /\ ms[i].ids = Batch(rs, Seen(rd, t, i) - 1)
  /\ \A e \in ms[i].ids : rs[e].output = 0 \/ Includes(ms[i].text, rs[e].output)
\* What a whole result carries.
Carries(nat, ms, rs, rd, t, i) ==
  /\ ms[i].ids \subseteq Batch(rs, Seen(rd, t, i) - 1) /\ ms[i].ids \cap rd.credited = {}
  /\ ms[i].role = "tool" => nat = TRUE /\ OneOutput(ms, rs, rd, t, i)
  /\ ms[i].role # "tool" => AllOutputs(ms, rs, rd, t, i)

\* Types, and the ranges of the turns and of the ids.
StubsTyped ==
  /\ native \in BOOLEAN /\ budget \in Nat
  /\ turn \in 0 .. MaxTurns /\ now \in Nows /\ (now.sent = FALSE => turn < MaxTurns)
  /\ messages \in Seq(StubMessages) /\ resultEvents \in Seq(StubResults)
  /\ \A e \in 1 .. Len(resultEvents) :
       /\ resultEvents[e].turn <= turn
       /\ now.sent = TRUE => resultEvents[e].turn < turn
  /\ reader.prev \in Seq(StubTexts) /\ reader.credited \subseteq 1 .. Len(resultEvents)
  /\ DOMAIN reader.firstSeen = 1 .. Len(reader.prev)
  /\ \A i \in 1 .. Len(reader.prev) : reader.firstSeen[i] \in 1 .. turn
  /\ \A i \in 1 .. Len(messages) : messages[i].ids \subseteq 1 .. Len(resultEvents)
  /\ \A k \in 1 .. Len(now.stubbed) : now.stubbed[k].ids \subseteq 1 .. Len(resultEvents)
\* The reader has the history as it was sent; what it has not seen comes after the last
\* assistant message, whole.
HistoryRead ==
  /\ Len(messages) >= 2 /\ messages[1] = Said("system") /\ messages[2] = Said("user")
  /\ \A i \in 1 .. Len(messages) : i <= Len(reader.prev) => reader.prev[i] = messages[i].text
  /\ now.sent = TRUE => Len(reader.prev) = Len(messages)
  /\ \A i \in 1 .. Len(messages) :
       /\ i < LastAssistant(messages) => i <= Len(reader.prev)
       /\ i > LastAssistant(messages) => messages[i].text.stub = FALSE
       /\ messages[i].role = "assistant" => messages[i].isToolResult = FALSE
\* Each whole result carries its own results, and no result is in two.
ResultsCarried ==
  /\ \A i \in 1 .. Len(messages) :
       Whole(messages, i) => Carries(native, messages, resultEvents, reader, turn, i)
  /\ \A i, j \in 1 .. Len(messages) :
       Whole(messages, i) /\ Whole(messages, j) /\ i # j => messages[i].ids \cap messages[j].ids = {}
\* The inductive invariant.
StubsInv == StubsTyped /\ HistoryRead /\ ResultsCarried /\ Rebuilt /\ BudgetKept

------------------------------------------------------------------------------
\* What holds of 0, and of k + 1 if of k, holds up to n.
LEMMA InductionTo ==
  ASSUME NEW n \in Nat, NEW T, 0 \in T, \A k \in 0 .. n - 1 : k \in T => k + 1 \in T
  PROVE  \A k \in 0 .. n : k \in T
<1> DEFINE bad == {k \in 0 .. n : k \notin T}
<1> SUFFICES ASSUME bad # {} PROVE FALSE
  OBVIOUS
<1>1. bad \subseteq Nat
  OBVIOUS
<1>2. PICK x \in bad : \A y \in bad : x <= y
  <2> HIDE DEF bad
  <2> QED
    BY <1>1, LeastNatural
<1>3. x \in 0 .. n /\ x # 0
  OBVIOUS
<1>4. x - 1 \in 0 .. n - 1 /\ x - 1 \in T
  BY <1>2, <1>3
<1> QED
  BY <1>3, <1>4

\* A function on the numbers from 1 is a sequence.
LEMMA SequenceIs ==
  ASSUME NEW S, NEW n \in Nat, NEW s \in [1 .. n -> S]
  PROVE  s \in Seq(S) /\ Len(s) = n
OBVIOUS

\* F goes on from b by g, up to n.
Follows(F, b, g, n) ==
  DOMAIN F = 0 .. n /\ F[0] = b /\ \A i \in 1 .. n : F[i] = g[<<F[i - 1], i>>]

\* A function on the numbers up to n can be given by its first value and by what
\* follows each: a recursive definition has the function it asks for.
LEMMA Recursion ==
  ASSUME NEW n \in Nat, NEW S, NEW b \in S, NEW g \in [S \X (1 .. n) -> S]
  PROVE  \E F \in [0 .. n -> S] : Follows(F, b, g, n)
<1> DEFINE T == {k \in 0 .. n : \E F \in [0 .. k -> S] : Follows(F, b, g, k)}
<1>1. 0 \in T
  <2> DEFINE F == [i \in 0 .. 0 |-> b]
  <2>1. F \in [0 .. 0 -> S]
    OBVIOUS
  <2>2. Follows(F, b, g, 0)
    BY DEF Follows
  <2>3. 0 \in 0 .. n
    OBVIOUS
  <2> HIDE DEF F
  <2> QED
    BY <2>1, <2>2, <2>3
<1>2. ASSUME NEW k \in 0 .. n - 1, k \in T PROVE k + 1 \in T
  <2>1. PICK F \in [0 .. k -> S] : Follows(F, b, g, k)
    BY <1>2
  <2>2. F[k] \in S /\ k + 1 \in 1 .. n /\ k + 1 \in 0 .. n
    OBVIOUS
  <2> DEFINE v == g[<<F[k], k + 1>>]
             G == [i \in 0 .. k + 1 |-> IF i = k + 1 THEN v ELSE F[i]]
  <2>3. v \in S
    BY <2>2
  <2> HIDE DEF v
  <2>4. G \in [0 .. k + 1 -> S]
    BY <2>3
  <2>5. /\ DOMAIN G = 0 .. k + 1 /\ G[k + 1] = v
        /\ \A i \in 0 .. k : G[i] = F[i]
    OBVIOUS
  <2> HIDE DEF G
  <2>6. G[0] = b
    BY <2>1, <2>5 DEF Follows
  <2>7. ASSUME NEW i \in 1 .. k + 1 PROVE G[i] = g[<<G[i - 1], i>>]
    <3>1. CASE i = k + 1
      <4>1. G[i - 1] = F[k]
        BY <2>5, <3>1
      <4> QED
        BY <2>5, <3>1, <4>1 DEF v
    <3>2. CASE i # k + 1
      <4>1. i \in 1 .. k /\ i - 1 \in 0 .. k /\ i \in 0 .. k
        BY <3>2
      <4>2. F[i] = g[<<F[i - 1], i>>]
        BY <2>1, <4>1 DEF Follows
      <4>3. G[i] = F[i] /\ G[i - 1] = F[i - 1]
        BY <2>5, <4>1
      <4> QED
        BY <4>2, <4>3
    <3> QED
      BY <3>1, <3>2
  <2>8. Follows(G, b, g, k + 1)
    BY <2>5, <2>6, <2>7 DEF Follows
  <2> QED
    BY <2>2, <2>4, <2>8
<1>3. \A k \in 0 .. n : k \in T
  <2> HIDE DEF T
  <2> QED
    BY <1>1, <1>2, InductionTo
<1> QED
  BY <1>3

------------------------------------------------------------------------------
\* Sums.

\* F are the sums of s up to each place.
Sums(F, s) == /\ DOMAIN F = 0 .. Len(s) /\ F[0] = 0
              /\ \A i \in 1 .. Len(s) : F[i] = F[i - 1] + s[i]

\* A total is the last of the partial sums, each a number.
LEMMA TotalIs ==
  ASSUME NEW s \in Seq(Nat)
  PROVE  \E F \in [0 .. Len(s) -> Nat] : Sums(F, s) /\ total(s) = F[Len(s)]
<1> DEFINE n == Len(s)
           g == [x \in Nat \X (1 .. n) |-> x[1] + s[x[2]]]
<1>1. n \in Nat
  OBVIOUS
<1>2. g \in [Nat \X (1 .. n) -> Nat]
  <2>1. ASSUME NEW x \in Nat \X (1 .. n) PROVE x[1] + s[x[2]] \in Nat
    OBVIOUS
  <2> QED
    BY <2>1
<1>3. \A x \in Nat, i \in 1 .. n : g[<<x, i>>] = x + s[i]
  OBVIOUS
<1> HIDE DEF g
<1>4. PICK F \in [0 .. n -> Nat] : Follows(F, 0, g, n)
  <2> HIDE DEF n
  <2> QED
    BY <1>1, <1>2, Recursion
<1> DEFINE Is(f) == f = [i \in 0 .. n |-> IF i = 0 THEN 0 ELSE f[i - 1] + s[i]]
<1>5. Is(F)
  <2>1. ASSUME NEW i \in 1 .. n PROVE F[i] = F[i - 1] + s[i]
    <3>1. F[i - 1] \in Nat
      BY <1>1
    <3> QED
      BY <3>1, <1>3, <1>4 DEF Follows
  <2>2. \A i \in 0 .. n : F[i] = IF i = 0 THEN 0 ELSE F[i - 1] + s[i]
    BY <2>1, <1>4 DEF Follows
  <2>3. F = [i \in 0 .. n |-> F[i]]
    OBVIOUS
  <2> HIDE DEF n
  <2> QED
    BY <2>2, <2>3
<1> DEFINE C == CHOOSE f : Is(f)
<1>6. Is(C)
  <2> HIDE DEF Is
  <2> QED
    BY <1>5, Zenon
<1>7. total(s) = C[n]
  BY DEF total
<1> HIDE DEF C
<1> DEFINE T == {k \in 0 .. n : C[k] \in Nat}
<1>8. \A k \in 0 .. n : k \in T
  <2>1. C[0] = 0 /\ \A i \in 1 .. n : C[i] = C[i - 1] + s[i]
    BY <1>1, <1>6
  <2>2. 0 \in T
    BY <1>1, <2>1
  <2>3. ASSUME NEW k \in 0 .. n - 1, k \in T PROVE k + 1 \in T
    BY <1>1, <2>1, <2>3
  <2> HIDE DEF n, T
  <2> QED
    BY <1>1, <2>2, <2>3, InductionTo
<1>9. C \in [0 .. n -> Nat]
  <2>1. \A k \in 0 .. n : C[k] \in Nat
    BY <1>8
  <2>2. C = [i \in 0 .. n |-> C[i]]
    BY <1>6
  <2> HIDE DEF n
  <2> QED
    BY <2>1, <2>2
<1>10. Sums(C, s)
  BY <1>1, <1>6, <1>9 DEF Sums
<1> QED
  BY <1>7, <1>9, <1>10

\* The lengths of the texts of a history.
Lens(ms) == [i \in DOMAIN ms |-> ms[i].text.len]

\* The size of a history is a number.
LEMMA SizeIs ==
  ASSUME NEW ms \in Seq(StubMessages)
  PROVE  /\ Lens(ms) \in Seq(Nat) /\ Len(Lens(ms)) = Len(ms) /\ Len(ms) \in Nat
         /\ \A i \in 1 .. Len(ms) : Lens(ms)[i] = ms[i].text.len /\ ms[i].text.len \in Nat
         /\ charsOf(ms) \in Nat /\ charsOf(ms) = total(Lens(ms))
<1> DEFINE s == Lens(ms)
<1>1. Len(ms) \in Nat /\ DOMAIN ms = 1 .. Len(ms)
  OBVIOUS
<1>2. ASSUME NEW i \in 1 .. Len(ms) PROVE ms[i].text.len \in Nat
  <2>1. ms[i] \in StubMessages
    OBVIOUS
  <2> QED
    BY <2>1 DEF StubMessages, StubTexts
<1>3. s \in [1 .. Len(ms) -> Nat]
  BY <1>1, <1>2 DEF Lens
<1>4. s \in Seq(Nat) /\ Len(s) = Len(ms)
  <2> HIDE DEF s
  <2> QED
    BY <1>1, <1>3
<1>5. \A i \in 1 .. Len(ms) : s[i] = ms[i].text.len
  BY <1>1 DEF Lens
<1>6. charsOf(ms) \in Nat /\ charsOf(ms) = total(s)
  <2>1. charsOf(ms) = total(s)
    BY DEF charsOf, Lens
  <2> HIDE DEF s
  <2>2. PICK F \in [0 .. Len(s) -> Nat] : Sums(F, s) /\ total(s) = F[Len(s)]
    BY <1>4, TotalIs
  <2> QED
    BY <1>1, <1>4, <2>1, <2>2
<1> QED
  BY <1>1, <1>2, <1>4, <1>5, <1>6

------------------------------------------------------------------------------
\* The budget.

\* What the budget carries from message to message.
Sizes == [chars : Int, at : Seq(Nat)]

\* F are the size and the stubs after each message.
StubsBy(F, ms, mark) ==
  /\ F \in [0 .. Len(ms) -> Sizes] /\ F[0] = [chars |-> charsOf(ms), at |-> <<>>]
  /\ \A i \in 1 .. Len(ms) : F[i] = StubOne(ms, mark, F[i - 1], i)

\* One message more, and it is still a size and the numbers stubbed.
LEMMA StubOneIs ==
  ASSUME NEW ms \in Seq(StubMessages), NEW mark, NEW p \in Sizes, NEW i \in 1 .. Len(ms)
  PROVE  StubOne(ms, mark, p, i) \in Sizes
<1>1. ms[i].text.len \in Nat /\ StubLen \in Nat /\ i \in Nat
  BY SizeIs, StubsAssumption
<1>2. p.chars \in Int /\ p.at \in Seq(Nat)
  BY DEF Sizes
<1>3. p.chars + StubLen - ms[i].text.len \in Int /\ Append(p.at, i) \in Seq(Nat)
  BY <1>1, <1>2
<1>4. [chars |-> p.chars + StubLen - ms[i].text.len, at |-> Append(p.at, i)] \in Sizes
  BY <1>3 DEF Sizes
<1> QED
  BY <1>4, Zenon DEF StubOne

\* The budget walks the messages one by one, and returns where the walk ends.
LEMMA StubbingIs ==
  ASSUME NEW ms \in Seq(StubMessages), NEW mark
  PROVE  \E F : StubsBy(F, ms, mark) /\ Stubbing(ms, mark) = F[Len(ms)]
<1> DEFINE n == Len(ms)
           b == [chars |-> charsOf(ms), at |-> <<>>]
           g == [x \in Sizes \X (1 .. n) |-> StubOne(ms, mark, x[1], x[2])]
<1>1. n \in Nat
  OBVIOUS
<1>2. b \in Sizes
  <2>1. charsOf(ms) \in Int
    BY SizeIs
  <2> QED
    BY <2>1 DEF Sizes
<1>3. g \in [Sizes \X (1 .. n) -> Sizes]
  <2>1. ASSUME NEW x \in Sizes \X (1 .. n) PROVE StubOne(ms, mark, x[1], x[2]) \in Sizes
    <3>1. x[1] \in Sizes /\ x[2] \in 1 .. n
      OBVIOUS
    <3> QED
      BY <3>1, StubOneIs
  <2> QED
    BY <2>1, Zenon
<1>4. \A p \in Sizes, i \in 1 .. n : g[<<p, i>>] = StubOne(ms, mark, p, i)
  OBVIOUS
<1> HIDE DEF g, b
<1>5. PICK F \in [0 .. n -> Sizes] : Follows(F, b, g, n)
  <2> HIDE DEF n
  <2> QED
    BY <1>1, <1>2, <1>3, Recursion
<1> DEFINE Is(f) == f = [i \in 0 .. n |-> IF i = 0 THEN b ELSE StubOne(ms, mark, f[i - 1], i)]
<1>6. Is(F)
  <2>1. ASSUME NEW i \in 1 .. n PROVE F[i] = StubOne(ms, mark, F[i - 1], i)
    <3>1. F[i - 1] \in Sizes
      BY <1>1
    <3> QED
      BY <3>1, <1>4, <1>5 DEF Follows
  <2>2. \A i \in 0 .. n : F[i] = IF i = 0 THEN b ELSE StubOne(ms, mark, F[i - 1], i)
    BY <2>1, <1>5 DEF Follows
  <2>3. F = [i \in 0 .. n |-> F[i]]
    OBVIOUS
  <2> HIDE DEF n
  <2> QED
    BY <2>2, <2>3
<1> DEFINE C == CHOOSE f : Is(f)
<1>7. Is(C)
  <2> HIDE DEF Is
  <2> QED
    BY <1>6, Zenon
<1>8. Stubbing(ms, mark) = C[n]
  BY DEF Stubbing, b
<1> HIDE DEF C
<1>9. C[0] = b /\ \A i \in 1 .. n : C[i] = StubOne(ms, mark, C[i - 1], i)
  BY <1>1, <1>7
<1> DEFINE T == {k \in 0 .. n : C[k] \in Sizes}
<1>10. \A k \in 0 .. n : k \in T
  <2>1. 0 \in T
    BY <1>1, <1>2, <1>9
  <2>2. ASSUME NEW k \in 0 .. n - 1, k \in T PROVE k + 1 \in T
    <3>1. k + 1 \in 1 .. n /\ (k + 1) - 1 = k
      BY <1>1
    <3>2. C[k + 1] = StubOne(ms, mark, C[k], k + 1)
      BY <1>9, <3>1
    <3>3. C[k + 1] \in Sizes
      BY <2>2, <3>1, <3>2, StubOneIs
    <3> QED
      BY <3>1, <3>3
  <2> HIDE DEF n, T
  <2> QED
    BY <1>1, <2>1, <2>2, InductionTo
<1>11. C \in [0 .. n -> Sizes]
  <2>1. \A k \in 0 .. n : C[k] \in Sizes
    BY <1>10
  <2>2. C = [i \in 0 .. n |-> C[i]]
    BY <1>7
  <2> HIDE DEF n
  <2> QED
    BY <2>1, <2>2
<1>12. StubsBy(C, ms, mark)
  BY <1>9, <1>11 DEF StubsBy, b
<1> QED
  BY <1>8, <1>12

\* A lists the elements of D up to each place, in order.
Listed(A, D, n) ==
  A[0] = <<>> /\ \A i \in 1 .. n : A[i] = IF i \in D THEN Append(A[i - 1], i) ELSE A[i - 1]

\* The lists of a walk name the members of D up to each message, and nothing else.
LEMMA ListedIs ==
  ASSUME NEW n \in Nat, NEW D, NEW A, Listed(A, D, n)
  PROVE  \A k \in 0 .. n : /\ A[k] \in Seq(1 .. n)
                           /\ \A i \in 1 .. n : InSeq(i, A[k]) <=> i \in D /\ i <= k
<1> DEFINE T == {k \in 0 .. n : /\ A[k] \in Seq(1 .. n)
                                /\ \A i \in 1 .. n : InSeq(i, A[k]) <=> i \in D /\ i <= k}
<1>1. 0 \in T
  <2>1. A[0] = <<>>
    BY DEF Listed
  <2>2. \A i \in 1 .. n : InSeq(i, A[0]) <=> i \in D /\ i <= 0
    BY <2>1 DEF InSeq
  <2>3. A[0] \in Seq(1 .. n) /\ 0 \in 0 .. n
    BY <2>1
  <2> QED
    BY <2>2, <2>3
<1>2. ASSUME NEW k \in 0 .. n - 1, k \in T PROVE k + 1 \in T
  <2>1. k + 1 \in 1 .. n /\ (k + 1) - 1 = k /\ k + 1 \in 0 .. n /\ k \in Nat
    OBVIOUS
  <2>2. A[k + 1] = IF k + 1 \in D THEN Append(A[k], k + 1) ELSE A[k]
    BY <2>1 DEF Listed
  <2>3. A[k] \in Seq(1 .. n) /\ \A i \in 1 .. n : InSeq(i, A[k]) <=> i \in D /\ i <= k
    BY <1>2
  <2>4. CASE k + 1 \in D
    <3> DEFINE x == A[k]
               y == Append(x, k + 1)
    <3>1. y \in Seq(1 .. n) /\ Len(y) = Len(x) + 1 /\ Len(x) \in Nat
      BY <2>1, <2>3
    <3>2. y[Len(x) + 1] = k + 1 /\ \A a \in 1 .. Len(x) : y[a] = x[a]
      BY <2>3
    <3>3. DOMAIN y = 1 .. Len(x) + 1 /\ DOMAIN x = 1 .. Len(x)
      BY <2>3, <3>1
    <3> HIDE DEF y, x
    <3>4. ASSUME NEW i \in 1 .. n PROVE InSeq(i, y) <=> InSeq(i, x) \/ i = k + 1
      <4>1. InSeq(i, x) => InSeq(i, y)
        BY <3>1, <3>2, <3>3 DEF InSeq
      <4>2. i = k + 1 => InSeq(i, y)
        <5>1. Len(x) + 1 \in DOMAIN y
          BY <3>1, <3>3
        <5> QED
          BY <3>2, <5>1 DEF InSeq
      <4>3. ASSUME InSeq(i, y), i # k + 1 PROVE InSeq(i, x)
        <5>1. PICK a \in DOMAIN y : y[a] = i
          BY <4>3 DEF InSeq
        <5>2. a # Len(x) + 1
          BY <3>2, <4>3, <5>1
        <5>3. a \in 1 .. Len(x)
          BY <3>1, <3>3, <5>2
        <5> QED
          BY <3>2, <3>3, <5>1, <5>3 DEF InSeq
      <4> QED
        BY <4>1, <4>2, <4>3
    <3>5. ASSUME NEW i \in 1 .. n PROVE InSeq(i, y) <=> i \in D /\ i <= k + 1
      <4>1. i <= k + 1 <=> i <= k \/ i = k + 1
        BY <2>1
      <4>2. InSeq(i, x) <=> i \in D /\ i <= k
        BY <2>3 DEF x
      <4> QED
        BY <2>4, <3>4, <4>1, <4>2, Zenon
    <3>6. A[k + 1] = y
      BY <2>2, <2>4 DEF y, x
    <3> QED
      BY <2>1, <3>1, <3>5, <3>6
  <2>5. CASE k + 1 \notin D
    <3>1. ASSUME NEW i \in 1 .. n PROVE i \in D /\ i <= k <=> i \in D /\ i <= k + 1
      <4>1. i # k + 1 => (i <= k <=> i <= k + 1)
        BY <2>1
      <4> QED
        BY <2>5, <4>1
    <3>2. A[k + 1] = A[k]
      BY <2>2, <2>5
    <3> QED
      BY <2>1, <2>3, <3>1, <3>2
  <2> QED
    BY <2>4, <2>5
<1>3. \A k \in 0 .. n : k \in T
  <2> HIDE DEF T
  <2> QED
    BY <1>1, <1>2, InductionTo
<1> QED
  BY <1>3

\* The history with the texts of the messages D as stubs.
StubbedAt(ms, D) ==
  [i \in DOMAIN ms |-> IF i \in D THEN [ms[i] EXCEPT !.text = StubOf(@)] ELSE ms[i]]
\* The text of a message once those of D are stubs.
TextAt(ms, D, i) == IF i \in D THEN StubOf(ms[i].text) ELSE ms[i].text

\* A stub is a text, of the length of a stub, that remembers what it stands for.
LEMMA StubOfIs ==
  ASSUME NEW text \in StubTexts
  PROVE  /\ StubOf(text) \in StubTexts /\ StubOf(text).len = StubLen /\ StubOf(text).stub = TRUE
         /\ StubOf(text).was = text.len
<1>1. StubLen \in Nat /\ text.len \in Nat /\ <<>> \in Seq(Nat)
  BY StubsAssumption DEF StubTexts
<1> QED
  BY <1>1 DEF StubOf, StubTexts

\* The fields of a message of a history.
LEMMA MessageIs ==
  ASSUME NEW ms \in Seq(StubMessages), NEW i \in 1 .. Len(ms)
  PROVE  /\ ms[i] \in StubMessages /\ ms[i].role \in StubRoles /\ ms[i].isToolResult \in BOOLEAN
         /\ ms[i].text \in StubTexts /\ ms[i].ids \in SUBSET Nat
         /\ ms[i].text.len \in Nat /\ ms[i].text.stub \in BOOLEAN /\ ms[i].text.outs \in Seq(Nat)
         /\ ms[i].text.plain \in BOOLEAN
<1>1. ms[i] \in StubMessages
  OBVIOUS
<1>2. ms[i].text \in StubTexts
  BY <1>1 DEF StubMessages
<1> QED
  BY <1>1, <1>2 DEF StubMessages, StubTexts

\* Stubbing the messages of D changes their texts and no more.
LEMMA StubbedAtIs ==
  ASSUME NEW ms \in Seq(StubMessages), NEW D
  PROVE  /\ StubbedAt(ms, D) \in Seq(StubMessages) /\ Len(StubbedAt(ms, D)) = Len(ms)
         /\ \A i \in 1 .. Len(ms) :
              /\ StubbedAt(ms, D)[i].role = ms[i].role
              /\ StubbedAt(ms, D)[i].isToolResult = ms[i].isToolResult
              /\ StubbedAt(ms, D)[i].ids = ms[i].ids
              /\ StubbedAt(ms, D)[i].text = TextAt(ms, D, i)
<1> DEFINE V == StubbedAt(ms, D)
<1>1. Len(ms) \in Nat /\ DOMAIN ms = 1 .. Len(ms)
  OBVIOUS
<1>2. ASSUME NEW i \in 1 .. Len(ms)
      PROVE  /\ V[i] \in StubMessages /\ V[i].role = ms[i].role
             /\ V[i].isToolResult = ms[i].isToolResult /\ V[i].ids = ms[i].ids
             /\ V[i].text = TextAt(ms, D, i)
  <2>1. ms[i] \in StubMessages /\ ms[i].text \in StubTexts
    BY MessageIs
  <2>2. V[i] = IF i \in D THEN [ms[i] EXCEPT !.text = StubOf(ms[i].text)] ELSE ms[i]
    BY <1>1 DEF StubbedAt
  <2>3. StubOf(ms[i].text) \in StubTexts
    BY <2>1, StubOfIs
  <2> DEFINE m == ms[i]
             x == StubOf(m.text)
  <2> HIDE DEF V
  <2>4. CASE i \in D
    <3>1. V[i] = [m EXCEPT !.text = x] /\ m \in StubMessages /\ x \in StubTexts
      BY <2>1, <2>2, <2>3, <2>4
    <3>2. TextAt(ms, D, i) = x
      BY <2>4 DEF TextAt
    <3> HIDE DEF x, m
    <3>3. /\ V[i] \in StubMessages /\ V[i].role = m.role
          /\ V[i].isToolResult = m.isToolResult /\ V[i].ids = m.ids /\ V[i].text = x
      BY <3>1 DEF StubMessages
    <3> QED
      BY <3>2, <3>3 DEF m
  <2>5. CASE i \notin D
    BY <2>1, <2>2, <2>5 DEF TextAt
  <2> QED
    BY <2>4, <2>5
<1>3. V = [i \in 1 .. Len(ms) |-> V[i]]
  BY <1>1 DEF StubbedAt
<1>4. V \in [1 .. Len(ms) -> StubMessages]
  <2> HIDE DEF V
  <2> QED
    BY <1>2, <1>3
<1>5. V \in Seq(StubMessages) /\ Len(V) = Len(ms)
  <2> HIDE DEF V
  <2> QED
    BY <1>1, <1>4
<1> QED
  BY <1>2, <1>5, Zenon

\* Message i is stubbed: the size is still over the mark, and it may be.
Taken(F, ms, mark, i) == ~(CeilTokens(F[i - 1].chars) <= mark) /\ Stubbable(ms, i)

\* A step of the walk adds the message it takes, or changes nothing.
LEMMA StubStep ==
  ASSUME NEW ms \in Seq(StubMessages), NEW mark, NEW F, StubsBy(F, ms, mark), NEW i \in 1 .. Len(ms)
  PROVE  /\ F[i - 1] \in Sizes /\ F[i] \in Sizes
         /\ Taken(F, ms, mark, i) =>
              /\ F[i].chars = F[i - 1].chars + StubLen - ms[i].text.len
              /\ F[i].at = Append(F[i - 1].at, i)
         /\ ~Taken(F, ms, mark, i) => F[i] = F[i - 1]
<1>1. i - 1 \in 0 .. Len(ms) /\ i \in 0 .. Len(ms)
  OBVIOUS
<1>2. F[i - 1] \in Sizes /\ F[i] \in Sizes
  BY <1>1 DEF StubsBy
<1>3. F[i] = StubOne(ms, mark, F[i - 1], i)
  BY DEF StubsBy
<1>4. CASE Taken(F, ms, mark, i)
  <2>1. F[i] = [chars |-> F[i - 1].chars + StubLen - ms[i].text.len, at |-> Append(F[i - 1].at, i)]
    BY <1>3, <1>4, Zenon DEF StubOne, Taken
  <2>2. /\ F[i].chars = F[i - 1].chars + StubLen - ms[i].text.len
        /\ F[i].at = Append(F[i - 1].at, i)
    BY <2>1
  <2> QED
    BY <1>2, <1>4, <2>2
<1>5. CASE ~Taken(F, ms, mark, i)
  <2>1. F[i] = F[i - 1]
    BY <1>3, <1>5, Zenon DEF StubOne, Taken
  <2> QED
    BY <1>2, <1>5, <2>1
<1> QED
  BY <1>4, <1>5

\* Once at the mark, nothing more is stubbed.
LEMMA Frozen ==
  ASSUME NEW ms \in Seq(StubMessages), NEW mark, NEW F, StubsBy(F, ms, mark)
  PROVE  \A k \in 0 .. Len(ms) : ~(CeilTokens(F[k].chars) <= mark) =>
           \A j \in 0 .. k : ~(CeilTokens(F[j].chars) <= mark)
<1> DEFINE n == Len(ms)
           Above(k) == ~(CeilTokens(F[k].chars) <= mark)
           T == {k \in 0 .. n : Above(k) => \A j \in 0 .. k : Above(j)}
<1>1. n \in Nat
  OBVIOUS
<1>2. 0 \in T
  <2>1. 0 .. 0 = {0} /\ 0 \in 0 .. n
    BY <1>1
  <2> HIDE DEF Above
  <2> QED
    BY <2>1
<1>3. ASSUME NEW k \in 0 .. n - 1, k \in T PROVE k + 1 \in T
  <2>1. k + 1 \in 1 .. n /\ (k + 1) - 1 = k /\ k + 1 \in 0 .. n /\ 0 .. k + 1 = (0 .. k) \cup {k + 1}
        /\ k \in 0 .. k
    BY <1>1
  <2>2. Above(k + 1) => Above(k)
    <3>1. CASE Taken(F, ms, mark, k + 1)
      BY <2>1, <3>1 DEF Taken
    <3>2. CASE ~Taken(F, ms, mark, k + 1)
      <4>1. F[k + 1] = F[k]
        BY <2>1, <3>2, StubStep
      <4> QED
        BY <4>1
    <3> QED
      BY <3>1, <3>2
  <2> HIDE DEF Above
  <2> QED
    BY <1>3, <2>1, <2>2
<1>4. \A k \in 0 .. n : k \in T
  <2> HIDE DEF T, n
  <2> QED
    BY <1>1, <1>2, <1>3, InductionTo
<1> HIDE DEF Above
<1>5. \A k \in 0 .. n : Above(k) => \A j \in 0 .. k : Above(j)
  BY <1>4
<1> QED
  BY <1>5 DEF Above

\* The size that is kept is the size of the history with its stubs.
LEMMA SizeKept ==
  ASSUME NEW ms \in Seq(StubMessages), NEW mark, NEW F, StubsBy(F, ms, mark),
         NEW D, \A i \in 1 .. Len(ms) : i \in D <=> Taken(F, ms, mark, i)
  PROVE  F[Len(ms)].chars = charsOf(StubbedAt(ms, D))
<1> DEFINE n == Len(ms)
           V == StubbedAt(ms, D)
           l == Lens(ms)
           m == Lens(V)
<1>1. n \in Nat /\ V \in Seq(StubMessages) /\ Len(V) = n /\ StubLen \in Nat
  BY StubbedAtIs, StubsAssumption
<1>2. /\ l \in Seq(Nat) /\ Len(l) = n /\ charsOf(ms) = total(l) /\ total(l) \in Nat
      /\ \A i \in 1 .. n : l[i] = ms[i].text.len /\ ms[i].text.len \in Nat
  BY SizeIs
<1>3. /\ m \in Seq(Nat) /\ Len(m) = n /\ charsOf(V) = total(m)
      /\ \A i \in 1 .. n : m[i] = V[i].text.len /\ V[i].text.len \in Nat
  <2> HIDE DEF V
  <2> QED
    BY <1>1, SizeIs
<1>4. ASSUME NEW i \in 1 .. n PROVE m[i] = IF i \in D THEN StubLen ELSE l[i]
  <2>1. V[i].text = TextAt(ms, D, i)
    BY StubbedAtIs
  <2>2. StubOf(ms[i].text).len = StubLen
    BY MessageIs, StubOfIs
  <2> QED
    BY <1>2, <1>3, <2>1, <2>2 DEF TextAt
<1> HIDE DEF l, m, V
<1>5. PICK P \in [0 .. n -> Nat] : Sums(P, l) /\ total(l) = P[n]
  BY <1>2, TotalIs
<1>6. PICK Q \in [0 .. n -> Nat] : Sums(Q, m) /\ total(m) = Q[n]
  BY <1>3, TotalIs
<1> DEFINE T == {k \in 0 .. n : F[k].chars + P[k] = total(l) + Q[k]}
<1>7. 0 \in T
  <2>1. F[0].chars = total(l) /\ P[0] = 0 /\ Q[0] = 0
    BY <1>2, <1>5, <1>6 DEF StubsBy, Sums
  <2> QED
    BY <1>1, <2>1
<1>8. ASSUME NEW k \in 0 .. n - 1, k \in T PROVE k + 1 \in T
  <2>1. k + 1 \in 1 .. n /\ (k + 1) - 1 = k /\ k + 1 \in 0 .. n /\ k \in 0 .. n
    BY <1>1
  <2>2. /\ F[k] \in Sizes /\ F[k + 1] \in Sizes
        /\ k + 1 \in D => F[k + 1].chars = F[k].chars + StubLen - l[k + 1]
        /\ k + 1 \notin D => F[k + 1] = F[k]
    <3>1. \A i \in 1 .. n :
            /\ F[i - 1] \in Sizes /\ F[i] \in Sizes
            /\ Taken(F, ms, mark, i) => F[i].chars = F[i - 1].chars + StubLen - ms[i].text.len
            /\ ~Taken(F, ms, mark, i) => F[i] = F[i - 1]
      BY StubStep
    <3>2. l[k + 1] = ms[k + 1].text.len /\ (k + 1 \in D <=> Taken(F, ms, mark, k + 1))
      BY <1>2, <2>1
    <3>3. /\ F[(k + 1) - 1] \in Sizes /\ F[k + 1] \in Sizes
          /\ k + 1 \in D => F[k + 1].chars = F[(k + 1) - 1].chars + StubLen - l[k + 1]
          /\ k + 1 \notin D => F[k + 1] = F[(k + 1) - 1]
      BY <2>1, <3>1, <3>2, Zenon
    <3> QED
      BY <2>1, <3>3
  <2>3. P[k + 1] = P[k] + l[k + 1] /\ Q[k + 1] = Q[k] + m[k + 1]
    BY <1>2, <1>3, <1>5, <1>6, <2>1 DEF Sums
  <2>4. P[k] \in Nat /\ Q[k] \in Nat /\ l[k + 1] \in Nat /\ m[k + 1] \in Nat /\ total(l) \in Nat
    <3>1. P[k] \in Nat /\ Q[k] \in Nat
      BY <1>5, <1>6, <2>1
    <3>2. l[k + 1] \in Nat /\ m[k + 1] \in Nat
      BY <1>2, <1>3, <2>1
    <3> QED
      BY <1>2, <3>1, <3>2
  <2>5. F[k].chars \in Int /\ F[k + 1].chars \in Int
    BY <2>2 DEF Sizes
  <2>6. F[k].chars + P[k] = total(l) + Q[k]
    BY <1>8
  <2>7. m[k + 1] = IF k + 1 \in D THEN StubLen ELSE l[k + 1]
    BY <1>4, <2>1
  <2> HIDE DEF n
  <2>8. F[k + 1].chars = F[k].chars + m[k + 1] - l[k + 1]
    <3>1. CASE k + 1 \in D
      BY <2>2, <2>7, <3>1
    <3>2. CASE k + 1 \notin D
      <4>1. F[k + 1].chars = F[k].chars /\ m[k + 1] = l[k + 1]
        BY <2>2, <2>7, <3>2
      <4> DEFINE c == F[k].chars
                 x == l[k + 1]
      <4>2. c \in Int /\ x \in Nat
        BY <2>4, <2>5
      <4> HIDE DEF c, x
      <4>3. c = c + x - x
        BY <4>2
      <4> QED
        BY <4>1, <4>3 DEF c, x
    <3> QED
      BY <3>1, <3>2
  <2>9. F[k + 1].chars + P[k + 1] = total(l) + Q[k + 1]
    <3> DEFINE c == F[k].chars
               p == P[k]
               q == Q[k]
               x == l[k + 1]
               y == m[k + 1]
               t == total(l)
               c2 == F[k + 1].chars
               p2 == P[k + 1]
               q2 == Q[k + 1]
    <3>1. c \in Int /\ p \in Nat /\ q \in Nat /\ x \in Nat /\ y \in Nat /\ t \in Nat
      BY <2>4, <2>5
    <3>2. c + p = t + q /\ c2 = c + y - x /\ p2 = p + x /\ q2 = q + y
      BY <2>3, <2>6, <2>8, Zenon
    <3> HIDE DEF c, p, q, x, y, t, c2, p2, q2
    <3>3. c2 + p2 = t + q2
      BY <3>1, <3>2
    <3> QED
      BY <3>3, Zenon DEF c2, p2, t, q2
  <2> QED
    BY <2>1, <2>9
<1>9. \A k \in 0 .. n : k \in T
  <2> HIDE DEF T, n
  <2> QED
    BY <1>1, <1>7, <1>8, InductionTo
<1>10. F[n].chars + P[n] = total(l) + Q[n] /\ F[n] \in Sizes /\ n \in 0 .. n
  BY <1>1, <1>9 DEF StubsBy
<1>11. F[n].chars \in Int /\ P[n] \in Nat /\ Q[n] \in Nat
  BY <1>5, <1>6, <1>10 DEF Sizes
<1>12. F[n].chars = Q[n]
  BY <1>5, <1>10, <1>11
<1> QED
  BY <1>3, <1>6, <1>12 DEF V

\* What applyBudget chose: the messages D, of which A are the lists.
Oldest(ms, D) == \A i \in D, j \in 1 .. Len(ms) : j < i /\ Stubbable(ms, j) => j \in D
\* What b, the answer of the budget, chose: the messages of D, listed by A.
Chosen(ms, b, D, A) ==
  /\ D \subseteq {i \in 1 .. Len(ms) : Stubbable(ms, i)} /\ Oldest(ms, D)
  /\ Listed(A, D, Len(ms)) /\ b.at = A[Len(ms)]
  /\ b.chars = charsOf(StubbedAt(ms, D))
  /\ budget > 0 =>
       /\ CeilTokens(charsOf(ms)) <= budget => D = {}
       /\ CeilTokens(charsOf(ms)) > budget =>
            \/ CeilTokens(b.chars) <= (budget * 3) \div 4
            \/ {i \in 1 .. Len(ms) : Stubbable(ms, i)} \subseteq D

\* With no budget, or under it, nothing is chosen (tokens.ts:20).
LEMMA NothingChosen ==
  ASSUME NEW ms \in Seq(StubMessages), NEW b, b = [chars |-> charsOf(ms), at |-> <<>>],
         budget = 0 \/ CeilTokens(charsOf(ms)) <= budget, budget \in Nat
  PROVE  Chosen(ms, b, {}, [k \in 0 .. Len(ms) |-> <<>>])
<1> DEFINE A == [k \in 0 .. Len(ms) |-> <<>>]
<1>1. Len(ms) \in Nat
  OBVIOUS
<1>2. Listed(A, {}, Len(ms)) /\ b.at = A[Len(ms)]
  BY <1>1 DEF Listed
<1>3. charsOf(StubbedAt(ms, {})) = charsOf(ms)
  <2>1. Lens(StubbedAt(ms, {})) = Lens(ms)
    BY DEF Lens, StubbedAt
  <2> QED
    BY <2>1, SizeIs, StubbedAtIs
<1>4. charsOf(ms) \in Nat /\ CeilTokens(charsOf(ms)) \in Int
  BY SizeIs DEF CeilTokens
<1>5. budget > 0 => ~(CeilTokens(charsOf(ms)) > budget)
  BY <1>4
<1> HIDE DEF A
<1>6. Chosen(ms, b, {}, A)
  BY <1>2, <1>3, <1>5 DEF Chosen, Oldest
<1> QED
  BY <1>6 DEF A

\* Whatever the budget, its answer is a choice of the oldest results seen (tokens.ts:18-33).
LEMMA BudgetIs ==
  ASSUME NEW ms \in Seq(StubMessages), budget \in Nat
  PROVE  \E D, A : Chosen(ms, applyBudget(ms), D, A)
<1>1. CASE budget = 0 \/ CeilTokens(charsOf(ms)) <= budget
  <2>1. applyBudget(ms) = [chars |-> charsOf(ms), at |-> <<>>]
    BY <1>1, Zenon DEF applyBudget
  <2> QED
    BY <1>1, <2>1, NothingChosen
<1>2. CASE ~(budget = 0 \/ CeilTokens(charsOf(ms)) <= budget)
  <2> DEFINE mark == (budget * 3) \div 4
  <2>1. applyBudget(ms) = Stubbing(ms, mark)
    BY <1>2, Zenon DEF applyBudget
  <2> HIDE DEF mark
  <2>2. PICK F : StubsBy(F, ms, mark) /\ Stubbing(ms, mark) = F[Len(ms)]
    BY StubbingIs
  <2> DEFINE n == Len(ms)
             D == {i \in 1 .. n : Taken(F, ms, mark, i)}
             A == [k \in 0 .. n |-> F[k].at]
  <2>3. n \in Nat
    OBVIOUS
  <2>4. Listed(A, D, n)
    <3>1. A[0] = <<>>
      BY <2>2, <2>3 DEF StubsBy
    <3>2. ASSUME NEW i \in 1 .. n PROVE A[i] = IF i \in D THEN Append(A[i - 1], i) ELSE A[i - 1]
      <4>1. A[i] = F[i].at /\ A[i - 1] = F[i - 1].at
        BY <2>3
      <4>2. i \in D <=> Taken(F, ms, mark, i)
        OBVIOUS
      <4> HIDE DEF A, D
      <4>3. /\ Taken(F, ms, mark, i) => F[i].at = Append(F[i - 1].at, i)
            /\ ~Taken(F, ms, mark, i) => F[i] = F[i - 1]
        BY <2>2, StubStep
      <4> QED
        BY <4>1, <4>2, <4>3
    <3> HIDE DEF A
    <3> QED
      BY <3>1, <3>2 DEF Listed
  <2>5. D \subseteq {i \in 1 .. n : Stubbable(ms, i)}
    BY DEF Taken
  <2>6. Oldest(ms, D)
    <3> SUFFICES ASSUME NEW i \in D, NEW j \in 1 .. n, j < i, Stubbable(ms, j) PROVE j \in D
      BY DEF Oldest
    <3>1. ~(CeilTokens(F[i - 1].chars) <= mark) /\ i - 1 \in 0 .. n /\ j - 1 \in 0 .. i - 1
      BY <2>3 DEF Taken
    <3>2. ~(CeilTokens(F[j - 1].chars) <= mark)
      BY <2>2, <3>1, Frozen
    <3> QED
      BY <3>2 DEF Taken
  <2>7. F[n].chars = charsOf(StubbedAt(ms, D))
    <3>1. \A i \in 1 .. n : i \in D <=> Taken(F, ms, mark, i)
      OBVIOUS
    <3> HIDE DEF D
    <3> QED
      BY <2>2, <3>1, SizeKept
  <2>8. CeilTokens(F[n].chars) <= mark \/ {i \in 1 .. n : Stubbable(ms, i)} \subseteq D
    <3> SUFFICES ASSUME ~(CeilTokens(F[n].chars) <= mark), NEW i \in 1 .. n, Stubbable(ms, i)
                 PROVE  i \in D
      OBVIOUS
    <3>1. n \in 0 .. n /\ i - 1 \in 0 .. n
      BY <2>3
    <3>2. ~(CeilTokens(F[i - 1].chars) <= mark)
      BY <2>2, <3>1, Frozen
    <3> QED
      BY <3>2 DEF Taken
  <2>9. ~(CeilTokens(charsOf(ms)) <= budget)
    BY <1>2
  <2> DEFINE b == applyBudget(ms)
  <2>10. b = F[n] /\ b.at = A[n]
    BY <2>1, <2>2, <2>3
  <2> HIDE DEF A, D, b
  <2>11. Chosen(ms, b, D, A)
    BY <2>4, <2>5, <2>6, <2>7, <2>8, <2>9, <2>10 DEF Chosen, mark
  <2> QED
    BY <2>11 DEF b
<1> QED
  BY <1>1, <1>2

------------------------------------------------------------------------------
\* The reader.

\* What a stub is tied to are results of the run.
LEMMA HitsAreResults ==
  ASSUME NEW i, NEW cr, resultEvents \in Seq(StubResults)
  PROVE  Hits(i, cr) \subseteq 1 .. Len(resultEvents)
<1> DEFINE open == OpenResults(i, cr)
           exact == {e \in open : reader.prev[i].plain /\ reader.prev[i].outs[1] = Result(e).output}
<1>1. DOMAIN resultEvents = 1 .. Len(resultEvents) /\ Len(resultEvents) \in Nat
  OBVIOUS
<1>2. open \subseteq 1 .. Len(resultEvents)
  BY <1>1 DEF OpenResults
<1> HIDE DEF open
<1>3. CASE exact # {}
  <2> DEFINE Least(e) == e \in exact /\ \A d \in exact : e <= d
  <2>1. Hits(i, cr) = {CHOOSE e \in exact : \A d \in exact : e <= d}
    BY <1>3, Zenon DEF Hits, open
  <2>2. exact \subseteq open
    OBVIOUS
  <2> HIDE DEF exact
  <2>5. exact \subseteq Nat /\ exact \subseteq 1 .. Len(resultEvents)
    BY <1>1, <1>2, <2>2
  <2>3. \E e \in exact : \A d \in exact : e <= d
    BY <1>3, <2>5, LeastNatural
  <2>4. (CHOOSE e \in exact : \A d \in exact : e <= d) \in exact
    BY <2>3, Zenon
  <2> QED
    BY <2>1, <2>5, <2>4
<1>4. CASE exact = {}
  <2>1. Hits(i, cr) = {e \in open : Result(e).output # 0 /\ Includes(reader.prev[i], Result(e).output)}
    BY <1>4, Zenon DEF Hits, open
  <2> QED
    BY <1>2, <2>1
<1> QED
  BY <1>3, <1>4

\* What message i carries of results, when none is credited that it carries and all
\* are that earlier messages of one output carry.
LEMMA HitsAre ==
  ASSUME StubsTyped, HistoryRead, ResultsCarried,
         NEW i \in 1 .. Len(messages), Whole(messages, i), i <= Len(reader.prev),
         NEW cr, reader.credited \subseteq cr, messages[i].ids \cap cr = {},
         \A j \in 1 .. i - 1 : Whole(messages, j) /\ messages[j].role = "tool" => messages[j].ids \subseteq cr
  PROVE  Hits(i, cr) = Owed(messages[i]).items
<1> DEFINE m == messages[i]
           b == Batch(resultEvents, reader.firstSeen[i] - 1)
           open == OpenResults(i, cr)
           exact == {e \in open : reader.prev[i].plain /\ reader.prev[i].outs[1] = Result(e).output}
<1>1. /\ resultEvents \in Seq(StubResults) /\ DOMAIN resultEvents = 1 .. Len(resultEvents)
      /\ Len(resultEvents) \in Nat /\ messages \in Seq(StubMessages)
  BY DEF StubsTyped
<1>2. reader.prev[i] = m.text
  BY DEF HistoryRead
<1>3. Seen(reader, turn, i) = reader.firstSeen[i]
  BY DEF Seen, StubsTyped
<1>4. Carries(native, messages, resultEvents, reader, turn, i)
  BY DEF ResultsCarried
<1>5. open = b \ cr /\ b \subseteq 1 .. Len(resultEvents) /\ b \subseteq Nat
  BY <1>1 DEF OpenResults, Batch, Result
<1>6. m.ids \subseteq b
  BY <1>3, <1>4 DEF Carries
<1>7. Hits(i, cr) = IF exact # {} THEN {CHOOSE e \in exact : \A d \in exact : e <= d}
                    ELSE {e \in open : Result(e).output # 0 /\ Includes(reader.prev[i], Result(e).output)}
  BY Zenon DEF Hits
<1>8. CASE m.role = "tool"
  <2>1. native = TRUE /\ OneOutput(messages, resultEvents, reader, turn, i)
    BY <1>4, <1>8 DEF Carries
  <2>2. PICK e \in 1 .. Len(resultEvents) : m.ids = {e} /\ m.text.outs[1] = resultEvents[e].output
    BY <2>1 DEF OneOutput
  <2>3. m.text.plain = TRUE
    BY <2>1 DEF OneOutput
  <2>4. e \in exact
    BY <1>2, <1>5, <1>6, <2>2, <2>3 DEF Result
  <2>5. ASSUME NEW d \in exact, d < e PROVE FALSE
    <3>1. d \in b /\ d \notin cr
      BY <1>5
    <3>2. \/ d \in reader.credited
          \/ \E j \in 1 .. i - 1 : Whole(messages, j) /\ messages[j].role = "tool" /\ d \in messages[j].ids
      BY <1>3, <2>1, <2>2, <2>5, <3>1 DEF OneOutput
    <3> QED
      BY <3>1, <3>2
  <2>6. exact \subseteq Nat
    BY <1>5
  <2>7. \A d \in exact : e <= d
    BY <2>4, <2>5, <2>6
  <2> HIDE DEF exact
  <2>8. \A x \in exact : (\A d \in exact : x <= d) => x = e
    BY <2>4, <2>6, <2>7
  <2>9. (CHOOSE x \in exact : \A d \in exact : x <= d) = e
    BY <2>4, <2>7, <2>8, Zenon
  <2>10. Hits(i, cr) = {e}
    BY <1>7, <2>4, <2>9
  <2>11. Owed(m).items = m.ids
    BY <1>8, <2>1 DEF Owed
  <2> QED
    BY <2>2, <2>10, <2>11
<1>9. CASE m.role # "tool"
  <2>1. AllOutputs(messages, resultEvents, reader, turn, i)
    BY <1>4, <1>9 DEF Carries
  <2>2. m.text.plain = FALSE /\ m.ids = b /\ \A e \in b : Result(e).output = 0 \/ Includes(m.text, Result(e).output)
    BY <1>3, <2>1 DEF AllOutputs, Result
  <2>3. exact = {}
    BY <1>2, <2>2
  <2>4. open = b
    BY <1>5, <2>2
  <2>5. Hits(i, cr) = {e \in b : Result(e).output # 0 /\ Includes(m.text, Result(e).output)}
    BY <1>2, <1>7, <2>3, <2>4, Zenon
  <2>6. Owed(m).items = {e \in b : Result(e).output # 0}
    BY <1>9, <2>2 DEF Owed
  <2> HIDE DEF b
  <2> QED
    BY <2>2, <2>5, <2>6
<1> QED
  BY <1>8, <1>9

------------------------------------------------------------------------------
\* What the reader has: the credited results and what it has told.
Reads == [credited : SUBSET Nat, told : Seq(StubsTold)]

\* F are what the reader has after each message.
ReadBy(F, c) ==
  /\ F \in [0 .. Len(c) -> Reads] /\ F[0] = [credited |-> reader.credited, told |-> <<>>]
  /\ \A i \in 1 .. Len(c) : F[i] = ReadOne(c, F[i - 1], i)

\* One message more, and the reader still holds results credited and stubs told.
LEMMA ReadOneIs ==
  ASSUME resultEvents \in Seq(StubResults), NEW c \in Seq(StubTexts), NEW p \in Reads, NEW i \in 1 .. Len(c)
  PROVE  ReadOne(c, p, i) \in Reads
<1> DEFINE hit == IF reader.prev[i].len = c[i].was THEN Hits(i, p.credited) ELSE {}
           cr  == p.credited \cup hit
           t   == [chars |-> c[i].was, items |-> hit]
<1>1. hit \subseteq Nat
  <2>1. Hits(i, p.credited) \subseteq 1 .. Len(resultEvents) /\ Len(resultEvents) \in Nat
    BY HitsAreResults
  <2> QED
    BY <2>1
<1>2. ReadOne(c, p, i) = IF ~NewStub(i, c) THEN p ELSE [credited |-> cr, told |-> Append(p.told, t)]
  BY DEF ReadOne
<1> HIDE DEF hit
<1>3. p.credited \in SUBSET Nat /\ p.told \in Seq(StubsTold)
  BY DEF Reads
<1>4. c[i].was \in Nat
  <2>1. c[i] \in StubTexts
    OBVIOUS
  <2> QED
    BY <2>1 DEF StubTexts
<1>5. cr \in SUBSET Nat
  BY <1>1, <1>3
<1>6. t \in StubsTold
  BY <1>1, <1>4 DEF StubsTold
<1> HIDE DEF cr, t
<1>7. [credited |-> cr, told |-> Append(p.told, t)] \in Reads
  <2>1. Append(p.told, t) \in Seq(StubsTold)
    BY <1>3, <1>6
  <2> QED
    BY <1>5, <2>1 DEF Reads
<1> QED
  BY <1>2, <1>7

\* The reader goes message by message, and answers where it ends (analyze.ts:73-89).
LEMMA ReadStubsIs ==
  ASSUME resultEvents \in Seq(StubResults), reader.credited \subseteq Nat, NEW c \in Seq(StubTexts)
  PROVE  \E F : ReadBy(F, c) /\ ReadStubs(c) = F[Len(c)]
<1> DEFINE n == Len(c)
           b == [credited |-> reader.credited, told |-> <<>>]
           g == [x \in Reads \X (1 .. n) |-> ReadOne(c, x[1], x[2])]
<1>1. n \in Nat
  OBVIOUS
<1>2. b \in Reads
  <2>1. <<>> \in Seq(StubsTold)
    OBVIOUS
  <2> QED
    BY <2>1 DEF Reads
<1>3. g \in [Reads \X (1 .. n) -> Reads]
  <2>1. ASSUME NEW x \in Reads \X (1 .. n) PROVE ReadOne(c, x[1], x[2]) \in Reads
    <3>1. x[1] \in Reads /\ x[2] \in 1 .. n
      OBVIOUS
    <3> QED
      BY <3>1, ReadOneIs
  <2> QED
    BY <2>1, Zenon
<1>4. \A p \in Reads, i \in 1 .. n : g[<<p, i>>] = ReadOne(c, p, i)
  OBVIOUS
<1> HIDE DEF g, b
<1>5. PICK F \in [0 .. n -> Reads] : Follows(F, b, g, n)
  <2> HIDE DEF n
  <2> QED
    BY <1>1, <1>2, <1>3, Recursion
<1> DEFINE Is(f) == f = [i \in 0 .. n |-> IF i = 0 THEN b ELSE ReadOne(c, f[i - 1], i)]
<1>6. Is(F)
  <2>1. ASSUME NEW i \in 1 .. n PROVE F[i] = ReadOne(c, F[i - 1], i)
    <3>1. F[i - 1] \in Reads
      BY <1>1
    <3> QED
      BY <3>1, <1>4, <1>5 DEF Follows
  <2>2. \A i \in 0 .. n : F[i] = IF i = 0 THEN b ELSE ReadOne(c, F[i - 1], i)
    BY <2>1, <1>5 DEF Follows
  <2>3. F = [i \in 0 .. n |-> F[i]]
    OBVIOUS
  <2> HIDE DEF n
  <2> QED
    BY <2>2, <2>3
<1> DEFINE C == CHOOSE f : Is(f)
<1>7. Is(C)
  <2> HIDE DEF Is
  <2> QED
    BY <1>6, Zenon
<1>8. ReadStubs(c) = C[n]
  BY DEF ReadStubs, b
<1> HIDE DEF C
<1>9. C[0] = b /\ \A i \in 1 .. n : C[i] = ReadOne(c, C[i - 1], i)
  <2> HIDE DEF n
  <2>1. \A i \in 0 .. n : C[i] = IF i = 0 THEN b ELSE ReadOne(c, C[i - 1], i)
    BY <1>7
  <2>2. 0 \in 0 .. n /\ \A i \in 1 .. n : i \in 0 .. n /\ i # 0
    BY <1>1
  <2> QED
    BY <2>1, <2>2, Zenon
<1> DEFINE T == {k \in 0 .. n : C[k] \in Reads}
<1>10. \A k \in 0 .. n : k \in T
  <2>1. 0 \in T
    BY <1>1, <1>2, <1>9
  <2>2. ASSUME NEW k \in 0 .. n - 1, k \in T PROVE k + 1 \in T
    <3>1. k + 1 \in 1 .. n /\ (k + 1) - 1 = k
      BY <1>1
    <3>2. C[k + 1] = ReadOne(c, C[k], k + 1)
      BY <1>9, <3>1
    <3>3. C[k + 1] \in Reads
      BY <2>2, <3>1, <3>2, ReadOneIs
    <3> QED
      BY <3>1, <3>3
  <2> HIDE DEF n, T
  <2> QED
    BY <1>1, <2>1, <2>2, InductionTo
<1>11. C \in [0 .. n -> Reads]
  <2>1. \A k \in 0 .. n : C[k] \in Reads
    BY <1>10
  <2>2. C = [i \in 0 .. n |-> C[i]]
    BY <1>7
  <2> HIDE DEF n
  <2> QED
    BY <2>1, <2>2
<1>12. ReadBy(C, c)
  BY <1>9, <1>11 DEF ReadBy, b
<1> QED
  BY <1>8, <1>12
\* The last message of the model: 0 if there is none.
LEMMA LastAssistantIs ==
  ASSUME NEW ms \in Seq(StubMessages)
  PROVE  /\ LastAssistant(ms) \in 0 .. Len(ms) /\ LastAssistant(ms) \in Nat /\ Len(ms) \in Nat
         /\ LastAssistant(ms) > 0 => ms[LastAssistant(ms)].role = "assistant"
         /\ \A i \in 1 .. Len(ms) : ms[i].role = "assistant" => i <= LastAssistant(ms)
<1> DEFINE S == {i \in DOMAIN ms : ms[i].role = "assistant"}
<1>1. LastAssistant(ms) = IF S = {} THEN 0 ELSE CHOOSE i \in S : \A j \in S : j <= i
  BY DEF LastAssistant
<1>2. DOMAIN ms = 1 .. Len(ms) /\ Len(ms) \in Nat /\ S \subseteq 1 .. Len(ms)
  OBVIOUS
<1>3. CASE S = {}
  BY <1>1, <1>2, <1>3
<1>4. CASE S # {}
  <2>1. \E i \in S : \A j \in S : j <= i
    <3> HIDE DEF S
    <3>1. PICK x \in {Len(ms) - j : j \in S} : \A y \in {Len(ms) - j : j \in S} : x <= y
      <4>1. {Len(ms) - j : j \in S} \subseteq Nat /\ {Len(ms) - j : j \in S} # {}
        <5>1. \A j \in S : Len(ms) - j \in Nat
          BY <1>2
        <5>2. \E j \in S : TRUE
          BY <1>4
        <5> QED
          BY <5>1, <5>2
      <4> QED
        BY <4>1, LeastNatural
    <3>2. PICK i \in S : x = Len(ms) - i
      OBVIOUS
    <3>3. ASSUME NEW j \in S PROVE j <= i
      <4>1. Len(ms) - i <= Len(ms) - j
        BY <3>1, <3>2
      <4> QED
        BY <1>2, <4>1
    <3> QED
      BY <3>3
  <2> DEFINE l == LastAssistant(ms)
  <2>2. l = CHOOSE i \in S : \A j \in S : j <= i
    BY <1>1, <1>4
  <2>3. l \in S /\ \A j \in S : j <= l
    <3> HIDE DEF S, l
    <3> QED
      BY <2>1, <2>2, Zenon
  <2> QED
    BY <1>2, <2>3
<1> QED
  BY <1>3, <1>4

------------------------------------------------------------------------------
\* The texts that are sent when D are stubbed.
Sent(D) == [i \in DOMAIN messages |-> StubbedAt(messages, D)[i].text]

\* The texts of the request when the messages of D are stubs.
LEMMA SentIs ==
  ASSUME messages \in Seq(StubMessages), NEW D
  PROVE  /\ Sent(D) \in Seq(StubTexts) /\ Len(Sent(D)) = Len(messages)
         /\ \A i \in 1 .. Len(messages) : Sent(D)[i] = TextAt(messages, D, i)
<1> DEFINE c == Sent(D)
           V == StubbedAt(messages, D)
<1>1. Len(messages) \in Nat /\ DOMAIN messages = 1 .. Len(messages)
  OBVIOUS
<1>2. V \in Seq(StubMessages) /\ Len(V) = Len(messages)
  BY StubbedAtIs
<1>3. ASSUME NEW i \in 1 .. Len(messages) PROVE c[i] = TextAt(messages, D, i) /\ c[i] \in StubTexts
  <2>1. c[i] = V[i].text
    BY <1>1 DEF Sent
  <2>2. V[i].text = TextAt(messages, D, i)
    BY StubbedAtIs
  <2>3. V[i].text \in StubTexts
    <3> HIDE DEF V
    <3> QED
      BY <1>2, MessageIs
  <2> QED
    BY <2>1, <2>2, <2>3
<1>4. c \in [1 .. Len(messages) -> StubTexts]
  <2>1. c = [i \in 1 .. Len(messages) |-> c[i]]
    BY <1>1 DEF Sent
  <2> HIDE DEF c
  <2> QED
    BY <1>3, <2>1
<1>5. c \in Seq(StubTexts) /\ Len(c) = Len(messages)
  <2> HIDE DEF c
  <2> QED
    BY <1>1, <1>4
<1> QED
  BY <1>3, <1>5, Zenon

\* The messages applyBudget may stub were sent before: the reader saw their text.
LEMMA StubbableSeen ==
  ASSUME StubsTyped, HistoryRead, NEW i \in 1 .. Len(messages), Stubbable(messages, i)
  PROVE  /\ i \in 1 .. Len(reader.prev) /\ reader.prev[i] = messages[i].text
         /\ messages[i].text.stub = FALSE /\ Whole(messages, i)
<1>1. messages \in Seq(StubMessages) /\ reader.prev \in Seq(StubTexts)
  BY DEF StubsTyped
<1>2. messages[i].text.stub \in BOOLEAN /\ messages[i].isToolResult \in BOOLEAN
  BY <1>1, MessageIs
<1>3. i <= Len(reader.prev)
  BY DEF HistoryRead, Stubbable
<1> QED
  BY <1>1, <1>2, <1>3 DEF HistoryRead, Stubbable, Whole

\* The reader sees the stubs that were made, and no others.
LEMMA NewStubIs ==
  ASSUME StubsTyped, HistoryRead,
         NEW D, D \subseteq {i \in 1 .. Len(messages) : Stubbable(messages, i)},
         NEW i \in 1 .. Len(messages)
  PROVE  NewStub(i, Sent(D)) <=> i \in D
<1>1. messages \in Seq(StubMessages) /\ DOMAIN reader.prev = 1 .. Len(reader.prev)
  BY DEF StubsTyped
<1>2. Sent(D)[i] = TextAt(messages, D, i)
  BY <1>1, SentIs
<1>3. messages[i].text \in StubTexts
  BY <1>1, MessageIs
<1>4. CASE i \in D
  <2>1. Sent(D)[i].stub = TRUE
    BY <1>2, <1>3, <1>4, StubOfIs DEF TextAt
  <2>2. i \in 1 .. Len(reader.prev) /\ reader.prev[i].stub = FALSE
    BY <1>4, StubbableSeen
  <2> QED
    BY <1>1, <1>4, <2>1, <2>2 DEF NewStub
<1>5. CASE i \notin D
  <2>1. Sent(D)[i] = messages[i].text
    BY <1>2, <1>5 DEF TextAt
  <2>2. i \in DOMAIN reader.prev => reader.prev[i] = messages[i].text
    BY <1>1 DEF HistoryRead
  <2> QED
    BY <1>5, <2>1, <2>2 DEF NewStub
<1> QED
  BY <1>4, <1>5

\* What a message is owed is of its results, and all of them when it is one output.
LEMMA OwedIs ==
  ASSUME NEW m \in StubMessages
  PROVE  /\ Owed(m).items \subseteq m.ids /\ Owed(m).chars = m.text.len
         /\ Owed(m) = [chars |-> m.text.len, items |-> Owed(m).items]
         /\ native /\ m.role = "tool" => Owed(m).items = m.ids
         /\ Owed(m) \in StubsTold
<1> DEFINE x == IF native /\ m.role = "tool" THEN m.ids ELSE {e \in m.ids : Result(e).output # 0}
<1>1. Owed(m) = [chars |-> m.text.len, items |-> x]
  BY DEF Owed
<1>2. x \subseteq m.ids /\ (native /\ m.role = "tool" => x = m.ids)
  OBVIOUS
<1>3. m.ids \in SUBSET Nat /\ m.text.len \in Nat
  BY DEF StubMessages, StubTexts
<1> HIDE DEF x
<1>4. Owed(m).items = x /\ Owed(m).chars = m.text.len
  BY <1>1
<1>5. Owed(m) \in StubsTold
  <2>1. x \in SUBSET Nat
    BY <1>2, <1>3
  <2> QED
    BY <1>1, <1>3, <2>1 DEF StubsTold
<1> QED
  BY <1>1, <1>2, <1>4, <1>5

\* The results credited once the messages of D up to k were read.
Credit(D, k) == reader.credited \cup UNION {Owed(messages[j]).items : j \in {j \in D : j <= k}}
\* What has been told of the messages that a lists.
Tells(told, a) == /\ Len(told) = Len(a)
                  /\ \A x \in 1 .. Len(a) : told[x] = Owed(messages[a[x]])

\* The reader, sent what the budget stubbed, tells those stubs with what they carried,
\* and credits just that (analyze.ts:71-89).
LEMMA ReadFits ==
  ASSUME StubsTyped, HistoryRead, ResultsCarried,
         NEW D, D \subseteq {i \in 1 .. Len(messages) : Stubbable(messages, i)}, Oldest(messages, D),
         NEW A, Listed(A, D, Len(messages)),
         NEW F, ReadBy(F, Sent(D))
  PROVE  /\ F[Len(messages)].credited = Credit(D, Len(messages))
         /\ Tells(F[Len(messages)].told, A[Len(messages)])
<1> DEFINE n == Len(messages)
           c == Sent(D)
           T == {k \in 0 .. n : F[k].credited = Credit(D, k) /\ Tells(F[k].told, A[k])}
<1>1. messages \in Seq(StubMessages) /\ n \in Nat /\ c \in Seq(StubTexts) /\ Len(c) = n
  BY SentIs DEF StubsTyped
<1>2. D \subseteq 1 .. n
  OBVIOUS
<1>3. 0 \in T
  <2>1. F[0] = [credited |-> reader.credited, told |-> <<>>] /\ A[0] = <<>>
    BY DEF ReadBy, Listed
  <2>2. {j \in D : j <= 0} = {}
    <3>1. ASSUME NEW j \in D PROVE ~(j <= 0)
      <4>1. j \in 1 .. n
        BY <1>2
      <4> QED
        BY <1>1, <4>1
    <3> QED
      BY <3>1
  <2>3. F[0].credited = Credit(D, 0)
    BY <2>1, <2>2 DEF Credit
  <2>4. Tells(F[0].told, A[0])
    BY <2>1 DEF Tells
  <2> QED
    BY <1>1, <2>3, <2>4
<1>4. ASSUME NEW k \in 0 .. n - 1, k \in T PROVE k + 1 \in T
  <2> DEFINE i == k + 1
             m == messages[i]
             p == F[k]
             w == Owed(m)
  <2>1. i \in 1 .. n /\ i \in 0 .. n /\ i - 1 = k /\ k \in Nat /\ k \in 0 .. n
    BY <1>1
  <2>2. F[i] = ReadOne(c, p, i) /\ p \in Reads
    BY <1>1, <2>1 DEF ReadBy
  <2>3. p.credited = Credit(D, k) /\ Tells(p.told, A[k])
    BY <1>4
  <2>4. NewStub(i, c) <=> i \in D
    BY <2>1, NewStubIs
  <2>5. A[k] \in Seq(1 .. n) /\ A[i] = IF i \in D THEN Append(A[k], i) ELSE A[k]
    <3>1. A[k] \in Seq(1 .. n)
      BY <1>1, <2>1, ListedIs
    <3> QED
      BY <2>1, <3>1 DEF Listed
  <2>6. m \in StubMessages /\ m.text \in StubTexts
    BY <1>1, <2>1, MessageIs
  <2>7. CASE i \in D
    <3>1. /\ i \in 1 .. Len(reader.prev) /\ reader.prev[i] = m.text
          /\ Whole(messages, i) /\ Stubbable(messages, i)
      BY <2>1, <2>7, StubbableSeen
    <3>2. c[i] = StubOf(m.text)
      BY <1>1, <2>1, <2>7, SentIs DEF TextAt
    <3>3. c[i].was = m.text.len
      BY <2>6, <3>2, StubOfIs
    <3>4. \A j \in D : j <= k => Whole(messages, j) /\ j \in 1 .. n /\ messages[j] \in StubMessages
      BY <1>1, <1>2, StubbableSeen, MessageIs
    <3>5. m.ids \cap p.credited = {}
      <4>1. m.ids \cap reader.credited = {}
        BY <2>1, <3>1 DEF ResultsCarried, Carries
      <4>2. ASSUME NEW j \in D, j <= k PROVE m.ids \cap Owed(messages[j]).items = {}
        <5>1. j # i /\ j \in 1 .. n
          BY <1>2, <2>1, <4>2
        <5>2. m.ids \cap messages[j].ids = {}
          BY <2>1, <3>1, <3>4, <4>2, <5>1 DEF ResultsCarried
        <5>3. Owed(messages[j]).items \subseteq messages[j].ids
          BY <3>4, <4>2, OwedIs
        <5> QED
          BY <5>2, <5>3
      <4> DEFINE x == m.ids
      <4>3. x \cap reader.credited = {} /\ \A j \in D : j <= k => x \cap Owed(messages[j]).items = {}
        BY <4>1, <4>2
      <4> HIDE DEF x
      <4>4. ASSUME NEW e \in Credit(D, k) PROVE e \notin x
        <5>1. e \in reader.credited \/ \E j \in D : j <= k /\ e \in Owed(messages[j]).items
          BY Zenon DEF Credit
        <5> QED
          BY <4>3, <5>1
      <4> QED
        BY <2>3, <4>4 DEF x
    <3>6. ASSUME NEW j \in 1 .. i - 1, Whole(messages, j), messages[j].role = "tool"
          PROVE  messages[j].ids \subseteq p.credited
      <4>1. j \in 1 .. n /\ j < i /\ j <= k
        BY <1>1, <2>1
      <4>2. j < LastAssistant(messages)
        <5>1. i < LastAssistant(messages)
          BY <3>1 DEF Stubbable
        <5>2. LastAssistant(messages) \in Nat
          BY <1>1, LastAssistantIs
        <5> QED
          BY <1>1, <2>1, <4>1, <5>1, <5>2
      <4>3. Stubbable(messages, j)
        BY <3>6, <4>2 DEF Stubbable, Whole
      <4>4. j \in D
        BY <2>7, <4>1, <4>3 DEF Oldest
      <4>5. native = TRUE
        BY <3>6, <4>1 DEF ResultsCarried, Carries
      <4>6. Owed(messages[j]).items = messages[j].ids
        BY <3>4, <3>6, <4>1, <4>4, <4>5, OwedIs
      <4>7. Owed(messages[j]).items \subseteq Credit(D, k)
        BY <4>1, <4>4 DEF Credit
      <4> QED
        BY <2>3, <4>6, <4>7
    <3>7. reader.credited \subseteq p.credited
      BY <2>3 DEF Credit
    <3>8. Hits(i, p.credited) = w.items
      <4>1. i <= Len(reader.prev)
        BY <3>1
      <4> HIDE DEF i, p
      <4> QED
        BY <2>1, <3>1, <3>5, <3>6, <3>7, <4>1, HitsAre
    <3>9. ReadOne(c, p, i) = [credited |-> p.credited \cup w.items, told |-> Append(p.told, w)]
      <4>1. reader.prev[i].len = c[i].was
        BY <3>1, <3>3
      <4>2. w = [chars |-> c[i].was, items |-> w.items]
        BY <2>6, <3>3, OwedIs
      <4> HIDE DEF w, i, c
      <4> QED
        BY <2>4, <2>7, <3>8, <4>1, <4>2 DEF ReadOne
    <3>10. F[i].credited = Credit(D, i)
      <4>1. {j \in D : j <= i} = {j \in D : j <= k} \cup {i}
        <5>1. ASSUME NEW j \in D PROVE j <= i <=> j <= k \/ j = i
          <6>1. j \in 1 .. n
            BY <1>2
          <6> QED
            BY <1>1, <2>1, <6>1
        <5>2. i <= i
          BY <1>1, <2>1
        <5> HIDE DEF i
        <5> QED
          BY <2>7, <5>1, <5>2
      <4>2. F[i].credited = p.credited \cup w.items
        BY <2>2, <3>9
      <4> HIDE DEF i, w, p
      <4> QED
        BY <2>3, <4>1, <4>2 DEF Credit, w, m
    <3>11. Tells(F[i].told, A[i])
      <4> DEFINE x == p.told
                 a == A[k]
      <4>1. F[i].told = Append(x, w) /\ A[i] = Append(a, i)
        BY <2>2, <2>5, <2>7, <3>9
      <4>2. x \in Seq(StubsTold) /\ a \in Seq(1 .. n) /\ w \in StubsTold
        BY <2>2, <2>5, <2>6, OwedIs DEF Reads
      <4>3. Len(x) = Len(a) /\ \A y \in 1 .. Len(a) : x[y] = Owed(messages[a[y]])
        BY <2>3 DEF Tells
      <4>4. /\ Len(Append(x, w)) = Len(x) + 1 /\ Len(Append(a, i)) = Len(a) + 1 /\ Len(a) \in Nat
            /\ Append(x, w)[Len(a) + 1] = w /\ Append(a, i)[Len(a) + 1] = i
            /\ \A y \in 1 .. Len(a) : Append(x, w)[y] = x[y] /\ Append(a, i)[y] = a[y]
        <5> HIDE DEF x, a, w, i
        <5> QED
          BY <2>1, <4>2, <4>3
      <4> DEFINE X == Append(x, w)
                 Y == Append(a, i)
      <4>5. w = Owed(messages[i])
        OBVIOUS
      <4> HIDE DEF x, a, w, i, X, Y
      <4>6. ASSUME NEW y \in 1 .. Len(a) + 1 PROVE X[y] = Owed(messages[Y[y]])
        <5>1. y \in 1 .. Len(a) \/ y = Len(a) + 1
          BY <4>4
        <5> QED
          BY <4>3, <4>4, <4>5, <5>1 DEF X, Y
      <4>7. Len(X) = Len(Y) /\ Len(Y) = Len(a) + 1
        BY <4>3, <4>4 DEF X, Y
      <4> QED
        BY <4>1, <4>6, <4>7 DEF Tells, X, Y
    <3> QED
      BY <2>1, <3>10, <3>11
  <2>8. CASE i \notin D
    <3>1. F[i] = p /\ A[i] = A[k]
      BY <2>2, <2>4, <2>5, <2>8, Zenon DEF ReadOne
    <3>2. {j \in D : j <= i} = {j \in D : j <= k}
      <4>1. ASSUME NEW j \in D PROVE j <= i <=> j <= k
        <5>1. j \in 1 .. n /\ j # i
          BY <1>2, <2>8
        <5> QED
          BY <2>1, <5>1
      <4> QED
        BY <4>1
    <3>3. Credit(D, i) = Credit(D, k)
      BY <3>2 DEF Credit
    <3> QED
      BY <2>1, <2>3, <3>1, <3>3
  <2> QED
    BY <2>7, <2>8
<1>5. \A k \in 0 .. n : k \in T
  <2> HIDE DEF T, n
  <2> QED
    BY <1>1, <1>3, <1>4, InductionTo
<1>6. n \in T
  BY <1>1, <1>5
<1> QED
  BY <1>6

------------------------------------------------------------------------------
\* Nothing adds up to nothing.
LEMMA EmptyTotal == total(<<>>) = 0
<1>1. <<>> \in Seq(Nat) /\ Len(<<>>) = 0
  OBVIOUS
<1>2. PICK F \in [0 .. Len(<<>>) -> Nat] : Sums(F, <<>>) /\ total(<<>>) = F[Len(<<>>)]
  BY <1>1, TotalIs
<1> QED
  BY <1>1, <1>2 DEF Sums

\* The lengths of the messages that a lists.
Dropped(a) == [k \in DOMAIN a |-> messages[a[k]].text.len]

\* What the reader tells is what the run says it dropped, so it stands.
LEMMA SettleIs ==
  ASSUME messages \in Seq(StubMessages), NEW told \in Seq(StubsTold),
         NEW a \in Seq(1 .. Len(messages)), Tells(told, a)
  PROVE  /\ Settle(told, total(Dropped(a))) = told
         /\ told = [k \in DOMAIN a |-> Owed(messages[a[k]])]
<1>1. Len(told) = Len(a) /\ DOMAIN told = 1 .. Len(a) /\ DOMAIN a = 1 .. Len(a) /\ Len(a) \in Nat
  BY DEF Tells
<1>2. \A k \in 1 .. Len(a) : told[k] = Owed(messages[a[k]])
  BY DEF Tells
<1>3. told = [k \in 1 .. Len(a) |-> told[k]]
  BY <1>1
<1>4. told = [k \in DOMAIN a |-> Owed(messages[a[k]])]
  BY <1>1, <1>2, <1>3
<1>5. CASE told = <<>>
  <2>1. Len(a) = 0 /\ a = <<>>
    BY <1>1, <1>5
  <2>2. Dropped(a) = <<>>
    BY <2>1 DEF Dropped
  <2> QED
    BY <1>4, <1>5, <2>2, EmptyTotal DEF Settle
<1>6. CASE told # <<>>
  <2> DEFINE chars == [i \in DOMAIN told |-> told[i].chars]
  <2>1. \A k \in 1 .. Len(a) : told[k].chars = messages[a[k]].text.len
    <3> SUFFICES ASSUME NEW k \in 1 .. Len(a) PROVE told[k].chars = messages[a[k]].text.len
      OBVIOUS
    <3>1. a[k] \in 1 .. Len(messages)
      OBVIOUS
    <3>2. messages[a[k]] \in StubMessages
      BY <3>1
    <3> QED
      BY <1>2, <3>2, OwedIs
  <2>2. chars = Dropped(a)
    BY <1>1, <2>1 DEF Dropped
  <2>3. Settle(told, total(Dropped(a))) = IF total(chars) = total(Dropped(a)) THEN told
                  ELSE [i \in DOMAIN told |-> [told[i] EXCEPT !.items = {}]]
    BY <1>6, Zenon DEF Settle
  <2> HIDE DEF chars
  <2> QED
    BY <1>4, <2>2, <2>3
<1> QED
  BY <1>5, <1>6

\* What a request does, when it stubs the messages D, listed by a.
Requested(D, a) ==
  /\ messages' = StubbedAt(messages, D)
  /\ reader' = [prev |-> Sent(D), firstSeen |-> FirstSeen(Sent(D), turn + 1),
                credited |-> Credit(D, Len(messages))]
  /\ now' = [stubbed |-> [k \in DOMAIN a |-> messages[a[k]]],
             told |-> [k \in DOMAIN a |-> Owed(messages[a[k]])],
             before |-> charsOf(messages), after |-> charsOf(StubbedAt(messages, D)), sent |-> TRUE]

\* A request stubs what the budget chose.
LEMMA RequestIs ==
  ASSUME StubsInv, Request
  PROVE  \E D, A : Chosen(messages, applyBudget(messages), D, A) /\ Requested(D, A[Len(messages)])
<1> DEFINE n == Len(messages)
           b == applyBudget(messages)
<1>1. /\ messages \in Seq(StubMessages) /\ n \in Nat /\ DOMAIN messages = 1 .. n /\ budget \in Nat
      /\ resultEvents \in Seq(StubResults) /\ reader.credited \subseteq Nat
      /\ StubsTyped /\ HistoryRead /\ ResultsCarried
  BY DEF StubsInv, StubsTyped
<1>2. PICK D, A : Chosen(messages, b, D, A)
  BY <1>1, BudgetIs
<1>3. /\ D \subseteq {i \in 1 .. n : Stubbable(messages, i)} /\ Oldest(messages, D)
      /\ Listed(A, D, n) /\ b.at = A[n] /\ b.chars = charsOf(StubbedAt(messages, D))
  BY <1>2 DEF Chosen
<1> DEFINE a == A[n]
<1>4. a \in Seq(1 .. n) /\ \A i \in 1 .. n : InSeq(i, a) <=> i \in D /\ i <= n
  <2>1. \A k \in 0 .. n : /\ A[k] \in Seq(1 .. n)
                          /\ \A i \in 1 .. n : InSeq(i, A[k]) <=> i \in D /\ i <= k
    <3> HIDE DEF n
    <3> QED
      BY <1>1, <1>3, ListedIs
  <2>2. n \in 0 .. n
    BY <1>1
  <2> HIDE DEF n
  <2> QED
    BY <2>1, <2>2
<1> HIDE DEF b
<1>5. messages' = StubbedAt(messages, D)
  <2>1. messages' = [i \in DOMAIN messages |->
                       IF InSeq(i, b.at) THEN [messages[i] EXCEPT !.text = StubOf(@)] ELSE messages[i]]
    BY Zenon DEF Request, b
  <2>2. \A i \in DOMAIN messages : InSeq(i, b.at) <=> i \in D
    BY <1>1, <1>3, <1>4
  <2> QED
    BY <2>1, <2>2 DEF StubbedAt
<1> DEFINE c == [i \in DOMAIN messages |-> messages'[i].text]
           r == ReadStubs(c)
<1>6. c = Sent(D)
  BY <1>5 DEF Sent
<1>7. /\ reader' = [prev |-> c, firstSeen |-> FirstSeen(c, turn + 1), credited |-> r.credited]
      /\ now' = [stubbed |-> [k \in DOMAIN b.at |-> messages[b.at[k]]],
                 told |-> Settle(r.told, total([k \in DOMAIN b.at |-> messages[b.at[k]].text.len])),
                 before |-> charsOf(messages), after |-> b.chars, sent |-> TRUE]
  BY Zenon DEF Request, b
<1>8. Sent(D) \in Seq(StubTexts) /\ Len(Sent(D)) = n
  BY <1>1, SentIs
<1> HIDE DEF c
<1>9. PICK F : ReadBy(F, Sent(D)) /\ ReadStubs(Sent(D)) = F[n]
  BY <1>1, <1>8, ReadStubsIs
<1>10. F[n].credited = Credit(D, n) /\ Tells(F[n].told, a)
  BY <1>1, <1>3, <1>9, ReadFits
<1>11. r = F[n] /\ F[n].told \in Seq(StubsTold)
  <2>1. F[n] \in Reads
    BY <1>1, <1>8, <1>9 DEF ReadBy
  <2> QED
    BY <1>6, <1>9, <2>1 DEF Reads
<1> HIDE DEF r, a
<1>12. /\ Settle(r.told, total(Dropped(a))) = r.told
       /\ r.told = [k \in DOMAIN a |-> Owed(messages[a[k]])]
  <2>1. r.told \in Seq(StubsTold) /\ Tells(r.told, a)
    BY <1>10, <1>11
  <2> QED
    BY <1>1, <1>4, <2>1, SettleIs
<1>13. b.at = a
  BY <1>3 DEF a
<1>14. Requested(D, a)
  BY <1>3, <1>5, <1>6, <1>7, <1>10, <1>11, <1>12, <1>13, Zenon DEF Requested, Dropped
<1> QED
  BY <1>2, <1>14 DEF a, b

------------------------------------------------------------------------------
\* Stubs change no role, so the last message of the model stays where it is.
LEMMA LastAssistantKept ==
  ASSUME NEW ms \in Seq(StubMessages), NEW D
  PROVE  LastAssistant(StubbedAt(ms, D)) = LastAssistant(ms)
<1> DEFINE V == StubbedAt(ms, D)
<1>1. DOMAIN V = DOMAIN ms /\ DOMAIN ms = 1 .. Len(ms)
  BY DEF StubbedAt
<1>2. \A i \in DOMAIN ms : V[i].role = ms[i].role
  BY <1>1, StubbedAtIs
<1> HIDE DEF V
<1>3. {i \in DOMAIN V : V[i].role = "assistant"} = {i \in DOMAIN ms : ms[i].role = "assistant"}
  BY <1>1, <1>2
<1>4. LastAssistant(V) = LastAssistant(ms)
  <2> DEFINE Last(S) == IF S = {} THEN 0 ELSE CHOOSE i \in S : \A j \in S : j <= i
             SV == {i \in DOMAIN V : V[i].role = "assistant"}
             SM == {i \in DOMAIN ms : ms[i].role = "assistant"}
  <2>1. LastAssistant(V) = Last(SV) /\ LastAssistant(ms) = Last(SM)
    BY DEF LastAssistant
  <2>2. SV = SM
    BY <1>3
  <2> HIDE DEF Last, SV, SM
  <2> QED
    BY <2>1, <2>2
<1> QED
  BY <1>4 DEF V

\* The state after a request that stubs D, listed by A.
AfterRequest(D, A) ==
  /\ D \subseteq 1 .. Len(messages)
  /\ \A i \in D : Stubbable(messages, i) /\ Whole(messages, i)
  /\ \A i \in D : Owed(messages[i]).items \subseteq messages[i].ids
  /\ \A i \in D : native = TRUE /\ messages[i].role = "tool" => Owed(messages[i]).items = messages[i].ids
  /\ A[Len(messages)] \in Seq(1 .. Len(messages))
  /\ D = {} => A[Len(messages)] = <<>>
  /\ messages' \in Seq(StubMessages) /\ Len(messages') = Len(messages) /\ Len(messages) \in Nat
  /\ LastAssistant(messages') = LastAssistant(messages)
  /\ Len(reader'.prev) = Len(messages) /\ reader'.prev \in Seq(StubTexts)
  /\ DOMAIN reader'.firstSeen = 1 .. Len(messages) /\ reader'.credited = Credit(D, Len(messages))
  /\ turn' = turn + 1 /\ turn \in Nat /\ turn < MaxTurns /\ now.sent = FALSE
  /\ native' = native /\ budget' = budget /\ resultEvents' = resultEvents

\* Message i after a request that stubbed D.
AfterMessage(D, i) ==
  /\ messages'[i].role = messages[i].role /\ messages'[i].ids = messages[i].ids
  /\ messages'[i].isToolResult = messages[i].isToolResult
  /\ messages'[i].text = TextAt(messages, D, i) /\ reader'.prev[i] = messages'[i].text
  /\ i \in D => messages'[i].text.stub = TRUE
  /\ i \notin D => messages'[i].text = messages[i].text
  /\ reader'.firstSeen[i] = Seen(reader, turn, i)
  /\ Whole(messages', i) <=> Whole(messages, i) /\ i \notin D

\* What a request changes, and what it sends.
LEMMA RequestDoes ==
  ASSUME StubsInv, Request, NEW D, NEW A, Chosen(messages, applyBudget(messages), D, A),
         Requested(D, A[Len(messages)])
  PROVE  AfterRequest(D, A)
<1> DEFINE n == Len(messages)
           a == A[n]
<1>1. /\ messages \in Seq(StubMessages) /\ n \in Nat /\ DOMAIN messages = 1 .. n
      /\ StubsTyped /\ HistoryRead /\ ResultsCarried /\ turn \in 0 .. MaxTurns /\ MaxTurns \in Nat
  BY StubsAssumption DEF StubsInv, StubsTyped
<1>2. D \subseteq {i \in 1 .. n : Stubbable(messages, i)} /\ Listed(A, D, n)
  BY DEF Chosen
<1>3. ASSUME NEW i \in D
      PROVE  /\ Stubbable(messages, i) /\ Whole(messages, i)
             /\ Owed(messages[i]).items \subseteq messages[i].ids
             /\ native = TRUE /\ messages[i].role = "tool" => Owed(messages[i]).items = messages[i].ids
  <2>1. i \in 1 .. n /\ Stubbable(messages, i)
    BY <1>2
  <2>2. messages[i] \in StubMessages
    BY <1>1, <2>1
  <2> QED
    BY <1>1, <2>1, <2>2, StubbableSeen, OwedIs
<1>4. a \in Seq(1 .. n) /\ \A i \in 1 .. n : InSeq(i, a) <=> i \in D /\ i <= n
  <2>1. \A k \in 0 .. n : /\ A[k] \in Seq(1 .. n)
                          /\ \A i \in 1 .. n : InSeq(i, A[k]) <=> i \in D /\ i <= k
    <3> HIDE DEF n
    <3> QED
      BY <1>1, <1>2, ListedIs
  <2>2. n \in 0 .. n
    BY <1>1
  <2> HIDE DEF n
  <2> QED
    BY <2>1, <2>2
<1>5. D = {} => a = <<>>
  <2> SUFFICES ASSUME D = {}, a # <<>> PROVE FALSE
    OBVIOUS
  <2> HIDE DEF a
  <2>1. 1 \in DOMAIN a /\ a[1] \in 1 .. n
    BY <1>4
  <2>2. InSeq(a[1], a)
    BY <2>1 DEF InSeq
  <2> QED
    BY <1>4, <2>1, <2>2
<1>6. messages' = StubbedAt(messages, D)
  BY DEF Requested
<1>7. messages' \in Seq(StubMessages) /\ Len(messages') = n /\ LastAssistant(messages') = LastAssistant(messages)
  BY <1>1, <1>6, StubbedAtIs, LastAssistantKept
<1>8. reader'.prev = Sent(D) /\ reader'.credited = Credit(D, n) /\ reader'.firstSeen = FirstSeen(Sent(D), turn + 1)
  BY DEF Requested
<1>9. Sent(D) \in Seq(StubTexts) /\ Len(Sent(D)) = n
  BY <1>1, SentIs
<1>10. DOMAIN reader'.firstSeen = 1 .. n
  <2>1. DOMAIN Sent(D) = 1 .. n
    BY <1>9
  <2> QED
    BY <1>8, <2>1 DEF FirstSeen
<1>11. turn' = turn + 1 /\ now.sent # TRUE /\ native' = native /\ budget' = budget /\ resultEvents' = resultEvents
  BY DEF Request
<1>12. now.sent = FALSE
  <2>1. now.sent \in BOOLEAN
    BY <1>1 DEF StubsTyped, Nows
  <2> QED
    BY <1>11, <2>1
<1>13. turn < MaxTurns /\ turn \in Nat
  BY <1>1, <1>12 DEF StubsTyped
<1>14. D \subseteq 1 .. n
  BY <1>2
<1> QED
  BY <1>1, <1>3, <1>4, <1>5, <1>7, <1>8, <1>9, <1>10, <1>11, <1>12, <1>13, <1>14 DEF AfterRequest

\* What it does to one message.
LEMMA RequestDoesAt ==
  ASSUME StubsInv, Request, NEW D, NEW A, Chosen(messages, applyBudget(messages), D, A),
         Requested(D, A[Len(messages)]), NEW i \in 1 .. Len(messages)
  PROVE  AfterMessage(D, i)
<1>1. /\ messages \in Seq(StubMessages) /\ StubsTyped /\ HistoryRead
      /\ D \subseteq {j \in 1 .. Len(messages) : Stubbable(messages, j)}
  BY DEF StubsInv, StubsTyped, Chosen
<1>2. messages' = StubbedAt(messages, D)
  BY DEF Requested
<1>3. /\ messages'[i].role = messages[i].role /\ messages'[i].ids = messages[i].ids
      /\ messages'[i].isToolResult = messages[i].isToolResult
      /\ messages'[i].text = TextAt(messages, D, i) /\ Len(messages') = Len(messages)
  BY <1>1, <1>2, StubbedAtIs
<1>4. i \in D => messages'[i].text.stub = TRUE
  <2>1. messages[i].text \in StubTexts
    BY <1>1, MessageIs
  <2> QED
    BY <1>3, <2>1, StubOfIs DEF TextAt
<1>5. i \notin D => messages'[i].text = messages[i].text
  BY <1>3 DEF TextAt
<1>6. Sent(D)[i] = TextAt(messages, D, i) /\ Len(Sent(D)) = Len(messages) /\ Sent(D) \in Seq(StubTexts)
  BY <1>1, SentIs
<1>7. reader'.prev[i] = messages'[i].text
  BY <1>3, <1>6 DEF Requested
<1>8. reader'.firstSeen[i] = Seen(reader, turn, i)
  <2>1. reader'.firstSeen = FirstSeen(Sent(D), turn + 1)
    BY DEF Requested
  <2>2. i \in DOMAIN Sent(D)
    BY <1>6
  <2> DEFINE old == NewStub(i, Sent(D)) \/ (i \in DOMAIN reader.prev /\ reader.prev[i] = Sent(D)[i])
  <2>3. reader'.firstSeen[i] = IF old THEN reader.firstSeen[i] ELSE turn + 1
    BY <2>1, <2>2 DEF FirstSeen
  <2>4. old <=> i \in 1 .. Len(reader.prev)
    <3>1. DOMAIN reader.prev = 1 .. Len(reader.prev)
      BY <1>1 DEF StubsTyped
    <3>2. NewStub(i, Sent(D)) <=> i \in D
      BY <1>1, NewStubIs
    <3>3. i \in 1 .. Len(reader.prev) => reader.prev[i] = messages[i].text
      BY <1>1 DEF HistoryRead
    <3>4. i \in D => i \in 1 .. Len(reader.prev)
      BY <1>1, StubbableSeen
    <3>5. i \notin D => Sent(D)[i] = messages[i].text
      BY <1>6 DEF TextAt
    <3> QED
      BY <3>1, <3>2, <3>3, <3>4, <3>5, Zenon
  <2> HIDE DEF old
  <2> QED
    BY <2>3, <2>4 DEF Seen
<1>9. Whole(messages', i) <=> Whole(messages, i) /\ i \notin D
  BY <1>3, <1>4, <1>5 DEF Whole
<1> QED
  BY <1>3, <1>4, <1>5, <1>7, <1>8, <1>9 DEF AfterMessage

\* After a request all is of its type.
LEMMA RequestTyped ==
  ASSUME StubsInv, Request, NEW D, NEW A, Chosen(messages, applyBudget(messages), D, A),
         Requested(D, A[Len(messages)])
  PROVE  StubsTyped'
<1> DEFINE n == Len(messages)
           a == A[n]
<1>1. AfterRequest(D, A) /\ \A i \in 1 .. n : AfterMessage(D, i)
  BY RequestDoes, RequestDoesAt
<1>2. StubsTyped
  BY DEF StubsInv
<1>3. native' \in BOOLEAN /\ budget' \in Nat /\ turn' \in 0 .. MaxTurns
  <2>1. MaxTurns \in Nat
    BY StubsAssumption
  <2> QED
    BY <1>1, <1>2, <2>1 DEF StubsTyped, AfterRequest
<1>4. messages \in Seq(StubMessages) /\ n \in Nat /\ a \in Seq(1 .. n)
  BY <1>1, <1>2 DEF StubsTyped, AfterRequest
<1> HIDE DEF a
<1>5. ASSUME NEW k \in 1 .. Len(a)
      PROVE  messages[a[k]] \in StubMessages /\ Owed(messages[a[k]]) \in StubsTold
             /\ messages[a[k]].ids \subseteq 1 .. Len(resultEvents)
  <2>1. a[k] \in 1 .. n
    BY <1>4
  <2>2. messages[a[k]] \in StubMessages
    BY <1>4, <2>1
  <2> QED
    BY <1>2, <2>1, <2>2, OwedIs DEF StubsTyped
<1> DEFINE s == [k \in DOMAIN a |-> messages[a[k]]]
           w == [k \in DOMAIN a |-> Owed(messages[a[k]])]
           x == charsOf(messages)
           y == charsOf(StubbedAt(messages, D))
<1>6. s \in Seq(StubMessages) /\ Len(s) = Len(a) /\ \A k \in 1 .. Len(a) : s[k] = messages[a[k]]
  <2>1. Len(a) \in Nat /\ DOMAIN a = 1 .. Len(a)
    BY <1>4
  <2>2. s = [k \in 1 .. Len(a) |-> s[k]] /\ \A k \in 1 .. Len(a) : s[k] = messages[a[k]]
    BY <2>1
  <2>3. \A k \in 1 .. Len(a) : s[k] \in StubMessages
    BY <1>5, <2>2
  <2> HIDE DEF s
  <2>4. s \in [1 .. Len(a) -> StubMessages]
    BY <2>2, <2>3
  <2> QED
    BY <2>1, <2>2, <2>4, SequenceIs
<1>7. w \in Seq(StubsTold)
  <2>1. Len(a) \in Nat /\ DOMAIN a = 1 .. Len(a)
    BY <1>4
  <2>2. w = [k \in 1 .. Len(a) |-> w[k]] /\ \A k \in 1 .. Len(a) : w[k] \in StubsTold
    BY <1>5, <2>1
  <2> HIDE DEF w
  <2>3. w \in [1 .. Len(a) -> StubsTold]
    BY <2>2
  <2> QED
    BY <2>1, <2>3, SequenceIs
<1>8. x \in Nat /\ y \in Nat
  <2>1. StubbedAt(messages, D) \in Seq(StubMessages)
    BY <1>4, StubbedAtIs
  <2> QED
    BY <1>4, <2>1, SizeIs
<1>9. now' = [stubbed |-> s, told |-> w, before |-> x, after |-> y, sent |-> TRUE]
  BY Zenon DEF Requested, a
<1> HIDE DEF s, w, x, y
<1>10. now' \in Nows /\ now'.sent = TRUE /\ now'.stubbed = s
  BY <1>6, <1>7, <1>8, <1>9 DEF Nows
<1>11. messages' \in Seq(StubMessages) /\ resultEvents' \in Seq(StubResults)
  BY <1>1, <1>2 DEF StubsTyped, AfterRequest
<1>12. \A e \in 1 .. Len(resultEvents') : resultEvents'[e].turn <= turn' /\ resultEvents'[e].turn < turn'
  <2> SUFFICES ASSUME NEW e \in 1 .. Len(resultEvents)
               PROVE  resultEvents[e].turn <= turn + 1 /\ resultEvents[e].turn < turn + 1
    BY <1>1 DEF AfterRequest
  <2>1. resultEvents[e].turn \in Nat /\ resultEvents[e].turn <= turn /\ turn \in Nat
    <3>1. resultEvents[e] \in StubResults /\ resultEvents[e].turn <= turn
      BY <1>2 DEF StubsTyped
    <3>2. turn \in Nat
      BY <1>1 DEF AfterRequest
    <3> QED
      BY <3>1, <3>2 DEF StubResults
  <2> QED
    BY <2>1
<1>13. reader'.prev \in Seq(StubTexts) /\ DOMAIN reader'.firstSeen = 1 .. Len(reader'.prev)
  BY <1>1 DEF AfterRequest
<1>14. reader'.credited \subseteq 1 .. Len(resultEvents')
  <2>1. reader'.credited = Credit(D, n) /\ resultEvents' = resultEvents /\ D \subseteq 1 .. n
        /\ \A i \in D : Owed(messages[i]).items \subseteq messages[i].ids
    BY <1>1 DEF AfterRequest
  <2>2. \A i \in D : Owed(messages[i]).items \subseteq 1 .. Len(resultEvents)
    BY <1>2, <2>1 DEF StubsTyped
  <2>3. reader.credited \subseteq 1 .. Len(resultEvents)
    BY <1>2 DEF StubsTyped
  <2> QED
    BY <2>1, <2>2, <2>3 DEF Credit
<1>15. \A i \in 1 .. Len(reader'.prev) : reader'.firstSeen[i] \in 1 .. turn'
  <2> SUFFICES ASSUME NEW i \in 1 .. n PROVE Seen(reader, turn, i) \in 1 .. turn + 1
    BY <1>1 DEF AfterRequest, AfterMessage
  <2>1. turn \in Nat
    BY <1>1 DEF AfterRequest
  <2>2. CASE i \in 1 .. Len(reader.prev)
    BY <1>2, <2>1, <2>2 DEF StubsTyped, Seen
  <2>3. CASE i \notin 1 .. Len(reader.prev)
    BY <2>1, <2>3 DEF Seen
  <2> QED
    BY <2>2, <2>3
<1>16. \A i \in 1 .. Len(messages') : messages'[i].ids \subseteq 1 .. Len(resultEvents')
  BY <1>1, <1>2 DEF StubsTyped, AfterRequest, AfterMessage
<1>17. \A k \in 1 .. Len(now'.stubbed) : now'.stubbed[k].ids \subseteq 1 .. Len(resultEvents')
  <2>1. resultEvents' = resultEvents
    BY <1>1 DEF AfterRequest
  <2> QED
    BY <1>5, <1>6, <1>10, <2>1
<1> QED
  BY <1>3, <1>10, <1>11, <1>12, <1>13, <1>14, <1>15, <1>16, <1>17 DEF StubsTyped

------------------------------------------------------------------------------
\* After a request the reader has before it the history that was sent.
LEMMA RequestRead ==
  ASSUME StubsInv, Request, NEW D, NEW A, Chosen(messages, applyBudget(messages), D, A),
         Requested(D, A[Len(messages)])
  PROVE  HistoryRead'
<1> DEFINE n == Len(messages)
<1>1. AfterRequest(D, A) /\ \A i \in 1 .. n : AfterMessage(D, i)
  BY RequestDoes, RequestDoesAt
<1>2. HistoryRead /\ n \in Nat
  BY <1>1 DEF StubsInv, AfterRequest
<1>3. \A i \in D : i \in 1 .. n /\ messages[i].isToolResult /\ i < LastAssistant(messages)
  BY <1>1 DEF AfterRequest, Stubbable
<1>4. /\ Len(messages') >= 2 /\ messages'[1] = messages[1] /\ messages'[2] = messages[2]
  <2>1. messages' = StubbedAt(messages, D) /\ 1 \in DOMAIN messages /\ 2 \in DOMAIN messages
    <3>1. messages \in Seq(StubMessages)
      BY DEF StubsInv, StubsTyped
    <3> QED
      BY <1>2, <3>1 DEF Requested, HistoryRead
  <2>2. 1 \notin D /\ 2 \notin D
    BY <1>2, <1>3 DEF HistoryRead, Said, Message
  <2>3. messages'[1] = messages[1] /\ messages'[2] = messages[2]
    BY <2>1, <2>2 DEF StubbedAt
  <2> QED
    BY <1>1, <1>2, <2>3 DEF AfterRequest, HistoryRead
<1>5. \A i \in 1 .. Len(messages') : reader'.prev[i] = messages'[i].text
  BY <1>1 DEF AfterRequest, AfterMessage
<1>6. Len(reader'.prev) = Len(messages')
  BY <1>1 DEF AfterRequest
<1>7. ASSUME NEW i \in 1 .. Len(messages')
      PROVE  /\ i < LastAssistant(messages') => i <= Len(reader'.prev)
             /\ i > LastAssistant(messages') => messages'[i].text.stub = FALSE
             /\ messages'[i].role = "assistant" => messages'[i].isToolResult = FALSE
  <2>1. i \in 1 .. n /\ i <= n /\ Len(reader'.prev) = n /\ LastAssistant(messages') = LastAssistant(messages)
    BY <1>1 DEF AfterRequest
  <2>2. AfterMessage(D, i)
    BY <1>1, <2>1
  <2>3. LastAssistant(messages) \in Nat
    <3>1. messages \in Seq(StubMessages)
      BY DEF StubsInv, StubsTyped
    <3> QED
      BY <3>1, LastAssistantIs
  <2>4. i > LastAssistant(messages) => i \notin D
    BY <1>3, <2>1, <2>3
  <2>5. i > LastAssistant(messages) => messages'[i].text.stub = FALSE
    BY <1>2, <2>1, <2>2, <2>4 DEF HistoryRead, AfterMessage
  <2>6. messages'[i].role = "assistant" => messages'[i].isToolResult = FALSE
    BY <1>2, <2>1, <2>2 DEF HistoryRead, AfterMessage
  <2> QED
    BY <2>1, <2>5, <2>6
<1> QED
  BY <1>2, <1>4, <1>5, <1>6, <1>7 DEF HistoryRead

\* After a request the results still whole carry what no stub was given.
LEMMA RequestCarries ==
  ASSUME StubsInv, Request, NEW D, NEW A, Chosen(messages, applyBudget(messages), D, A),
         Requested(D, A[Len(messages)])
  PROVE  ResultsCarried'
<1> DEFINE n == Len(messages)
<1>1. AfterRequest(D, A) /\ \A i \in 1 .. n : AfterMessage(D, i)
  BY RequestDoes, RequestDoesAt
<1>2. ResultsCarried /\ n \in Nat /\ Len(messages') = n
  BY <1>1 DEF StubsInv, AfterRequest
<1>3. \A i, j \in 1 .. n : Whole(messages', i) /\ Whole(messages', j) /\ i # j =>
        messages'[i].ids \cap messages'[j].ids = {}
  BY <1>1, <1>2 DEF AfterMessage, ResultsCarried
<1>4. ASSUME NEW i \in 1 .. n, Whole(messages', i)
      PROVE  Carries(native', messages', resultEvents', reader', turn', i)
  <2> DEFINE m == messages[i]
  <2>1. /\ Whole(messages, i) /\ i \notin D /\ messages'[i].ids = m.ids
        /\ messages'[i].role = m.role /\ messages'[i].text = m.text
    BY <1>1, <1>4 DEF AfterMessage
  <2>2. Carries(native, messages, resultEvents, reader, turn, i)
    BY <1>2, <2>1 DEF ResultsCarried
  <2>3. Seen(reader', turn', i) = Seen(reader, turn, i) /\ native' = native /\ resultEvents' = resultEvents
    <3>1. i \in 1 .. Len(reader'.prev)
      BY <1>1 DEF AfterRequest
    <3> QED
      BY <1>1, <3>1 DEF AfterRequest, AfterMessage, Seen
  <2> DEFINE t == Seen(reader, turn, i)
  <2> HIDE DEF t
  <2>4. m.ids \subseteq Batch(resultEvents, t - 1) /\ m.ids \cap reader.credited = {}
    BY <2>2 DEF Carries, t
  <2>5. m.ids \cap reader'.credited = {}
    <3>1. /\ reader'.credited = Credit(D, n) /\ D \subseteq 1 .. n
          /\ \A j \in D : Whole(messages, j)
          /\ \A j \in D : Owed(messages[j]).items \subseteq messages[j].ids
      BY <1>1 DEF AfterRequest
    <3>2. ASSUME NEW j \in D PROVE m.ids \cap Owed(messages[j]).items = {}
      <4>1. j # i /\ j \in 1 .. n
        BY <2>1, <3>1
      <4>2. m.ids \cap messages[j].ids = {}
        BY <1>2, <2>1, <3>1, <4>1 DEF ResultsCarried
      <4> QED
        BY <3>1, <4>2
    <3> DEFINE x == m.ids
    <3>3. x \cap reader.credited = {} /\ \A j \in D : x \cap Owed(messages[j]).items = {}
      BY <2>4, <3>2
    <3> HIDE DEF x
    <3>4. ASSUME NEW e \in Credit(D, n) PROVE e \notin x
      <4>1. e \in reader.credited \/ \E j \in D : e \in Owed(messages[j]).items
        BY Zenon DEF Credit
      <4> QED
        BY <3>3, <4>1
    <3> QED
      BY <3>1, <3>4 DEF x
  <2>6. ASSUME m.role = "tool" PROVE native' = TRUE /\ OneOutput(messages', resultEvents', reader', turn', i)
    <3>1. native = TRUE /\ OneOutput(messages, resultEvents, reader, turn, i)
      BY <2>2, <2>6 DEF Carries
    <3>2. messages'[i].text.plain = TRUE
      BY <2>1, <3>1 DEF OneOutput
    <3>3. \E e \in 1 .. Len(resultEvents') :
            messages'[i].ids = {e} /\ messages'[i].text.outs[1] = resultEvents'[e].output
      BY <2>1, <2>3, <3>1 DEF OneOutput
    <3>4. ASSUME NEW d \in Batch(resultEvents, t - 1), NEW e \in m.ids, d < e
          PROVE  \/ d \in reader'.credited
                 \/ \E j \in 1 .. i - 1 : Whole(messages', j) /\ messages'[j].role = "tool" /\ d \in messages'[j].ids
      <4>0. reader'.credited = Credit(D, n)
        BY <1>1 DEF AfterRequest
      <4>1. \/ d \in reader.credited
            \/ \E j \in 1 .. i - 1 : Whole(messages, j) /\ messages[j].role = "tool" /\ d \in messages[j].ids
        BY <3>1, <3>4 DEF OneOutput, t
      <4>2. CASE d \in reader.credited
        BY <4>0, <4>2 DEF Credit
      <4>3. CASE \E j \in 1 .. i - 1 : Whole(messages, j) /\ messages[j].role = "tool" /\ d \in messages[j].ids
        <5>1. PICK j \in 1 .. i - 1 : Whole(messages, j) /\ messages[j].role = "tool" /\ d \in messages[j].ids
          BY <4>3
        <5>2. j \in 1 .. n /\ j <= n
          BY <1>2
        <5>3. AfterMessage(D, j)
          BY <1>1, <5>2
        <5>4. CASE j \in D
          <6>1. Owed(messages[j]).items = messages[j].ids
            BY <1>1, <3>1, <5>1, <5>4 DEF AfterRequest
          <6>2. d \in Credit(D, n)
            BY <5>1, <5>2, <5>4, <6>1 DEF Credit
          <6> QED
            BY <4>0, <6>2
        <5>5. CASE j \notin D
          BY <5>1, <5>3, <5>5 DEF AfterMessage
        <5> QED
          BY <5>4, <5>5
      <4> QED
        BY <4>1, <4>2, <4>3
    <3>5. Seen(reader', turn', i) = t /\ messages'[i].ids = m.ids
      BY <2>1, <2>3 DEF t
    <3> QED
      BY <2>3, <3>1, <3>2, <3>3, <3>4, <3>5 DEF OneOutput
  <2>7. ASSUME m.role # "tool" PROVE AllOutputs(messages', resultEvents', reader', turn', i)
    BY <2>1, <2>2, <2>3, <2>7 DEF Carries, AllOutputs
  <2>8. messages'[i].ids \subseteq Batch(resultEvents', Seen(reader', turn', i) - 1)
        /\ messages'[i].ids \cap reader'.credited = {}
    BY <2>1, <2>3, <2>4, <2>5 DEF t
  <2> QED
    BY <2>1, <2>6, <2>7, <2>8 DEF Carries
<1> QED
  BY <1>2, <1>3, <1>4 DEF ResultsCarried

\* The reader tells of a request just the stubs the budget made in it.
LEMMA RequestRebuilds ==
  ASSUME StubsInv, Request, NEW D, NEW A, Chosen(messages, applyBudget(messages), D, A),
         Requested(D, A[Len(messages)])
  PROVE  Rebuilt'
<1> DEFINE a == A[Len(messages)]
<1>1. AfterRequest(D, A)
  BY RequestDoes
<1>2. native' = native /\ resultEvents' = resultEvents
  BY <1>1 DEF AfterRequest
<1>3. \A m : Owed(m)' = Owed(m)
  BY <1>2 DEF Owed, Result
<1> HIDE DEF a
<1>4. now'.stubbed = [k \in DOMAIN a |-> messages[a[k]]] /\ now'.told = [k \in DOMAIN a |-> Owed(messages[a[k]])]
  BY DEF Requested, a
<1>5. now'.told = [k \in DOMAIN now'.stubbed |-> Owed(now'.stubbed[k])]
  BY <1>4
<1> QED
  BY <1>2, <1>5 DEF Rebuilt, Owed, Result

\* A request keeps to the budget, and leaves alone what the model has not seen.
LEMMA RequestBudget ==
  ASSUME StubsInv, Request, NEW D, NEW A, Chosen(messages, applyBudget(messages), D, A),
         Requested(D, A[Len(messages)])
  PROVE  BudgetKept'
<1> DEFINE n == Len(messages)
           a == A[n]
           over == CeilTokens(charsOf(messages)) > budget
           mark == (budget * 3) \div 4
           V == messages'
<1>1. AfterRequest(D, A) /\ \A i \in 1 .. n : AfterMessage(D, i)
  BY RequestDoes, RequestDoesAt
<1>2. budget' = budget /\ Len(V) = n /\ DOMAIN V = 1 .. n /\ LastAssistant(V) = LastAssistant(messages)
  BY <1>1 DEF AfterRequest
<1>3. /\ now'.stubbed = [k \in DOMAIN a |-> messages[a[k]]] /\ now'.before = charsOf(messages)
      /\ now'.after = charsOf(V)
  BY DEF Requested
<1>4. ASSUME budget > 0 PROVE CeilTokens(charsOf(messages)) <= budget => now'.stubbed = <<>>
  <2> SUFFICES ASSUME CeilTokens(charsOf(messages)) <= budget PROVE now'.stubbed = <<>>
    OBVIOUS
  <2>1. D = {}
    BY <1>4 DEF Chosen
  <2>2. a = <<>>
    BY <1>1, <2>1 DEF AfterRequest
  <2> QED
    BY <1>3, <2>2
<1>5. ASSUME budget > 0, over
      PROVE  \/ CeilTokens(charsOf(V)) <= mark
             \/ \A i \in 1 .. LastAssistant(V) : V[i].isToolResult => V[i].text.stub
  <2>1. \/ CeilTokens(applyBudget(messages).chars) <= mark
        \/ {i \in 1 .. n : Stubbable(messages, i)} \subseteq D
    BY <1>5 DEF Chosen
  <2>2. applyBudget(messages).chars = charsOf(V)
    BY DEF Chosen, Requested
  <2>3. ASSUME {i \in 1 .. n : Stubbable(messages, i)} \subseteq D,
               NEW i \in 1 .. LastAssistant(V), V[i].isToolResult
        PROVE  V[i].text.stub
    <3>1. messages \in Seq(StubMessages) /\ HistoryRead
      BY DEF StubsInv, StubsTyped
    <3>2. LastAssistant(messages) \in 0 .. n /\ n \in Nat
          /\ (LastAssistant(messages) > 0 => messages[LastAssistant(messages)].role = "assistant")
      BY <3>1, LastAssistantIs
    <3>3. i \in 1 .. n /\ i <= LastAssistant(messages) /\ LastAssistant(messages) > 0 /\ i \in Nat
      BY <1>2, <3>2
    <3>4. AfterMessage(D, i) /\ messages[i].isToolResult
      BY <1>1, <2>3, <3>3 DEF AfterMessage
    <3>5. messages[i].role # "assistant"
      BY <3>1, <3>3, <3>4 DEF HistoryRead
    <3>6. i < LastAssistant(messages)
      BY <3>2, <3>3, <3>5
    <3>7. CASE i \in D
      BY <3>4, <3>7 DEF AfterMessage
    <3>8. CASE i \notin D
      <4>1. ~Stubbable(messages, i)
        BY <2>3, <3>3, <3>8
      <4>2. messages[i].text.stub
        BY <3>4, <3>6, <4>1, Zenon DEF Stubbable
      <4> QED
        BY <3>4, <3>8, <4>2 DEF AfterMessage
    <3> QED
      BY <3>7, <3>8
  <2> QED
    BY <2>1, <2>2, <2>3
<1>6. \A i \in DOMAIN V : i > LastAssistant(V) => ~V[i].text.stub
  <2>1. HistoryRead'
    BY RequestRead
  <2> QED
    BY <1>2, <2>1 DEF HistoryRead
<1> HIDE DEF V
<1>7. BudgetKept'
  BY <1>2, <1>3, <1>4, <1>5, <1>6 DEF BudgetKept, V
<1> QED
  BY <1>7

\* So a request keeps the invariant.
LEMMA RequestKeeps ==
  ASSUME StubsInv, Request
  PROVE  StubsInv'
<1>1. PICK D, A : Chosen(messages, applyBudget(messages), D, A) /\ Requested(D, A[Len(messages)])
  BY RequestIs
<1>2. StubsTyped' /\ HistoryRead'
  BY <1>1, RequestTyped, RequestRead
<1>3. ResultsCarried' /\ Rebuilt'
  BY <1>1, RequestCarries, RequestRebuilds
<1>4. BudgetKept'
  BY <1>1, RequestBudget
<1> QED
  BY <1>2, <1>3, <1>4 DEF StubsInv

------------------------------------------------------------------------------
\* The j-th of the messages ext is the output of a call, and those of the calls
\* before it came in messages before it.
OneNew(ext, rs, j) ==
  /\ native = TRUE /\ ext[j].text.plain = TRUE
  /\ \E k \in 1 .. Len(rs) :
       /\ ext[j].ids = {Len(resultEvents) + k} /\ ext[j].text.outs[1] = rs[k].output
       /\ \A d \in 1 .. k - 1 : \E h \in 1 .. j - 1 :
            ext[h].isToolResult = TRUE /\ ext[h].role = "tool" /\ Len(resultEvents) + d \in ext[h].ids
\* It is all the outputs of the turn.
AllNew(ext, rs, j) ==
  /\ ext[j].text.plain = FALSE /\ ext[j].ids = NextIds(Len(rs))
  /\ \A k \in 1 .. Len(rs) : rs[k].output = 0 \/ Includes(ext[j].text, rs[k].output)

\* The reply and what it led to: the messages ext, the results rs.
Adds(ext, rs) ==
  /\ messages' = messages \o ext /\ resultEvents' = resultEvents \o rs
  /\ ext \in Seq(StubMessages) /\ rs \in Seq(StubResults) /\ Len(ext) >= 1 /\ ext[1] = Said("assistant")
  /\ \A k \in 1 .. Len(rs) : rs[k].turn = turn
  /\ \A j \in 1 .. Len(ext) :
       /\ j # 1 => ext[j].role # "assistant"
       /\ ext[j].text.stub = FALSE /\ ext[j].ids \subseteq NextIds(Len(rs))
       /\ ext[j].isToolResult = TRUE /\ ext[j].role = "tool" => OneNew(ext, rs, j)
       /\ ext[j].isToolResult = TRUE /\ ext[j].role # "tool" => AllNew(ext, rs, j)
  /\ \A i, j \in 1 .. Len(ext) :
       ext[i].isToolResult = TRUE /\ ext[j].isToolResult = TRUE /\ i # j => ext[i].ids \cap ext[j].ids = {}

\* u is s and then t.
Joins(s, t, u) ==
  /\ Len(s) \in Nat /\ Len(t) \in Nat /\ Len(u) = Len(s) + Len(t)
  /\ \A i \in 1 .. Len(s) : i \in 1 .. Len(u) /\ u[i] = s[i]
  /\ \A j \in 1 .. Len(t) : Len(s) + j \in 1 .. Len(u) /\ u[Len(s) + j] = t[j]
  /\ \A i \in 1 .. Len(u) : i \notin 1 .. Len(s) => \E j \in 1 .. Len(t) : i = Len(s) + j

\* A sequence joined to another.
LEMMA Joined ==
  ASSUME NEW S, NEW s \in Seq(S), NEW t \in Seq(S)
  PROVE  s \o t \in Seq(S) /\ Joins(s, t, s \o t)
<1> DEFINE u == s \o t
<1>1. u \in Seq(S) /\ Len(s) \in Nat /\ Len(t) \in Nat /\ Len(u) = Len(s) + Len(t)
  OBVIOUS
<1>2. \A i \in 1 .. Len(s) : i \in 1 .. Len(u) /\ u[i] = s[i]
  OBVIOUS
<1>3. \A j \in 1 .. Len(t) : Len(s) + j \in 1 .. Len(u) /\ u[Len(s) + j] = t[j]
  OBVIOUS
<1>4. ASSUME NEW i \in 1 .. Len(u), i \notin 1 .. Len(s) PROVE \E j \in 1 .. Len(t) : i = Len(s) + j
  <2>1. i - Len(s) \in 1 .. Len(t) /\ i = Len(s) + (i - Len(s))
    BY <1>1, <1>4
  <2> QED
    BY <2>1
<1> HIDE DEF u
<1>5. u \in Seq(S) /\ Joins(s, t, u)
  BY <1>1, <1>2, <1>3, <1>4 DEF Joins
<1> QED
  BY <1>5 DEF u

\* What a reply adds comes after what was there.
LEMMA AddsAtEnds ==
  ASSUME StubsInv, NEW ext, NEW rs, Adds(ext, rs)
  PROVE  /\ messages' \in Seq(StubMessages) /\ Joins(messages, ext, messages')
         /\ resultEvents' \in Seq(StubResults) /\ Joins(resultEvents, rs, resultEvents')
<1>1. messages \in Seq(StubMessages) /\ ext \in Seq(StubMessages) /\ messages' = messages \o ext
  BY DEF StubsInv, StubsTyped, Adds
<1>2. resultEvents \in Seq(StubResults) /\ rs \in Seq(StubResults) /\ resultEvents' = resultEvents \o rs
  BY DEF StubsInv, StubsTyped, Adds
<1>3. messages' \in Seq(StubMessages) /\ Joins(messages, ext, messages')
  BY <1>1, Joined
<1>4. resultEvents' \in Seq(StubResults) /\ Joins(resultEvents, rs, resultEvents')
  BY <1>2, Joined
<1> QED
  BY <1>3, <1>4

\* A reply comes after a request: the reader has read all messages, and no result
\* is of this turn yet.
LEMMA RepliedIs ==
  ASSUME StubsInv, Replied
  PROVE  /\ now.sent = TRUE /\ now'.sent = FALSE /\ now' \in Nows /\ turn < MaxTurns
         /\ now'.stubbed = now.stubbed /\ now'.told = now.told
         /\ native' = native /\ budget' = budget /\ turn' = turn /\ reader' = reader
         /\ Len(reader.prev) = Len(messages)
         /\ \A e \in 1 .. Len(resultEvents) : resultEvents[e].turn < turn
<1>1. now \in Nows /\ StubsTyped /\ HistoryRead
  BY DEF StubsInv, StubsTyped
<1>2. now.sent = TRUE
  BY <1>1 DEF Replied, Nows
<1>3. now' = [now EXCEPT !.sent = FALSE]
  BY DEF Replied
<1>4. now' \in Nows /\ now'.sent = FALSE /\ now'.stubbed = now.stubbed /\ now'.told = now.told
  BY <1>1, <1>3 DEF Nows
<1>5. turn < MaxTurns /\ native' = native /\ budget' = budget /\ turn' = turn /\ reader' = reader
  BY DEF Replied
<1>6. Len(reader.prev) = Len(messages)
  BY <1>1, <1>2 DEF HistoryRead
<1>7. \A e \in 1 .. Len(resultEvents) : resultEvents[e].turn < turn
  BY <1>1, <1>2 DEF StubsTyped
<1> QED
  BY <1>2, <1>4, <1>5, <1>6, <1>7

------------------------------------------------------------------------------
\* The results added are those of this turn, and no other turn has new ones.
LEMMA AddsBatch ==
  ASSUME StubsInv, Replied, NEW ext, NEW rs, Adds(ext, rs)
  PROVE  /\ NextIds(Len(rs)) = Batch(resultEvents', turn)
         /\ \A t \in Int : t < turn => Batch(resultEvents', t) = Batch(resultEvents, t)
<1> DEFINE L == Len(resultEvents)
           n == Len(rs)
           old(e) == resultEvents[e].turn
<1>1. Joins(resultEvents, rs, resultEvents') /\ \A k \in 1 .. n : rs[k].turn = turn
  BY AddsAtEnds DEF Adds
<1>2. L \in Nat /\ n \in Nat /\ Len(resultEvents') = L + n /\ turn \in Nat
  BY <1>1, StubsAssumption DEF Joins, StubsInv, StubsTyped
<1>3. ASSUME NEW e \in 1 .. L
      PROVE  resultEvents'[e] = resultEvents[e] /\ resultEvents[e].turn # turn /\ e \in 1 .. Len(resultEvents')
  <2>1. resultEvents[e].turn < turn
    BY RepliedIs
  <2>2. resultEvents[e].turn \in Nat
    <3>1. resultEvents[e] \in StubResults
      BY DEF StubsInv, StubsTyped
    <3> QED
      BY <3>1 DEF StubResults
  <2>3. resultEvents'[e] = resultEvents[e] /\ e \in 1 .. Len(resultEvents')
    BY <1>1 DEF Joins
  <2>4. resultEvents[e].turn # turn
    BY <1>2, <2>1, <2>2
  <2> QED
    BY <2>3, <2>4
<1>4. ASSUME NEW e \in 1 .. Len(resultEvents'), e \notin 1 .. L
      PROVE  resultEvents'[e].turn = turn
  <2>1. PICK k \in 1 .. n : e = L + k
    BY <1>1, <1>4 DEF Joins
  <2> QED
    BY <1>1, <2>1 DEF Joins
<1>5. NextIds(n) = {e \in 1 .. Len(resultEvents') : e \notin 1 .. L}
  BY <1>2 DEF NextIds
<1>6. NextIds(n) = Batch(resultEvents', turn)
  <2>1. \A e \in 1 .. Len(resultEvents') : resultEvents'[e].turn = turn <=> e \notin 1 .. L
    BY <1>3, <1>4
  <2> QED
    BY <1>5, <2>1 DEF Batch
<1>7. ASSUME NEW t \in Int, t < turn PROVE Batch(resultEvents', t) = Batch(resultEvents, t)
  <2>1. t # turn
    BY <1>2, <1>7
  <2>2. \A e \in 1 .. Len(resultEvents') : resultEvents'[e].turn = t => e \in 1 .. L
    BY <1>4, <2>1
  <2>3. \A e \in 1 .. L : e \in 1 .. Len(resultEvents') /\ resultEvents'[e].turn = resultEvents[e].turn
    BY <1>3
  <2> HIDE DEF L
  <2> QED
    BY <2>2, <2>3 DEF Batch, L
<1> QED
  BY <1>6, <1>7

\* After a reply all is of its type.
LEMMA AddsTyped ==
  ASSUME StubsInv, Replied, NEW ext, NEW rs, Adds(ext, rs)
  PROVE  StubsTyped'
<1>1. StubsTyped
  BY DEF StubsInv
<1>2. /\ now'.sent = FALSE /\ now' \in Nows /\ turn < MaxTurns /\ now'.stubbed = now.stubbed
      /\ native' = native /\ budget' = budget /\ turn' = turn /\ reader' = reader
      /\ \A e \in 1 .. Len(resultEvents) : resultEvents[e].turn < turn
  BY RepliedIs
<1>3. /\ messages' \in Seq(StubMessages) /\ Joins(messages, ext, messages')
      /\ resultEvents' \in Seq(StubResults) /\ Joins(resultEvents, rs, resultEvents')
  BY AddsAtEnds
<1>4. 1 .. Len(resultEvents) \subseteq 1 .. Len(resultEvents')
  BY <1>3 DEF Joins
<1>5. NextIds(Len(rs)) \subseteq 1 .. Len(resultEvents')
  BY <1>3 DEF Joins, NextIds
<1>6. ASSUME NEW e \in 1 .. Len(resultEvents') PROVE resultEvents'[e].turn <= turn'
  <2>1. turn \in Nat /\ MaxTurns \in Nat
    BY <1>1, StubsAssumption DEF StubsTyped
  <2>2. CASE e \in 1 .. Len(resultEvents)
    <3>1. resultEvents'[e] = resultEvents[e] /\ resultEvents[e].turn <= turn
      BY <1>1, <1>3, <2>2 DEF Joins, StubsTyped
    <3> QED
      BY <1>2, <3>1
  <2>3. CASE e \notin 1 .. Len(resultEvents)
    <3>1. PICK k \in 1 .. Len(rs) : e = Len(resultEvents) + k
      BY <1>3, <2>3 DEF Joins
    <3>2. resultEvents'[e].turn = turn
      BY <1>3, <3>1 DEF Joins, Adds
    <3> QED
      BY <1>2, <2>1, <3>2
  <2> QED
    BY <2>2, <2>3
<1>7. reader'.credited \subseteq 1 .. Len(resultEvents')
  BY <1>1, <1>2, <1>4 DEF StubsTyped
<1>8. ASSUME NEW i \in 1 .. Len(messages') PROVE messages'[i].ids \subseteq 1 .. Len(resultEvents')
  <2>1. CASE i \in 1 .. Len(messages)
    <3>1. messages'[i] = messages[i]
      BY <1>3, <2>1 DEF Joins
    <3>2. messages[i].ids \subseteq 1 .. Len(resultEvents)
      BY <1>1, <2>1 DEF StubsTyped
    <3> QED
      BY <1>4, <3>1, <3>2
  <2>2. CASE i \notin 1 .. Len(messages)
    <3>1. PICK j \in 1 .. Len(ext) : i = Len(messages) + j
      BY <1>3, <2>2 DEF Joins
    <3>2. messages'[i] = ext[j] /\ ext[j].ids \subseteq NextIds(Len(rs))
      BY <1>3, <3>1 DEF Joins, Adds
    <3> QED
      BY <1>5, <3>2
  <2> QED
    BY <2>1, <2>2
<1>9. \A k \in 1 .. Len(now'.stubbed) : now'.stubbed[k].ids \subseteq 1 .. Len(resultEvents')
  <2>1. \A k \in 1 .. Len(now.stubbed) : now.stubbed[k].ids \subseteq 1 .. Len(resultEvents)
    BY <1>1 DEF StubsTyped
  <2> QED
    BY <1>2, <1>4, <2>1
<1>10. /\ native' \in BOOLEAN /\ budget' \in Nat /\ turn' \in 0 .. MaxTurns /\ turn' < MaxTurns
       /\ reader'.prev \in Seq(StubTexts) /\ DOMAIN reader'.firstSeen = 1 .. Len(reader'.prev)
       /\ \A i \in 1 .. Len(reader'.prev) : reader'.firstSeen[i] \in 1 .. turn'
  BY <1>1, <1>2 DEF StubsTyped
<1> QED
  BY <1>2, <1>3, <1>6, <1>7, <1>8, <1>9, <1>10 DEF StubsTyped

\* After a reply the reader still has the beginning of the history.
LEMMA AddsRead ==
  ASSUME StubsInv, Replied, NEW ext, NEW rs, Adds(ext, rs)
  PROVE  HistoryRead'
<1> DEFINE M == Len(messages)
           last == LastAssistant(messages')
<1>1. HistoryRead
  BY DEF StubsInv
<1>2. now'.sent = FALSE /\ reader' = reader /\ Len(reader.prev) = M
  BY RepliedIs
<1>3. /\ messages' \in Seq(StubMessages) /\ Joins(messages, ext, messages')
      /\ Len(ext) >= 1 /\ ext[1] = Said("assistant")
      /\ \A j \in 1 .. Len(ext) : ext[j].text.stub = FALSE /\ (j # 1 => ext[j].role # "assistant")
  BY AddsAtEnds DEF Adds
<1>4. M \in Nat /\ Len(ext) \in Nat /\ Len(messages') = M + Len(ext)
  BY <1>3 DEF Joins
<1>5. messages'[M + 1] = Said("assistant") /\ M + 1 \in 1 .. Len(messages')
  <2>1. 1 \in 1 .. Len(ext)
    BY <1>3, <1>4
  <2> QED
    BY <1>3, <2>1 DEF Joins
<1>6. last = M + 1
  <2>1. /\ last \in 0 .. Len(messages') /\ (last > 0 => messages'[last].role = "assistant")
        /\ \A i \in 1 .. Len(messages') : messages'[i].role = "assistant" => i <= last
    <3> DEFINE mm == messages'
    <3> HIDE DEF mm
    <3>1. mm \in Seq(StubMessages)
      BY <1>3 DEF mm
    <3>2. /\ LastAssistant(mm) \in 0 .. Len(mm)
          /\ (LastAssistant(mm) > 0 => mm[LastAssistant(mm)].role = "assistant")
          /\ \A i \in 1 .. Len(mm) : mm[i].role = "assistant" => i <= LastAssistant(mm)
      BY <3>1, LastAssistantIs
    <3> QED
      BY <3>2 DEF mm
  <2>2. M + 1 <= last
    <3>1. messages'[M + 1].role = "assistant"
      BY <1>5 DEF Said, Message
    <3> QED
      BY <1>5, <2>1, <3>1
  <2> HIDE DEF last
  <2>3. ASSUME last # M + 1 PROVE FALSE
    <3>1. last \in 1 .. Len(messages') /\ last \notin 1 .. M
      BY <1>4, <2>1, <2>2
    <3>2. PICK j \in 1 .. Len(ext) : last = M + j
      BY <1>3, <3>1 DEF Joins
    <3>3. j # 1
      BY <2>3, <3>2
    <3>4. messages'[last].role # "assistant"
      BY <1>3, <3>2, <3>3 DEF Joins
    <3> QED
      BY <1>4, <2>1, <2>2, <3>4
  <2> QED
    BY <2>3
<1>7. \A i \in 1 .. M : messages'[i] = messages[i]
  BY <1>3 DEF Joins
<1>8. Len(messages') >= 2 /\ messages'[1] = Said("system") /\ messages'[2] = Said("user")
  <2>1. M >= 2
    BY <1>1 DEF HistoryRead
  <2>2. 1 \in 1 .. M /\ 2 \in 1 .. M
    BY <1>4, <2>1
  <2> QED
    BY <1>1, <1>4, <1>7, <2>1, <2>2 DEF HistoryRead
<1>9. \A i \in 1 .. Len(messages') : i <= Len(reader'.prev) => reader'.prev[i] = messages'[i].text
  <2> SUFFICES ASSUME NEW i \in 1 .. Len(messages'), i <= M PROVE reader.prev[i] = messages'[i].text
    BY <1>2
  <2>1. i \in 1 .. M
    BY <1>4
  <2>2. reader.prev[i] = messages[i].text
    BY <1>1, <1>2, <2>1 DEF HistoryRead
  <2> QED
    BY <1>7, <2>1, <2>2
<1>10. ASSUME NEW i \in 1 .. Len(messages')
       PROVE  /\ i < last => i <= Len(reader'.prev)
              /\ i > last => messages'[i].text.stub = FALSE
              /\ messages'[i].role = "assistant" => messages'[i].isToolResult = FALSE
  <2>1. i < last => i <= Len(reader'.prev)
    BY <1>2, <1>4, <1>6
  <2>2. CASE i \in 1 .. M
    <3>1. ~(i > last)
      BY <1>4, <1>6, <2>2
    <3>2. messages[i].role = "assistant" => messages[i].isToolResult = FALSE
      BY <1>1, <2>2 DEF HistoryRead
    <3> QED
      BY <1>7, <2>1, <2>2, <3>1, <3>2
  <2>3. CASE i \notin 1 .. M
    <3>1. PICK j \in 1 .. Len(ext) : i = M + j
      BY <1>3, <2>3 DEF Joins
    <3>2. messages'[i] = ext[j]
      BY <1>3, <3>1 DEF Joins
    <3>3. j = 1 => ext[j].isToolResult = FALSE
      BY <1>3 DEF Said, Message
    <3> QED
      BY <1>3, <2>1, <3>2, <3>3
  <2> QED
    BY <2>2, <2>3
<1> QED
  BY <1>2, <1>8, <1>9, <1>10 DEF HistoryRead

------------------------------------------------------------------------------
\* A message that was there carries what it carried.
LEMMA OldCarries ==
  ASSUME StubsInv, Replied, NEW ext, NEW rs, Adds(ext, rs),
         NEW i \in 1 .. Len(messages), Whole(messages', i)
  PROVE  /\ Carries(native', messages', resultEvents', reader', turn', i)
         /\ Whole(messages, i) /\ messages'[i] = messages[i] /\ messages[i].ids \subseteq 1 .. Len(resultEvents)
<1> DEFINE m == messages[i]
           t == Seen(reader, turn, i)
<1>1. Joins(messages, ext, messages') /\ Joins(resultEvents, rs, resultEvents')
  BY AddsAtEnds
<1>2. native' = native /\ turn' = turn /\ reader' = reader /\ Len(reader.prev) = Len(messages)
  BY RepliedIs
<1>3. \A j \in 1 .. Len(messages) : messages'[j] = messages[j] /\ j \in 1 .. Len(messages')
  BY <1>1 DEF Joins
<1>4. \A j \in 1 .. Len(messages) : Whole(messages', j) <=> Whole(messages, j)
  BY <1>3 DEF Whole
<1>5. Whole(messages, i) /\ messages'[i] = m /\ m.ids \subseteq 1 .. Len(resultEvents)
  BY <1>3, <1>4 DEF StubsInv, StubsTyped
<1>6. Carries(native, messages, resultEvents, reader, turn, i)
  BY <1>5 DEF StubsInv, ResultsCarried
<1>7. t - 1 \in Int /\ t - 1 < turn /\ Seen(reader', turn', i) = t
  <2>1. t = reader.firstSeen[i] /\ reader.firstSeen[i] \in 1 .. turn /\ turn \in Nat
    BY <1>2, StubsAssumption DEF Seen, StubsInv, StubsTyped
  <2> QED
    BY <1>2, <2>1
<1> HIDE DEF t
<1>8. Batch(resultEvents', t - 1) = Batch(resultEvents, t - 1)
  BY <1>7, AddsBatch
<1>9. \A e \in 1 .. Len(resultEvents) : resultEvents'[e] = resultEvents[e] /\ e \in 1 .. Len(resultEvents')
  BY <1>1 DEF Joins
<1>10. ASSUME m.role = "tool" PROVE OneOutput(messages', resultEvents', reader', turn', i)
  <2>1. OneOutput(messages, resultEvents, reader, turn, i)
    BY <1>6, <1>10 DEF Carries
  <2>2. m.text.plain = TRUE /\ \E e \in 1 .. Len(resultEvents) : m.ids = {e} /\ m.text.outs[1] = resultEvents[e].output
    BY <2>1 DEF OneOutput
  <2>3. \E e \in 1 .. Len(resultEvents') : m.ids = {e} /\ m.text.outs[1] = resultEvents'[e].output
    BY <1>9, <2>2
  <2>4. ASSUME NEW d \in Batch(resultEvents', t - 1), NEW e \in m.ids, d < e
        PROVE  \/ d \in reader.credited
               \/ \E j \in 1 .. i - 1 : Whole(messages', j) /\ messages'[j].role = "tool" /\ d \in messages'[j].ids
    <3>1. \/ d \in reader.credited
          \/ \E j \in 1 .. i - 1 : Whole(messages, j) /\ messages[j].role = "tool" /\ d \in messages[j].ids
      BY <1>8, <2>1, <2>4 DEF OneOutput, t
    <3>2. \A j \in 1 .. i - 1 : j \in 1 .. Len(messages)
      BY <1>1 DEF Joins
    <3> QED
      BY <1>3, <1>4, <3>1, <3>2
  <2> QED
    BY <1>2, <1>5, <1>7, <2>2, <2>3, <2>4 DEF OneOutput
<1>11. ASSUME m.role # "tool" PROVE AllOutputs(messages', resultEvents', reader', turn', i)
  <2>1. AllOutputs(messages, resultEvents, reader, turn, i)
    BY <1>6, <1>11 DEF Carries
  <2>2. m.text.plain = FALSE /\ m.ids = Batch(resultEvents, t - 1)
        /\ \A e \in m.ids : resultEvents[e].output = 0 \/ Includes(m.text, resultEvents[e].output)
    BY <2>1 DEF AllOutputs, t
  <2>3. \A e \in m.ids : resultEvents'[e].output = 0 \/ Includes(m.text, resultEvents'[e].output)
    BY <1>5, <1>9, <2>2
  <2> QED
    BY <1>5, <1>7, <1>8, <2>2, <2>3 DEF AllOutputs
<1>12. m.ids \subseteq Batch(resultEvents', t - 1) /\ m.ids \cap reader.credited = {}
       /\ (m.role = "tool" => native = TRUE)
  BY <1>6, <1>8 DEF Carries, t
<1> QED
  BY <1>2, <1>5, <1>7, <1>10, <1>11, <1>12 DEF Carries

\* A message that was added carries results of this turn.
LEMMA NewCarries ==
  ASSUME StubsInv, Replied, NEW ext, NEW rs, Adds(ext, rs),
         NEW j \in 1 .. Len(ext), NEW i, i = Len(messages) + j, Whole(messages', i)
  PROVE  /\ Carries(native', messages', resultEvents', reader', turn', i)
         /\ messages'[i] = ext[j] /\ ext[j].isToolResult = TRUE /\ ext[j].ids \subseteq NextIds(Len(rs))
<1> DEFINE m == ext[j]
           L == Len(resultEvents)
           M == Len(messages)
<1>1. Joins(messages, ext, messages') /\ Joins(resultEvents, rs, resultEvents')
  BY AddsAtEnds
<1>2. native' = native /\ turn' = turn /\ reader' = reader /\ Len(reader.prev) = M
  BY RepliedIs
<1>3. messages'[i] = m /\ i \in 1 .. Len(messages') /\ M \in Nat /\ L \in Nat /\ j \in Nat
  BY <1>1 DEF Joins
<1>4. m.isToolResult = TRUE /\ m.ids \subseteq NextIds(Len(rs))
  BY <1>3 DEF Whole, Adds
<1>5. Seen(reader', turn', i) - 1 = turn
  <2>1. i \notin 1 .. Len(reader.prev)
    BY <1>2, <1>3
  <2>2. turn \in Nat
    BY StubsAssumption DEF StubsInv, StubsTyped
  <2> QED
    BY <1>2, <2>1, <2>2 DEF Seen
<1>6. NextIds(Len(rs)) = Batch(resultEvents', turn)
  BY AddsBatch
<1>7. \A e \in NextIds(Len(rs)) : \E k \in 1 .. Len(rs) : e = L + k /\ resultEvents'[e] = rs[k]
  <2> SUFFICES ASSUME NEW e \in NextIds(Len(rs)) PROVE \E k \in 1 .. Len(rs) : e = L + k /\ resultEvents'[e] = rs[k]
    OBVIOUS
  <2>1. e \in 1 .. Len(resultEvents') /\ e \notin 1 .. L
    BY <1>1 DEF Joins, NextIds
  <2>2. PICK k \in 1 .. Len(rs) : e = L + k
    BY <1>1, <2>1 DEF Joins
  <2> QED
    BY <1>1, <2>2 DEF Joins
<1>8. NextIds(Len(rs)) \cap reader.credited = {}
  <2>1. reader.credited \subseteq 1 .. L
    BY DEF StubsInv, StubsTyped
  <2>2. \A e \in NextIds(Len(rs)) : e \notin 1 .. L
    BY <1>1 DEF Joins, NextIds
  <2> QED
    BY <2>1, <2>2
<1>9. ASSUME m.role = "tool" PROVE native = TRUE /\ OneOutput(messages', resultEvents', reader', turn', i)
  <2>1. OneNew(ext, rs, j)
    BY <1>4, <1>9 DEF Adds
  <2>2. PICK k \in 1 .. Len(rs) :
          /\ m.ids = {L + k} /\ m.text.outs[1] = rs[k].output
          /\ \A d \in 1 .. k - 1 : \E h \in 1 .. j - 1 :
               ext[h].isToolResult = TRUE /\ ext[h].role = "tool" /\ L + d \in ext[h].ids
    BY <2>1 DEF OneNew
  <2>3. native = TRUE /\ m.text.plain = TRUE
    BY <2>1 DEF OneNew
  <2>4. L + k \in 1 .. Len(resultEvents') /\ resultEvents'[L + k] = rs[k]
    BY <1>1 DEF Joins
  <2>5. ASSUME NEW d \in Batch(resultEvents', turn), NEW e \in m.ids, d < e
        PROVE  \E g \in 1 .. i - 1 : Whole(messages', g) /\ messages'[g].role = "tool" /\ d \in messages'[g].ids
    <3>1. PICK x \in 1 .. Len(rs) : d = L + x
      BY <1>6, <1>7
    <3>2. e = L + k /\ x \in 1 .. k - 1
      <4>1. e = L + k
        BY <2>2
      <4> QED
        BY <1>3, <2>5, <3>1, <4>1
    <3>3. PICK h \in 1 .. j - 1 : ext[h].isToolResult = TRUE /\ ext[h].role = "tool" /\ L + x \in ext[h].ids
      BY <2>2, <3>2
    <3>4. h \in 1 .. Len(ext) /\ M + h \in 1 .. i - 1
      <4>1. Len(ext) \in Nat /\ M \in Nat
        BY <1>1 DEF Joins
      <4> QED
        BY <1>3, <4>1
    <3>5. messages'[M + h] = ext[h] /\ M + h \in 1 .. Len(messages') /\ ext[h].text.stub = FALSE
      <4>1. messages'[M + h] = ext[h] /\ M + h \in 1 .. Len(messages')
        BY <1>1, <3>4 DEF Joins
      <4>2. ext[h].text.stub = FALSE
        BY <3>4 DEF Adds
      <4> QED
        BY <4>1, <4>2
    <3>6. Whole(messages', M + h)
      BY <3>3, <3>5 DEF Whole
    <3> QED
      BY <3>1, <3>3, <3>4, <3>5, <3>6
  <2>6. \E e \in 1 .. Len(resultEvents') : m.ids = {e} /\ m.text.outs[1] = resultEvents'[e].output
    BY <2>2, <2>4
  <2> QED
    BY <1>2, <1>3, <1>5, <2>3, <2>5, <2>6 DEF OneOutput
<1>10. ASSUME m.role # "tool" PROVE AllOutputs(messages', resultEvents', reader', turn', i)
  <2>1. AllNew(ext, rs, j)
    BY <1>4, <1>10 DEF Adds
  <2>2. m.text.plain = FALSE /\ m.ids = NextIds(Len(rs))
        /\ \A k \in 1 .. Len(rs) : rs[k].output = 0 \/ Includes(m.text, rs[k].output)
    BY <2>1 DEF AllNew
  <2>3. \A e \in m.ids : resultEvents'[e].output = 0 \/ Includes(m.text, resultEvents'[e].output)
    <3> SUFFICES ASSUME NEW e \in NextIds(Len(rs))
                 PROVE  resultEvents'[e].output = 0 \/ Includes(m.text, resultEvents'[e].output)
      BY <2>2
    <3>1. PICK k \in 1 .. Len(rs) : resultEvents'[e] = rs[k]
      BY <1>7
    <3> QED
      BY <2>2, <3>1
  <2> QED
    BY <1>3, <1>5, <1>6, <2>2, <2>3 DEF AllOutputs
<1>11. m.ids \cap reader.credited = {}
  BY <1>4, <1>8
<1> QED
  BY <1>2, <1>3, <1>4, <1>5, <1>6, <1>9, <1>10, <1>11 DEF Carries

\* So all of them carry what they should, and no two the same result.
LEMMA AddsCarries ==
  ASSUME StubsInv, Replied, NEW ext, NEW rs, Adds(ext, rs)
  PROVE  ResultsCarried'
<1> DEFINE M == Len(messages)
           new == NextIds(Len(rs))
           old == 1 .. Len(resultEvents)
<1>1. Joins(messages, ext, messages') /\ Joins(resultEvents, rs, resultEvents')
  BY AddsAtEnds
<1>2. ASSUME NEW i \in 1 .. Len(messages'), Whole(messages', i)
      PROVE  /\ Carries(native', messages', resultEvents', reader', turn', i)
             /\ i \in 1 .. M => Whole(messages, i) /\ messages'[i] = messages[i] /\ messages[i].ids \subseteq old
             /\ i \notin 1 .. M => \E j \in 1 .. Len(ext) :
                  i = M + j /\ messages'[i] = ext[j] /\ ext[j].isToolResult = TRUE /\ ext[j].ids \subseteq new
  <2>1. CASE i \in 1 .. M
    BY <1>2, <2>1, OldCarries
  <2>2. CASE i \notin 1 .. M
    <3>1. PICK j \in 1 .. Len(ext) : i = M + j
      BY <1>1, <2>2 DEF Joins
    <3>2. /\ Carries(native', messages', resultEvents', reader', turn', i)
          /\ messages'[i] = ext[j] /\ ext[j].isToolResult = TRUE /\ ext[j].ids \subseteq new
      BY <1>2, <3>1, NewCarries
    <3> QED
      BY <2>2, <3>1, <3>2
  <2> QED
    BY <2>1, <2>2
<1>3. new \cap old = {}
  <2>1. \A e \in new : e \notin old
    BY <1>1 DEF Joins, NextIds
  <2> QED
    BY <2>1
<1>4. \A i, j \in 1 .. Len(ext) :
        ext[i].isToolResult = TRUE /\ ext[j].isToolResult = TRUE /\ i # j => ext[i].ids \cap ext[j].ids = {}
  BY DEF Adds
<1>5. \A i, j \in 1 .. M :
        Whole(messages, i) /\ Whole(messages, j) /\ i # j => messages[i].ids \cap messages[j].ids = {}
  BY DEF StubsInv, ResultsCarried
<1> HIDE DEF new, old, M
<1>6. ASSUME NEW i \in 1 .. Len(messages'), NEW j \in 1 .. Len(messages'),
             Whole(messages', i), Whole(messages', j), i # j
      PROVE  messages'[i].ids \cap messages'[j].ids = {}
  <2>1. CASE i \in 1 .. M /\ j \in 1 .. M
    BY <1>2, <1>5, <1>6, <2>1
  <2>2. CASE i \in 1 .. M /\ j \notin 1 .. M
    <3>1. messages'[i].ids \subseteq old /\ messages'[j].ids \subseteq new
      BY <1>2, <1>6, <2>2
    <3> QED
      BY <1>3, <3>1
  <2>3. CASE i \notin 1 .. M /\ j \in 1 .. M
    <3>1. messages'[j].ids \subseteq old /\ messages'[i].ids \subseteq new
      BY <1>2, <1>6, <2>3
    <3> QED
      BY <1>3, <3>1
  <2>4. CASE i \notin 1 .. M /\ j \notin 1 .. M
    <3>1. PICK x \in 1 .. Len(ext) : i = M + x /\ messages'[i] = ext[x] /\ ext[x].isToolResult = TRUE
      BY <1>2, <1>6, <2>4
    <3>2. PICK y \in 1 .. Len(ext) : j = M + y /\ messages'[j] = ext[y] /\ ext[y].isToolResult = TRUE
      BY <1>2, <1>6, <2>4
    <3> QED
      BY <1>4, <1>6, <3>1, <3>2
  <2> QED
    BY <2>1, <2>2, <2>3, <2>4
<1> QED
  BY <1>2, <1>6 DEF ResultsCarried

\* What was told stands: the results it names are where they were.
LEMMA RebuiltStands ==
  ASSUME StubsInv, native' = native, now'.stubbed = now.stubbed, now'.told = now.told,
         \A e \in 1 .. Len(resultEvents) : resultEvents'[e] = resultEvents[e], now'.sent = FALSE
  PROVE  Rebuilt' /\ BudgetKept'
<1> DEFINE s == now.stubbed
<1>1. Rebuilt /\ s \in Seq(StubMessages)
      /\ \A k \in 1 .. Len(s) : s[k].ids \subseteq 1 .. Len(resultEvents)
  BY DEF StubsInv, StubsTyped, Nows
<1>2. \A m : m.ids \subseteq 1 .. Len(resultEvents) => Owed(m)' = Owed(m)
  <2> SUFFICES ASSUME NEW m, m.ids \subseteq 1 .. Len(resultEvents) PROVE Owed(m)' = Owed(m)
    OBVIOUS
  <2>1. {e \in m.ids : resultEvents'[e].output # 0} = {e \in m.ids : resultEvents[e].output # 0}
    OBVIOUS
  <2> QED
    BY <2>1 DEF Owed, Result
<1>3. \A k \in DOMAIN s : Owed(s[k])' = Owed(s[k])
  BY <1>1, <1>2
<1>4. now'.told = [k \in DOMAIN s |-> Owed(s[k])]
  BY <1>1 DEF Rebuilt
<1>5. Rebuilt'
  BY <1>3, <1>4 DEF Rebuilt
<1>6. BudgetKept'
  BY DEF BudgetKept
<1> QED
  BY <1>5, <1>6

\* A reply that adds messages and results so keeps the invariant.
LEMMA AddsKeeps ==
  ASSUME StubsInv, Replied, NEW ext, NEW rs, Adds(ext, rs)
  PROVE  StubsInv'
<1>1. \A e \in 1 .. Len(resultEvents) : resultEvents'[e] = resultEvents[e]
  <2>1. Joins(resultEvents, rs, resultEvents')
    BY AddsAtEnds
  <2> QED
    BY <2>1 DEF Joins
<1>2. Rebuilt' /\ BudgetKept'
  BY <1>1, RepliedIs, RebuiltStands
<1>3. StubsTyped' /\ HistoryRead' /\ ResultsCarried'
  BY AddsTyped, AddsRead, AddsCarries
<1> QED
  BY <1>2, <1>3 DEF StubsInv

------------------------------------------------------------------------------
\* The texts: what is no output, one output and nothing else, outputs and more.
NoText == Text(2, FALSE, <<>>)
\* The texts of a result: one output, or those of a turn.
OneText(o) == Text(o, TRUE, <<o>>)
AllText(len, outs) == Text(len, FALSE, outs)
\* A message of no results, and one of some.
Plainly(role, text) == Message(role, FALSE, text, {})
Resulting(role, text, ids) == Message(role, TRUE, text, ids)

\* What a message or a text is, for the solvers to see without its record.
Unstubbed(t) == t \in StubTexts /\ t.stub = FALSE
IsOne(t, o) == Unstubbed(t) /\ t.plain = TRUE /\ t.outs[1] = o
IsAll(t, outs) == Unstubbed(t) /\ t.plain = FALSE /\ t.outs = outs
IsPlain(m, role, text) ==
  m \in StubMessages /\ m.role = role /\ m.isToolResult = FALSE /\ m.text = text /\ m.ids = {}
IsResult(m, role, text, ids) ==
  m \in StubMessages /\ m.role = role /\ m.isToolResult = TRUE /\ m.text = text /\ m.ids = ids

\* The texts a reply brings are what they are named for.
LEMMA TextsAre ==
  ASSUME NEW n \in Nat, NEW outs \in Seq(Nat)
  PROVE  Unstubbed(NoText) /\ IsOne(OneText(n), n) /\ IsAll(AllText(n, outs), outs)
<1> DEFINE f == FALSE
           y == TRUE
           z == 0
           two == 2
           none == <<>>
           one == <<n>>
<1>1. f \in BOOLEAN /\ y \in BOOLEAN /\ f = FALSE /\ y = TRUE
  OBVIOUS
<1>2. z \in Nat /\ two \in Nat /\ none \in Seq(Nat) /\ one \in Seq(Nat) /\ one[1] = n
  OBVIOUS
<1> DEFINE a == NoText
           b == OneText(n)
           c == AllText(n, outs)
<1>3. a = [len |-> two, plain |-> f, outs |-> none, stub |-> f, was |-> z]
  BY DEF NoText, Text
<1>4. b = [len |-> n, plain |-> y, outs |-> one, stub |-> f, was |-> z]
  BY DEF OneText, Text
<1>5. c = [len |-> n, plain |-> f, outs |-> outs, stub |-> f, was |-> z]
  BY DEF AllText, Text
<1> HIDE DEF f, y, z, two, none, one, a, b, c
<1>6. a \in StubTexts /\ b \in StubTexts /\ c \in StubTexts
  BY <1>1, <1>2, <1>3, <1>4, <1>5 DEF StubTexts
<1>7. a.stub = f /\ b.stub = f /\ c.stub = f /\ b.plain = y /\ c.plain = f
  BY <1>3, <1>4, <1>5
<1>8. b.outs = one /\ c.outs = outs
  BY <1>4, <1>5
<1>9. Unstubbed(a) /\ IsOne(b, n) /\ IsAll(c, outs)
  BY <1>1, <1>2, <1>6, <1>7, <1>8 DEF Unstubbed, IsOne, IsAll
<1> QED
  BY <1>9 DEF a, b, c

\* The messages a reply brings are what they are named for.
LEMMA MessagesAre ==
  ASSUME NEW role \in StubRoles, NEW text \in StubTexts, NEW ids \in SUBSET Nat
  PROVE  IsPlain(Plainly(role, text), role, text) /\ IsResult(Resulting(role, text, ids), role, text, ids)
<1> DEFINE f == FALSE
           y == TRUE
           a == Plainly(role, text)
           b == Resulting(role, text, ids)
           none == {}
<1>1. f \in BOOLEAN /\ y \in BOOLEAN /\ f = FALSE /\ y = TRUE /\ none \in SUBSET Nat /\ none = {}
  OBVIOUS
<1>2. a = [role |-> role, isToolResult |-> f, text |-> text, ids |-> none]
  BY DEF Plainly, Message
<1>3. b = [role |-> role, isToolResult |-> y, text |-> text, ids |-> ids]
  BY DEF Resulting, Message
<1> HIDE DEF f, y, a, b, none
<1>4. a \in StubMessages /\ b \in StubMessages
  BY <1>1, <1>2, <1>3 DEF StubMessages
<1>5. a.role = role /\ a.isToolResult = f /\ a.text = text /\ a.ids = none
  BY <1>2
<1>6. b.role = role /\ b.isToolResult = y /\ b.text = text /\ b.ids = ids
  BY <1>3
<1>7. IsPlain(a, role, text) /\ IsResult(b, role, text, ids)
  BY <1>1, <1>4, <1>5, <1>6 DEF IsPlain, IsResult
<1> QED
  BY <1>7 DEF a, b

\* A message that is no result carries none.
LEMMA SaidIs ==
  ASSUME NEW role \in StubRoles
  PROVE  /\ Said(role) \in StubMessages /\ Said(role).role = role /\ Said(role).isToolResult = FALSE
         /\ Said(role).text.stub = FALSE /\ Said(role).ids = {}
<1>1. Said(role) = Plainly(role, NoText)
  BY DEF Said, Plainly, NoText
<1>2. NoText \in StubTexts /\ NoText.stub = FALSE
  <2>1. 0 \in Nat /\ <<>> \in Seq(Nat)
    OBVIOUS
  <2>2. Unstubbed(NoText)
    BY <2>1, TextsAre
  <2> QED
    BY <2>2 DEF Unstubbed
<1>3. IsPlain(Plainly(role, NoText), role, NoText)
  <2>1. {} \in SUBSET Nat
    OBVIOUS
  <2> QED
    BY <1>2, <2>1, MessagesAre
<1> DEFINE m == Said(role)
<1> HIDE DEF m
<1>4. IsPlain(m, role, NoText)
  BY <1>1, <1>3 DEF m
<1>5. m \in StubMessages /\ m.role = role /\ m.isToolResult = FALSE /\ m.text.stub = FALSE /\ m.ids = {}
  BY <1>2, <1>4 DEF IsPlain
<1> QED
  BY <1>5 DEF m

\* What Recorded adds.
Events(outs) == [k \in DOMAIN outs |-> [turn |-> turn, output |-> outs[k]]]

\* The events of outputs, one for each, of this turn.
LEMMA EventsAre ==
  ASSUME turn \in Nat, NEW outs \in Seq(Nat)
  PROVE  /\ Events(outs) \in Seq(StubResults) /\ Len(Events(outs)) = Len(outs) /\ Len(outs) \in Nat
         /\ \A k \in 1 .. Len(outs) : Events(outs)[k].turn = turn /\ Events(outs)[k].output = outs[k]
<1> DEFINE r == Events(outs)
<1>1. DOMAIN outs = 1 .. Len(outs) /\ Len(outs) \in Nat
  OBVIOUS
<1>2. \A k \in 1 .. Len(outs) : r[k] = [turn |-> turn, output |-> outs[k]] /\ outs[k] \in Nat
  BY <1>1 DEF Events
<1>3. r = [k \in 1 .. Len(outs) |-> r[k]]
  BY <1>1 DEF Events
<1> HIDE DEF r
<1>4. ASSUME NEW k \in 1 .. Len(outs)
      PROVE  r[k] \in StubResults /\ r[k].turn = turn /\ r[k].output = outs[k]
  <2> DEFINE o == outs[k]
             e == r[k]
  <2>1. e = [turn |-> turn, output |-> o] /\ o \in Nat
    BY <1>2
  <2> HIDE DEF o, e
  <2>2. e \in StubResults /\ e.turn = turn /\ e.output = o
    BY <2>1 DEF StubResults
  <2> QED
    BY <2>2 DEF o, e
<1>5. r \in Seq(StubResults) /\ Len(r) = Len(outs)
  BY <1>1, <1>3, <1>4
<1> QED
  BY <1>1, <1>4, <1>5 DEF r

\* A sequence of one.
LEMMA OneIs ==
  ASSUME NEW S, NEW x \in S
  PROVE  <<x>> \in Seq(S) /\ Len(<<x>>) = 1 /\ <<x>>[1] = x /\ 1 \in 1 .. Len(<<x>>)
OBVIOUS

\* Messages after the reply.
LEMMA AfterReply ==
  ASSUME NEW s \in Seq(StubMessages), NEW ext, ext = <<Said("assistant")>> \o s
  PROVE  /\ ext \in Seq(StubMessages) /\ Len(ext) = Len(s) + 1 /\ Len(s) \in Nat
         /\ ext[1] = Said("assistant") /\ \A j \in 1 .. Len(s) : ext[j + 1] = s[j]
<1> DEFINE x == Said("assistant")
<1>1. x \in StubMessages
  BY SaidIs DEF StubRoles
<1> HIDE DEF x
<1>2. ext = <<x>> \o s
  BY DEF x
<1>3. ext \in Seq(StubMessages) /\ Len(ext) = Len(s) + 1 /\ Len(s) \in Nat /\ ext[1] = x
  BY <1>1, <1>2
<1>4. \A j \in 1 .. Len(s) : ext[j + 1] = s[j]
  BY <1>1, <1>2
<1> QED
  BY <1>3, <1>4 DEF x

\* One message of all the outputs of a turn.
LEMMA WrappedKeeps ==
  ASSUME StubsInv, Replied, NEW outs \in Seq(Nat), NEW len \in Nat, Recorded(outs),
         NEW m, m = Resulting("user", AllText(len, outs), NextIds(Len(outs))),
         messages' = messages \o (<<Said("assistant")>> \o <<m>>)
  PROVE  StubsInv'
<1> DEFINE ext == <<Said("assistant")>> \o <<m>>
           rs == Events(outs)
<1>1. turn \in Nat /\ Len(resultEvents) \in Nat
  BY StubsAssumption DEF StubsInv, StubsTyped
<1>2. /\ rs \in Seq(StubResults) /\ Len(rs) = Len(outs) /\ Len(outs) \in Nat
      /\ \A k \in 1 .. Len(outs) : rs[k].turn = turn /\ rs[k].output = outs[k]
  BY <1>1, EventsAre
<1>3. NextIds(Len(outs)) \in SUBSET Nat
  BY <1>1, <1>2 DEF NextIds
<1>4. /\ m \in StubMessages /\ m.role = "user" /\ m.isToolResult = TRUE /\ m.ids = NextIds(Len(outs))
      /\ m.text.stub = FALSE /\ m.text.plain = FALSE /\ m.text.outs = outs
  <2> DEFINE ids == NextIds(Len(outs))
             role == "user"
             text == AllText(len, outs)
  <2>1. /\ role \in StubRoles /\ ids \in SUBSET Nat /\ role = "user" /\ m = Resulting(role, text, ids)
    BY <1>3 DEF StubRoles
  <2>2. IsAll(text, outs)
    BY TextsAre
  <2> HIDE DEF ext, rs, ids, role, text
  <2>3. text \in StubTexts /\ text.stub = FALSE /\ text.plain = FALSE /\ text.outs = outs
    BY <2>2 DEF IsAll, Unstubbed
  <2>4. IsResult(m, role, text, ids)
    BY <2>1, <2>3, MessagesAre
  <2>5. m \in StubMessages /\ m.role = role /\ m.isToolResult = TRUE /\ m.ids = ids /\ m.text = text
    BY <2>4 DEF IsResult
  <2> QED
    BY <2>1, <2>3, <2>5 DEF ids
<1>5. resultEvents' = resultEvents \o rs
  BY DEF Recorded, Events
<1> HIDE DEF rs
<1>6. /\ ext \in Seq(StubMessages) /\ Len(ext) = 2 /\ ext[1] = Said("assistant") /\ ext[2] = m
  <2> DEFINE s == <<m>>
  <2>1. ext = <<Said("assistant")>> \o s
    OBVIOUS
  <2>2. s \in Seq(StubMessages) /\ Len(s) = 1 /\ s[1] = m /\ 1 \in 1 .. Len(s)
    BY <1>4, OneIs
  <2> HIDE DEF s, ext
  <2>3. /\ ext \in Seq(StubMessages) /\ Len(ext) = Len(s) + 1 /\ ext[1] = Said("assistant")
        /\ \A j \in 1 .. Len(s) : ext[j + 1] = s[j]
    BY <2>1, <2>2, AfterReply
  <2>4. ext[2] = s[1]
    <3>1. ext[1 + 1] = s[1]
      BY <2>2, <2>3, Zenon
    <3> QED
      BY <3>1
  <2> QED
    BY <2>2, <2>3, <2>4
<1>7. messages' = messages \o ext
  OBVIOUS
<1> HIDE DEF ext
<1>8. /\ Said("assistant").isToolResult = FALSE /\ Said("assistant").text.stub = FALSE
      /\ Said("assistant").ids = {}
  BY SaidIs DEF StubRoles
<1>9. AllNew(ext, rs, 2)
  <2>1. \A k \in 1 .. Len(rs) : Includes(ext[2].text, rs[k].output)
    <3> SUFFICES ASSUME NEW k \in 1 .. Len(rs) PROVE Includes(ext[2].text, rs[k].output)
      OBVIOUS
    <3>1. k \in DOMAIN outs /\ rs[k].output = outs[k] /\ outs[k] \in Nat
      BY <1>2
    <3>2. outs[k] <= outs[k]
      BY <3>1
    <3> QED
      BY <1>4, <1>6, <3>1, <3>2 DEF Includes
  <2> QED
    BY <1>2, <1>4, <1>6, <2>1 DEF AllNew
<1>10. \A j \in 1 .. Len(ext) : j = 1 \/ j = 2
  BY <1>6
<1>11. Adds(ext, rs)
  <2>1. \A j \in 1 .. Len(ext) :
          /\ j # 1 => ext[j].role # "assistant"
          /\ ext[j].text.stub = FALSE /\ ext[j].ids \subseteq NextIds(Len(rs))
          /\ ext[j].isToolResult = TRUE /\ ext[j].role = "tool" => OneNew(ext, rs, j)
          /\ ext[j].isToolResult = TRUE /\ ext[j].role # "tool" => AllNew(ext, rs, j)
    BY <1>2, <1>4, <1>6, <1>8, <1>9, <1>10
  <2>2. \A i, j \in 1 .. Len(ext) :
          ext[i].isToolResult = TRUE /\ ext[j].isToolResult = TRUE /\ i # j => ext[i].ids \cap ext[j].ids = {}
    BY <1>6, <1>8, <1>10
  <2>3. Len(ext) >= 1 /\ \A k \in 1 .. Len(rs) : rs[k].turn = turn
    BY <1>2, <1>6
  <2> QED
    BY <1>2, <1>5, <1>6, <1>7, <2>1, <2>2, <2>3, Zenon DEF Adds
<1> QED
  BY <1>11, AddsKeeps

\* A message of role tool that is output o, of result e.
IsNative(m, e, o) ==
  /\ m \in StubMessages /\ m.role = "tool" /\ m.isToolResult = TRUE /\ m.ids = {e}
  /\ m.text.stub = FALSE /\ m.text.plain = TRUE /\ m.text.outs[1] = o

\* Messages that are the outputs one by one keep the invariant.
LEMMA NativeKeeps ==
  ASSUME StubsInv, Replied, native = TRUE, NEW outs \in Seq(Nat), Recorded(outs),
         NEW each \in Seq(StubMessages), Len(each) = Len(outs),
         \A k \in 1 .. Len(outs) : IsNative(each[k], Len(resultEvents) + k, outs[k]),
         NEW ext, ext = <<Said("assistant")>> \o each, messages' = messages \o ext
  PROVE  StubsInv'
<1> DEFINE rs == Events(outs)
           L == Len(resultEvents)
<1>1. turn \in Nat /\ L \in Nat
  BY StubsAssumption DEF StubsInv, StubsTyped
<1>2. /\ rs \in Seq(StubResults) /\ Len(rs) = Len(outs) /\ Len(outs) \in Nat
      /\ \A k \in 1 .. Len(outs) : rs[k].turn = turn /\ rs[k].output = outs[k]
  BY <1>1, EventsAre
<1>3. resultEvents' = resultEvents \o rs
  BY DEF Recorded, Events
<1> HIDE DEF rs
<1>4. \A k \in 1 .. Len(outs) : IsNative(each[k], L + k, outs[k])
  OBVIOUS
<1>5. each \in Seq(StubMessages) /\ Len(each) = Len(outs)
  OBVIOUS
<1>6. /\ ext \in Seq(StubMessages) /\ Len(ext) = Len(outs) + 1
      /\ ext[1] = Said("assistant") /\ \A k \in 1 .. Len(outs) : ext[k + 1] = each[k]
  <2>1. /\ ext \in Seq(StubMessages) /\ Len(ext) = Len(each) + 1 /\ Len(each) \in Nat
        /\ ext[1] = Said("assistant") /\ \A j \in 1 .. Len(each) : ext[j + 1] = each[j]
    BY AfterReply, Zenon
  <2> HIDE DEF L
  <2> QED
    BY <1>5, <2>1, Zenon
<1>7. /\ Said("assistant").isToolResult = FALSE /\ Said("assistant").text.stub = FALSE
      /\ Said("assistant").ids = {}
  BY SaidIs DEF StubRoles
<1>8. ASSUME NEW j \in 1 .. Len(ext), j # 1
      PROVE  \E k \in 1 .. Len(outs) : j = k + 1 /\ ext[j] = each[k]
  <2>1. j - 1 \in 1 .. Len(outs) /\ j = (j - 1) + 1
    BY <1>2, <1>6, <1>8
  <2>2. ext[(j - 1) + 1] = each[j - 1]
    BY <1>6, <2>1
  <2> QED
    BY <2>1, <2>2
<1>9. ASSUME NEW j \in 1 .. Len(ext), j # 1
      PROVE  /\ ext[j].role = "tool" /\ ext[j].text.stub = FALSE /\ ext[j].ids = {L + j - 1}
             /\ OneNew(ext, rs, j) /\ ext[j].ids \subseteq NextIds(Len(rs))
  <2>1. PICK k \in 1 .. Len(outs) : j = k + 1 /\ ext[j] = each[k]
    BY <1>8, <1>9
  <2>2. /\ ext[j].role = "tool" /\ ext[j].text.stub = FALSE /\ ext[j].ids = {L + k}
        /\ ext[j].text.plain = TRUE /\ ext[j].text.outs[1] = rs[k].output
    <3>1. IsNative(ext[j], L + k, outs[k]) /\ rs[k].output = outs[k]
      BY <1>2, <1>4, <2>1
    <3> QED
      BY <3>1 DEF IsNative
  <2>3. L + k = L + j - 1 /\ L + k \in L + 1 .. L + Len(rs)
    BY <1>1, <1>2, <2>1
  <2>4. ASSUME NEW d \in 1 .. k - 1
        PROVE  \E h \in 1 .. j - 1 : ext[h].isToolResult = TRUE /\ ext[h].role = "tool" /\ L + d \in ext[h].ids
    <3>1. d \in 1 .. Len(outs) /\ d + 1 \in 1 .. j - 1
      BY <1>2, <2>1
    <3>2. ext[d + 1] = each[d]
      BY <1>6, <3>1
    <3>3. ext[d + 1].isToolResult = TRUE /\ ext[d + 1].role = "tool" /\ ext[d + 1].ids = {L + d}
      <4>1. IsNative(ext[d + 1], L + d, outs[d])
        BY <1>4, <3>1, <3>2
      <4> QED
        BY <4>1 DEF IsNative
    <3> QED
      BY <3>1, <3>3
  <2>5. OneNew(ext, rs, j)
    BY <1>2, <2>2, <2>4 DEF OneNew
  <2> QED
    BY <2>2, <2>3, <2>5 DEF NextIds
<1>10. \A i, j \in 1 .. Len(ext) :
         ext[i].isToolResult = TRUE /\ ext[j].isToolResult = TRUE /\ i # j => ext[i].ids \cap ext[j].ids = {}
  <2> SUFFICES ASSUME NEW i \in 1 .. Len(ext), NEW j \in 1 .. Len(ext),
                      ext[i].isToolResult = TRUE, ext[j].isToolResult = TRUE, i # j
               PROVE  ext[i].ids \cap ext[j].ids = {}
    OBVIOUS
  <2>1. i # 1 /\ j # 1
    BY <1>6, <1>7
  <2>2. ext[i].ids = {L + i - 1} /\ ext[j].ids = {L + j - 1}
    BY <1>9, <2>1
  <2>3. L + i - 1 # L + j - 1
    BY <1>1
  <2> QED
    BY <2>2, <2>3
<1>11. Adds(ext, rs)
  <2>1. ASSUME NEW j \in 1 .. Len(ext)
        PROVE  /\ j # 1 => ext[j].role # "assistant"
               /\ ext[j].text.stub = FALSE /\ ext[j].ids \subseteq NextIds(Len(rs))
               /\ ext[j].isToolResult = TRUE /\ ext[j].role = "tool" => OneNew(ext, rs, j)
               /\ ext[j].isToolResult = TRUE /\ ext[j].role # "tool" => AllNew(ext, rs, j)
    <3>1. CASE j = 1
      <4>1. ext[j].isToolResult = FALSE /\ ext[j].text.stub = FALSE /\ ext[j].ids = {}
        BY <1>6, <1>7, <3>1
      <4> QED
        BY <3>1, <4>1
    <3>2. CASE j # 1
      <4>1. /\ ext[j].role = "tool" /\ ext[j].text.stub = FALSE
            /\ OneNew(ext, rs, j) /\ ext[j].ids \subseteq NextIds(Len(rs))
        BY <1>9, <3>2
      <4> QED
        BY <4>1
    <3> QED
      BY <3>1, <3>2
  <2>2. Len(ext) >= 1
    BY <1>2, <1>6
  <2> QED
    BY <1>2, <1>3, <1>6, <1>10, <2>1, <2>2 DEF Adds
<1> QED
  BY <1>11, AddsKeeps


\* One message for each output, in order.
LEMMA EachKeeps ==
  ASSUME StubsInv, Replied, native = TRUE, NEW outs \in Seq(Nat), Recorded(outs),
         NEW each, each = [k \in DOMAIN outs |->
                             Resulting("tool", OneText(outs[k]), {Len(resultEvents) + k})],
         NEW ext, ext = <<Said("assistant")>> \o each, messages' = messages \o ext
  PROVE  StubsInv'
<1> DEFINE L == Len(resultEvents)
<1>1. turn \in Nat /\ L \in Nat
  BY StubsAssumption DEF StubsInv, StubsTyped
<1>2. Len(outs) \in Nat
  OBVIOUS
<1>4. ASSUME NEW k \in 1 .. Len(outs)
      PROVE  /\ each[k] \in StubMessages /\ each[k].role = "tool" /\ each[k].isToolResult = TRUE
             /\ each[k].ids = {L + k} /\ each[k].text.stub = FALSE /\ each[k].text.plain = TRUE
             /\ each[k].text.outs[1] = outs[k]
  <2> DEFINE m == each[k]
             o == outs[k]
             ids == {L + k}
             text == OneText(o)
             role == "tool"
  <2>1. o \in Nat /\ ids \in SUBSET Nat /\ role \in StubRoles /\ role = "tool"
    BY <1>1 DEF StubRoles
  <2>2. m = Resulting(role, text, ids)
    OBVIOUS
  <2>3. IsOne(text, o)
    <3> HIDE DEF o
    <3>1. <<>> \in Seq(Nat)
      OBVIOUS
    <3> QED
      BY <2>1, <3>1, TextsAre
  <2> HIDE DEF m, o, ids, text, role
  <2>4. text \in StubTexts /\ text.stub = FALSE /\ text.plain = TRUE /\ text.outs[1] = o
    BY <2>3 DEF IsOne, Unstubbed
  <2>5. IsResult(m, role, text, ids)
    BY <2>1, <2>2, <2>4, MessagesAre
  <2>6. m \in StubMessages /\ m.role = role /\ m.isToolResult = TRUE /\ m.ids = ids /\ m.text = text
    BY <2>5 DEF IsResult
  <2> QED
    BY <2>1, <2>4, <2>6 DEF m, o, ids
<1>5. each \in Seq(StubMessages) /\ Len(each) = Len(outs)
  <2>1. DOMAIN each = 1 .. Len(outs) /\ each = [k \in 1 .. Len(outs) |-> each[k]]
    OBVIOUS
  <2>2. each \in [1 .. Len(outs) -> StubMessages]
    <3>1. \A k \in 1 .. Len(outs) : each[k] \in StubMessages
      BY <1>4
    <3> DEFINE s == each
    <3>2. s = [k \in 1 .. Len(outs) |-> s[k]] /\ \A k \in 1 .. Len(outs) : s[k] \in StubMessages
      BY <2>1, <3>1
    <3> HIDE DEF s
    <3>3. s \in [1 .. Len(outs) -> StubMessages]
      BY <3>2
    <3> QED
      BY <3>3 DEF s
  <2> QED
    BY <1>2, <2>2, SequenceIs
<1>6. \A k \in 1 .. Len(outs) : IsNative(each[k], L + k, outs[k])
  BY <1>4 DEF IsNative
<1> DEFINE s == each
<1>7. s \in Seq(StubMessages) /\ Len(s) = Len(outs) /\ ext = <<Said("assistant")>> \o s
  BY <1>5
<1>8. \A k \in 1 .. Len(outs) : IsNative(s[k], Len(resultEvents) + k, outs[k])
  BY <1>6
<1> HIDE DEF s
<1> QED
  BY <1>7, <1>8, NativeKeeps

------------------------------------------------------------------------------
\* Joining is associative.
LEMMA JoinedTwice ==
  ASSUME NEW S, NEW s \in Seq(S), NEW t \in Seq(S), NEW u \in Seq(S)
  PROVE  (s \o t) \o u = s \o (t \o u)
OBVIOUS

\* Two messages are one joined to another.
LEMMA Pair ==
  ASSUME NEW S, NEW x \in S, NEW y \in S
  PROVE  <<x, y>> = <<x>> \o <<y>>
<1> DEFINE a == <<x, y>>
           u == <<x>>
           v == <<y>>
           b == u \o v
<1>1. u \in Seq(S) /\ v \in Seq(S) /\ Len(u) = 1 /\ Len(v) = 1 /\ u[1] = x /\ v[1] = y
  BY OneIs
<1>2. a \in Seq(S) /\ Len(a) = 2 /\ a[1] = x /\ a[2] = y
  OBVIOUS
<1> HIDE DEF a, u, v
<1>3. b \in Seq(S) /\ Joins(u, v, b)
  BY <1>1, Joined
<1> HIDE DEF b
<1>6. Len(b) = 2 /\ b[1] = x /\ b[2] = y
  <2>1. Len(b) = 2 /\ 1 \in 1 .. Len(u) /\ 1 \in 1 .. Len(v) /\ Len(u) + 1 = 2
    BY <1>1, <1>3 DEF Joins
  <2>2. b[1] = u[1] /\ b[Len(u) + 1] = v[1]
    BY <1>3, <2>1 DEF Joins
  <2> QED
    BY <1>1, <2>1, <2>2
<1>4. \A i \in 1 .. 2 : i = 1 \/ i = 2
  OBVIOUS
<1>5. a = b
  <2>1. a = [i \in 1 .. 2 |-> a[i]] /\ b = [i \in 1 .. 2 |-> b[i]]
    BY <1>2, <1>3, <1>6
  <2>2. \A i \in 1 .. 2 : a[i] = b[i]
    BY <1>2, <1>6, <1>4
  <2> QED
    BY <2>1, <2>2
<1> QED
  BY <1>5 DEF a, b, u, v

\* Calls keep the invariant, native or prompted (run.ts:331-347).
LEMMA CallsKeep ==
  ASSUME StubsInv, NEW outs \in Seq(Nat), Calls(outs)
  PROVE  StubsInv'
<1> DEFINE each == [k \in DOMAIN outs |-> Resulting("tool", OneText(outs[k]), {Len(resultEvents) + k})]
           m    == Resulting("user", AllText(total(outs) + Len(outs), outs), NextIds(Len(outs)))
           s    == Said("assistant")
<1>1. Replied /\ Recorded(outs) /\ native \in BOOLEAN /\ messages \in Seq(StubMessages)
      /\ Len(resultEvents) \in Nat /\ Len(outs) \in Nat
  BY DEF Calls, StubsInv, StubsTyped
<1>2. messages' = messages \o <<s>> \o (IF native THEN each ELSE <<m>>)
  BY DEF Calls, Resulting, OneText, AllText
<1>3. total(outs) + Len(outs) \in Nat
  <2>1. PICK F \in [0 .. Len(outs) -> Nat] : total(outs) = F[Len(outs)]
    BY TotalIs
  <2>2. Len(outs) \in 0 .. Len(outs)
    BY <1>1
  <2>3. F[Len(outs)] \in Nat
    BY <2>2
  <2> QED
    BY <1>1, <2>1, <2>3
<1>4. s \in StubMessages
  BY SaidIs DEF StubRoles
<1>5. <<s>> \in Seq(StubMessages)
  BY <1>4, OneIs
<1>6. CASE native = TRUE
  <2>1. each \in Seq(StubMessages)
    <3>1. ASSUME NEW k \in 1 .. Len(outs) PROVE each[k] \in StubMessages
      <4> DEFINE o == outs[k]
                 text == OneText(o)
                 ids == {Len(resultEvents) + k}
                 role == "tool"
      <4>1. o \in Nat /\ ids \in SUBSET Nat /\ role \in StubRoles /\ each[k] = Resulting(role, text, ids)
        BY <1>1 DEF StubRoles
      <4> HIDE DEF each, o, ids, role
      <4>2. IsOne(text, o)
        <5>1. <<>> \in Seq(Nat)
          OBVIOUS
        <5> QED
          BY <4>1, <5>1, TextsAre
      <4>3. text \in StubTexts
        BY <4>2 DEF IsOne, Unstubbed
      <4> HIDE DEF text
      <4>4. IsResult(each[k], role, text, ids)
        BY <4>1, <4>3, MessagesAre
      <4> QED
        BY <4>4 DEF IsResult
    <3>2. each = [k \in 1 .. Len(outs) |-> each[k]]
      BY <1>1
    <3> HIDE DEF each
    <3>3. each \in [1 .. Len(outs) -> StubMessages]
      BY <3>1, <3>2
    <3> QED
      BY <1>1, <3>3, SequenceIs
  <2>2. messages' = messages \o (<<s>> \o each)
    <3> HIDE DEF each, m, s
    <3>1. messages' = (messages \o <<s>>) \o each
      BY <1>2, <1>6
    <3> QED
      BY <1>1, <1>5, <2>1, <3>1, JoinedTwice
  <2> QED
    BY <1>1, <1>6, <2>2, EachKeeps
<1>7. CASE native = FALSE
  <2>1. m \in StubMessages
    <3> DEFINE text == AllText(total(outs) + Len(outs), outs)
               ids == NextIds(Len(outs))
               role == "user"
    <3>1. IsAll(text, outs)
      BY <1>3, TextsAre
    <3>2. ids \in SUBSET Nat /\ role \in StubRoles /\ m = Resulting(role, text, ids)
      BY <1>1 DEF NextIds, StubRoles
    <3> HIDE DEF text, ids, role, m
    <3>3. text \in StubTexts
      BY <3>1 DEF IsAll, Unstubbed
    <3>4. IsResult(m, role, text, ids)
      BY <3>2, <3>3, MessagesAre
    <3> QED
      BY <3>4 DEF IsResult
  <2>2. <<m>> \in Seq(StubMessages)
    BY <2>1, OneIs
  <2>3. messages' = messages \o (<<s>> \o <<m>>)
    <3> HIDE DEF each, m, s
    <3>1. messages' = (messages \o <<s>>) \o <<m>>
      BY <1>2, <1>7
    <3> QED
      BY <1>1, <1>5, <2>2, <3>1, JoinedTwice
  <2> QED
    BY <1>1, <1>3, <2>3, WrappedKeeps
<1> QED
  BY <1>1, <1>6, <1>7

\* An until check that failed keeps it (run.ts:262-270).
LEMMA CheckKeeps ==
  ASSUME StubsInv, NEW out \in Nat, Check(out)
  PROVE  StubsInv'
<1> DEFINE outs == <<out>>
           m == Resulting("user", AllText(out + 2, outs), NextIds(Len(outs)))
           s == Said("assistant")
<1>1. Replied /\ Recorded(outs) /\ outs \in Seq(Nat) /\ Len(outs) = 1 /\ out + 2 \in Nat
      /\ Len(resultEvents) \in Nat
  BY DEF Check, StubsInv, StubsTyped
<1>2. messages' = messages \o <<s, m>>
  BY <1>1 DEF Check, Resulting, AllText
<1>3. s \in StubMessages
  BY SaidIs DEF StubRoles
<1>4. m \in StubMessages
  <2> DEFINE text == AllText(out + 2, outs)
             ids == NextIds(Len(outs))
             role == "user"
  <2>1. IsAll(text, outs)
    <3> HIDE DEF outs
    <3> QED
      BY <1>1, TextsAre
  <2>2. ids \in SUBSET Nat /\ role \in StubRoles /\ m = Resulting(role, text, ids)
    BY <1>1 DEF NextIds, StubRoles
  <2> HIDE DEF text, ids, role, m
  <2>3. text \in StubTexts
    BY <2>1 DEF IsAll, Unstubbed
  <2>4. IsResult(m, role, text, ids)
    BY <2>2, <2>3, MessagesAre
  <2> QED
    BY <2>4 DEF IsResult
<1>5. <<s, m>> = <<s>> \o <<m>>
  <2> HIDE DEF s, m
  <2> QED
    BY <1>3, <1>4, Pair
<1>6. messages' = messages \o (<<s>> \o <<m>>)
  BY <1>2, <1>5
<1> HIDE DEF outs
<1> QED
  BY <1>1, <1>6, WrappedKeeps

\* A hint keeps it (run.ts:229-238).
LEMMA HintKeeps ==
  ASSUME StubsInv, Hint
  PROVE  StubsInv'
<1> DEFINE s == Said("assistant")
           u == Said("user")
           ext == <<s>> \o <<u>>
           rs == <<>>
<1>1. /\ s \in StubMessages /\ u \in StubMessages
      /\ s.isToolResult = FALSE /\ s.text.stub = FALSE /\ s.ids = {}
      /\ u.isToolResult = FALSE /\ u.text.stub = FALSE /\ u.ids = {} /\ u.role = "user"
  BY SaidIs DEF StubRoles
<1>2. messages' = messages \o ext
  <2>1. <<s, u>> = ext
    <3> HIDE DEF s, u
    <3> QED
      BY <1>1, Pair
  <2>2. messages' = messages \o <<s, u>>
    BY DEF Hint
  <2> QED
    BY <2>1, <2>2
<1>3. /\ ext \in Seq(StubMessages) /\ Len(ext) = 2 /\ ext[1] = s /\ ext[2] = u
  <2> DEFINE t == <<u>>
  <2>1. t \in Seq(StubMessages) /\ Len(t) = 1 /\ t[1] = u /\ 1 \in 1 .. Len(t)
    <3> HIDE DEF u
    <3> QED
      BY <1>1, OneIs
  <2>2. ext = <<Said("assistant")>> \o t
    OBVIOUS
  <2> HIDE DEF ext, t, u
  <2>3. /\ ext \in Seq(StubMessages) /\ Len(ext) = Len(t) + 1 /\ ext[1] = Said("assistant")
        /\ \A j \in 1 .. Len(t) : ext[j + 1] = t[j]
    BY <2>1, <2>2, AfterReply
  <2>4. ext[2] = t[1]
    <3>1. ext[1 + 1] = t[1]
      BY <2>1, <2>3, Zenon
    <3> QED
      BY <3>1
  <2> QED
    BY <2>1, <2>3, <2>4
<1>4. rs \in Seq(StubResults) /\ Len(rs) = 0 /\ resultEvents' = resultEvents \o rs
  <2>1. resultEvents \in Seq(StubResults) /\ resultEvents' = resultEvents
    BY DEF Hint, StubsInv, StubsTyped
  <2>2. resultEvents \o <<>> = resultEvents
    BY <2>1
  <2> QED
    BY <2>1, <2>2
<1>5. Replied
  BY DEF Hint
<1> HIDE DEF ext, rs, s, u
<1>6. \A j \in 1 .. Len(ext) : (j = 1 \/ j = 2) /\ ext[j].isToolResult = FALSE /\ ext[j].text.stub = FALSE
                               /\ ext[j].ids = {} /\ (j # 1 => ext[j].role # "assistant")
  <2>1. \A j \in 1 .. Len(ext) : j = 1 \/ j = 2
    BY <1>3
  <2> QED
    BY <1>1, <1>3, <2>1
<1>7. Adds(ext, rs)
  <2>1. \A k \in 1 .. Len(rs) : rs[k].turn = turn
    BY <1>4
  <2>2. Len(ext) >= 1 /\ ext[1] = Said("assistant")
    BY <1>3 DEF s
  <2> QED
    BY <1>2, <1>3, <1>4, <1>6, <2>1, <2>2 DEF Adds
<1> QED
  BY <1>5, <1>7, AddsKeeps

\* A fresh context keeps it: the history starts over, and what it held is credited to
\* nobody any more (run.ts:340-346).
LEMMA FreshKeeps ==
  ASSUME StubsInv, NEW out \in Nat, FreshHistory(out)
  PROVE  StubsInv'
<1> DEFINE L == Len(resultEvents)
           outs == <<out>>
           rs == Events(outs)
<1>1. Replied /\ messages' = Opening /\ resultEvents' = resultEvents \o rs
  BY DEF FreshHistory, Recorded, Events
<1>2. /\ turn \in Nat /\ turn < MaxTurns /\ now'.sent = FALSE /\ now' \in Nows /\ now'.stubbed = now.stubbed
      /\ now'.told = now.told /\ native' = native /\ budget' = budget /\ turn' = turn /\ reader' = reader
      /\ \A e \in 1 .. L : resultEvents[e].turn < turn
  <2>1. turn \in Nat
    BY StubsAssumption DEF StubsInv, StubsTyped
  <2> QED
    BY <1>1, <2>1, RepliedIs
<1>3. outs \in Seq(Nat) /\ Len(outs) = 1
  OBVIOUS
<1>4. rs \in Seq(StubResults) /\ \A k \in 1 .. Len(rs) : rs[k].turn = turn
  <2> HIDE DEF outs
  <2> QED
    BY <1>2, <1>3, EventsAre
<1> HIDE DEF rs
<1>5. resultEvents' \in Seq(StubResults) /\ Joins(resultEvents, rs, resultEvents')
  <2>1. resultEvents \in Seq(StubResults)
    BY DEF StubsInv, StubsTyped
  <2> QED
    BY <1>1, <1>4, <2>1, Joined
<1> DEFINE s == Said("system")
           u == Said("user")
<1>6. /\ s \in StubMessages /\ u \in StubMessages
      /\ s.isToolResult = FALSE /\ s.text.stub = FALSE /\ s.ids = {} /\ s.role = "system"
      /\ u.isToolResult = FALSE /\ u.text.stub = FALSE /\ u.ids = {} /\ u.role = "user"
  BY SaidIs DEF StubRoles
<1> DEFINE mm == messages'
<1>7. mm = <<s, u>>
  BY <1>1 DEF Opening
<1> HIDE DEF mm, s, u
<1>8. /\ mm \in Seq(StubMessages) /\ Len(mm) = 2 /\ mm[1] = s /\ mm[2] = u
      /\ \A i \in 1 .. Len(mm) : i = 1 \/ i = 2
  BY <1>6, <1>7
<1>9. /\ \A i \in 1 .. Len(mm) : mm[i].isToolResult = FALSE /\ mm[i].text.stub = FALSE
                                 /\ mm[i].ids = {} /\ mm[i].role # "assistant"
  BY <1>6, <1>8
<1>10. LastAssistant(mm) = 0
  <2>1. /\ LastAssistant(mm) \in 0 .. Len(mm)
        /\ (LastAssistant(mm) > 0 => mm[LastAssistant(mm)].role = "assistant")
    BY <1>8, LastAssistantIs
  <2> QED
    BY <1>8, <1>9, <2>1
<1>11. StubsTyped'
  <2>1. StubsTyped
    BY DEF StubsInv
  <2>2. 1 .. L \subseteq 1 .. Len(resultEvents')
    BY <1>5 DEF Joins
  <2>3. ASSUME NEW e \in 1 .. Len(resultEvents') PROVE resultEvents'[e].turn <= turn'
    <3>1. CASE e \in 1 .. L
      <4>1. resultEvents'[e] = resultEvents[e] /\ resultEvents[e].turn <= turn
        BY <1>5, <2>1, <3>1 DEF Joins, StubsTyped
      <4> QED
        BY <1>2, <4>1
    <3>2. CASE e \notin 1 .. L
      <4>1. PICK k \in 1 .. Len(rs) : e = L + k
        BY <1>5, <3>2 DEF Joins
      <4>2. resultEvents'[e].turn = turn
        BY <1>4, <1>5, <4>1 DEF Joins
      <4> QED
        BY <1>2, <4>2
    <3> QED
      BY <3>1, <3>2
  <2>4. reader'.credited \subseteq 1 .. Len(resultEvents')
    BY <1>2, <2>1, <2>2 DEF StubsTyped
  <2>5. \A i \in 1 .. Len(messages') : messages'[i].ids \subseteq 1 .. Len(resultEvents')
    BY <1>9 DEF mm
  <2>6. \A k \in 1 .. Len(now'.stubbed) : now'.stubbed[k].ids \subseteq 1 .. Len(resultEvents')
    <3>1. \A k \in 1 .. Len(now.stubbed) : now.stubbed[k].ids \subseteq 1 .. L
      BY <2>1 DEF StubsTyped
    <3> QED
      BY <1>2, <2>2, <3>1
  <2>7. /\ native' \in BOOLEAN /\ budget' \in Nat /\ turn' \in 0 .. MaxTurns /\ turn' < MaxTurns
        /\ reader'.prev \in Seq(StubTexts) /\ DOMAIN reader'.firstSeen = 1 .. Len(reader'.prev)
        /\ \A i \in 1 .. Len(reader'.prev) : reader'.firstSeen[i] \in 1 .. turn'
    BY <1>2, <2>1 DEF StubsTyped
  <2>8. messages' \in Seq(StubMessages)
    BY <1>8 DEF mm
  <2> QED
    BY <1>2, <1>5, <2>3, <2>4, <2>5, <2>6, <2>7, <2>8 DEF StubsTyped
<1>12. HistoryRead'
  <2>1. HistoryRead
    BY DEF StubsInv
  <2>2. Len(messages) >= 2 /\ Len(messages) \in Nat /\ messages[1] = s /\ messages[2] = u
        /\ reader.prev \in Seq(StubTexts)
    BY <2>1 DEF HistoryRead, StubsInv, StubsTyped, s, u
  <2>3. ASSUME NEW i \in 1 .. Len(mm), i <= Len(reader.prev) PROVE reader.prev[i] = mm[i].text
    <3>1. (i = 1 \/ i = 2) /\ i \in 1 .. Len(messages)
      BY <1>8, <2>2
    <3>2. messages[i] = mm[i]
      BY <1>8, <2>2, <3>1
    <3> QED
      BY <2>1, <2>3, <3>1, <3>2 DEF HistoryRead
  <2>4. \A i \in 1 .. Len(mm) : /\ i < LastAssistant(mm) => i <= Len(reader'.prev)
                                /\ i > LastAssistant(mm) => mm[i].text.stub = FALSE
                                /\ mm[i].role = "assistant" => mm[i].isToolResult = FALSE
    <3>1. \A i \in 1 .. Len(mm) : ~(i < LastAssistant(mm))
      BY <1>8, <1>10
    <3> QED
      BY <1>9, <3>1
  <2> QED
    BY <1>2, <1>8, <2>3, <2>4 DEF HistoryRead, mm, s, u
<1>13. ResultsCarried'
  <2>1. \A i \in 1 .. Len(mm) : ~Whole(mm, i)
    BY <1>9 DEF Whole
  <2> QED
    BY <2>1 DEF ResultsCarried, mm
<1>14. Rebuilt' /\ BudgetKept'
  <2>1. \A e \in 1 .. L : resultEvents'[e] = resultEvents[e]
    BY <1>5 DEF Joins
  <2> QED
    BY <1>2, <2>1, RebuiltStands
<1> QED
  BY <1>11, <1>12, <1>13, <1>14 DEF StubsInv

\* It holds of a run that has sent nothing.
LEMMA InvInit == StubsInit => StubsInv
<1> SUFFICES ASSUME StubsInit PROVE StubsInv
  OBVIOUS
<1> DEFINE s == Said("system")
           u == Said("user")
<1>1. /\ s \in StubMessages /\ u \in StubMessages
      /\ s.isToolResult = FALSE /\ s.text.stub = FALSE /\ s.ids = {} /\ s.role = "system"
      /\ u.isToolResult = FALSE /\ u.text.stub = FALSE /\ u.ids = {} /\ u.role = "user"
  BY SaidIs DEF StubRoles
<1>2. messages = <<s, u>>
  BY DEF StubsInit, Opening
<1> HIDE DEF s, u
<1>3. /\ messages \in Seq(StubMessages) /\ Len(messages) = 2 /\ messages[1] = s /\ messages[2] = u
      /\ \A i \in 1 .. Len(messages) : i = 1 \/ i = 2
  BY <1>1, <1>2
<1>4. \A i \in 1 .. Len(messages) :
        /\ messages[i].isToolResult = FALSE /\ messages[i].text.stub = FALSE
        /\ messages[i].ids = {} /\ messages[i].role # "assistant"
  BY <1>1, <1>3
<1>5. LastAssistant(messages) = 0
  <2>1. /\ LastAssistant(messages) \in 0 .. Len(messages)
        /\ (LastAssistant(messages) > 0 => messages[LastAssistant(messages)].role = "assistant")
    BY <1>3, LastAssistantIs
  <2> QED
    BY <1>3, <1>4, <2>1
<1> DEFINE none == <<>>
           f == FALSE
           z == 0
<1>6. none \in Seq(StubMessages) /\ none \in Seq(StubsTold) /\ none \in Seq(StubTexts) /\ none \in Seq(StubResults)
      /\ Len(none) = 0 /\ DOMAIN none = {} /\ f \in BOOLEAN /\ f = FALSE /\ z \in Nat /\ z = 0 /\ none = <<>>
  OBVIOUS
<1>7. /\ now = [stubbed |-> none, told |-> none, before |-> z, after |-> z, sent |-> f]
      /\ reader = [prev |-> none, firstSeen |-> none, credited |-> {}]
      /\ resultEvents = none /\ turn = 0 /\ native \in BOOLEAN /\ budget \in Nat
  BY StubsAssumption DEF StubsInit
<1> HIDE DEF none, f, z
<1>8. now \in Nows /\ now.sent = FALSE /\ now.stubbed = none /\ now.told = none
  BY <1>6, <1>7 DEF Nows
<1>9. reader.prev = none /\ reader.firstSeen = none /\ reader.credited = {}
  BY <1>7
<1>10. StubsTyped
  <2>1. turn \in 0 .. MaxTurns /\ turn < MaxTurns
    BY <1>7, StubsAssumption
  <2> QED
    BY <1>3, <1>4, <1>6, <1>7, <1>8, <1>9, <2>1 DEF StubsTyped
<1>11. HistoryRead
  BY <1>3, <1>4, <1>5, <1>6, <1>8, <1>9 DEF HistoryRead, s, u
<1>12. ResultsCarried
  BY <1>4 DEF ResultsCarried, Whole
<1>13. Rebuilt
  <2>1. now.told = <<>> /\ now.stubbed = <<>>
    BY <1>6, <1>8
  <2>2. [k \in DOMAIN <<>> |-> Owed(<<>>[k])] = <<>>
    OBVIOUS
  <2> QED
    BY <2>1, <2>2 DEF Rebuilt
<1>14. BudgetKept
  BY <1>8 DEF BudgetKept
<1> QED
  BY <1>10, <1>11, <1>12, <1>13, <1>14 DEF StubsInv

\* Every step keeps it.
LEMMA InvStep == StubsInv /\ [StubsNext]_stubsVars => StubsInv'
<1> SUFFICES ASSUME StubsInv, [StubsNext]_stubsVars PROVE StubsInv'
  OBVIOUS
<1>1. CASE Request
  BY <1>1, RequestKeeps
<1>2. CASE Hint
  BY <1>2, HintKeeps
<1>3. ASSUME NEW o \in Outputs, Check(o) PROVE StubsInv'
  BY <1>3, CheckKeeps, StubsAssumption
<1>4. ASSUME NEW o \in Outputs, FreshHistory(o) PROVE StubsInv'
  BY <1>4, FreshKeeps, StubsAssumption
<1>5. ASSUME NEW o \in Outputs, Calls(<<o>>) PROVE StubsInv'
  <2>1. o \in Nat
    BY StubsAssumption
  <2>2. <<o>> \in Seq(Nat)
    BY <2>1
  <2> QED
    BY <1>5, <2>2, CallsKeep
<1>6. ASSUME NEW o \in Outputs, NEW p \in Outputs, Calls(<<o, p>>) PROVE StubsInv'
  <2>1. o \in Nat /\ p \in Nat
    BY StubsAssumption
  <2>2. <<o, p>> \in Seq(Nat)
    BY <2>1
  <2> QED
    BY <1>6, <2>2, CallsKeep
<1>7. CASE UNCHANGED stubsVars
  <2>1. /\ native' = native /\ budget' = budget /\ messages' = messages /\ resultEvents' = resultEvents
        /\ turn' = turn /\ reader' = reader /\ now' = now
    BY <1>7 DEF stubsVars
  <2>2. StubsTyped' /\ HistoryRead' /\ ResultsCarried'
    BY <2>1 DEF StubsInv, StubsTyped, HistoryRead, ResultsCarried
  <2>3. \A m : Owed(m)' = Owed(m)
    BY <2>1 DEF Owed, Result
  <2>4. Rebuilt' /\ BudgetKept'
    BY <2>1, <2>3 DEF StubsInv, Rebuilt, BudgetKept
  <2> QED
    BY <2>2, <2>4 DEF StubsInv
<1> QED
  BY <1>1, <1>2, <1>3, <1>4, <1>5, <1>6, <1>7 DEF StubsNext

\* The inductive invariant holds in every state: of any outputs, budget and number of
\* turns, each result still whole carries results of the turn before it was first sent,
\* none of them credited, and no two carry the same (tokens.ts:14-33, run.ts:163, 268, 331-347).
THEOREM StubsInvariant == StubsSpec => []StubsInv
BY InvInit, InvStep, PTL DEF StubsSpec

\* In every state the reader of a trace has found the stubs of the last request, each tied
\* to the calls whose results it took away and to no others, and the budget has ended at
\* its mark or with every seen result a stub, touching nothing the model has not seen
\* (tokens.ts:14-33, analyze.ts:55-99, run.ts:163, 268, 331-347).
THEOREM StubsAreRebuilt == StubsSpec => []StubsRebuilt
<1>1. StubsInv => StubsRebuilt
  <2> SUFFICES ASSUME StubsInv PROVE StubsRebuilt
    OBVIOUS
  <2>1. StubsTypeOK
    BY DEF StubsInv, StubsTyped, StubsTypeOK
  <2> QED
    BY <2>1 DEF StubsInv, StubsRebuilt
<1> QED
  BY <1>1, StubsInvariant, PTL
==============================================================================
