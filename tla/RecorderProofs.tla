---------------------------- MODULE RecorderProofs ----------------------------
(****************************************************************************)
(* What is proved of the recording proxy, for any clients and agents, any   *)
(* number of requests and calls and any length of the append chains: every  *)
(* transcript is sound, whatever was written of it so far.                  *)
(*                                                                          *)
(* TranscriptSound speaks of the files alone.  What makes it inductive is   *)
(* that a file and the appends of its chain that wait are together one      *)
(* transcript W that is right for the run (RunRight): numbered on to the    *)
(* run's seq, one request for each turn so far, an outcome for just the     *)
(* turns no live request waits for, a result for just the calls the run     *)
(* keeps as resulted, and a call for each of its last reply.  A run that    *)
(* lost an append (lossy) is outside TranscriptSound, and outside this.  A  *)
(* run is pending as long as it is not among the writers, and has no file   *)
(* and no turn until then.                                                  *)
(*                                                                          *)
(* A step of the proxy is a step of one run: the events it records fit the  *)
(* run before and after it (EventsFit), and W then grows by them.           *)
(****************************************************************************)
EXTENDS Recorder, PickProofs, FiniteSetTheorems, TLAPS

Types == {"note", "tool_result", "llm_request", "llm_response", "tool_call", "error", "done"}
Events == [turn : Nat, type : Types, call : Nat]
Lines == [seq : Nat, turn : Nat, type : Types \cup {"meta"}, call : Nat]

Outcomes == {"llm_response", "error"}

\* The calls of the last reply have ids of their own.
CallsFit(R) ==
  /\ \A i \in 1 .. Len(R.replied.calls) : R.replied.calls[i].id \in 1 .. R.callSeq
  /\ \A i, j \in 1 .. Len(R.replied.calls) : R.replied.calls[i].id = R.replied.calls[j].id => i = j

Lined(W) ==
  /\ Len(W) >= 1 /\ W[1] = MetaLine
  /\ \A i \in 2 .. Len(W) : W[i].type # "meta" /\ W[i].seq = i - 2
Ended(W, open) == \A i \in 1 .. Len(W) : W[i].type = "done" => i = Len(W) /\ ~open
Asked(W, turn) ==
  /\ \A i \in 1 .. Len(W) : W[i].type = "llm_request" => W[i].turn \in 1 .. turn
  /\ \A i, j \in 1 .. Len(W) :
       W[i].type = "llm_request" /\ W[j].type = "llm_request" /\ W[i].turn = W[j].turn => i = j
  /\ \A n \in 1 .. turn : \E i \in 1 .. Len(W) : W[i].type = "llm_request" /\ W[i].turn = n
Answered(W, T) ==
  /\ \A i \in 1 .. Len(W) : W[i].type \in Outcomes =>
       /\ W[i].turn \notin T
       /\ \E j \in 1 .. Len(W) : j < i /\ W[j].type = "llm_request" /\ W[j].turn = W[i].turn
  /\ \A i, j \in 1 .. Len(W) :
       W[i].type \in Outcomes /\ W[j].type \in Outcomes /\ W[i].turn = W[j].turn => i = j
Resulted(W, ids) ==
  /\ \A i \in 1 .. Len(W) : W[i].type = "tool_result" =>
       /\ W[i].call \in ids
       /\ \E j \in 1 .. Len(W) : j < i /\ W[j].type = "tool_call" /\ W[j].call = W[i].call
                                 /\ W[j].turn = W[i].turn
  /\ \A i, j \in 1 .. Len(W) :
       W[i].type = "tool_result" /\ W[j].type = "tool_result" /\ W[i].call = W[j].call => i = j
Called(W, replied) ==
  \A c \in 1 .. Len(replied.calls) : \E j \in 1 .. Len(W) :
    W[j].type = "tool_call" /\ W[j].call = replied.calls[c].id /\ W[j].turn = replied.turn

RunRight(R, W, T) ==
  /\ R.open => Len(W) = R.seq + 1
  /\ T \subseteq 1 .. R.turn
  /\ Lined(W) /\ Ended(W, R.open) /\ Asked(W, R.turn) /\ Answered(W, T) /\ Resulted(W, R.resulted)
  /\ Called(W, R.replied)


------------------------------------------------------------------------------
\* V is W and then the events es, numbered from seq on.
Grown(V, W, seq, es) ==
  /\ V \in Seq(Lines) /\ Len(V) = Len(W) + Len(es) /\ Len(W) \in Nat /\ Len(es) \in Nat
  /\ \A i \in 1 .. Len(W) : V[i] = W[i]
  /\ \A i \in 1 .. Len(es) :
       /\ V[Len(W) + i].seq = seq + i - 1 /\ V[Len(W) + i].type = es[i].type
       /\ V[Len(W) + i].turn = es[i].turn /\ V[Len(W) + i].call = es[i].call

\* The events es as lines: one line for each, numbered from the run's seq on.
LEMMA NumberedIs ==
  ASSUME NEW R, NEW es \in Seq(Events), R.seq \in Nat
  PROVE  /\ Numbered(R, es) \in Seq(Lines) /\ Len(Numbered(R, es)) = Len(es)
         /\ \A i \in 1 .. Len(es) :
              Numbered(R, es)[i] = [seq |-> R.seq + i - 1, turn |-> es[i].turn,
                                    type |-> es[i].type, call |-> es[i].call]
<1>1. DOMAIN es = 1 .. Len(es) /\ Len(es) \in Nat
  OBVIOUS
<1>2. ASSUME NEW i \in 1 .. Len(es)
      PROVE  [seq |-> R.seq + i - 1, turn |-> es[i].turn, type |-> es[i].type, call |-> es[i].call]
               \in Lines
  <2>1. es[i] \in Events
    OBVIOUS
  <2>2. es[i].turn \in Nat /\ es[i].type \in Types /\ es[i].call \in Nat
    BY <2>1 DEF Events
  <2>3. R.seq + i - 1 \in Nat
    BY <1>1
  <2> QED
    BY <2>2, <2>3 DEF Lines
<1>3. Numbered(R, es) \in [1 .. Len(es) -> Lines]
  BY <1>1, <1>2, Zenon DEF Numbered
<1>4. Numbered(R, es) \in Seq(Lines) /\ Len(Numbered(R, es)) = Len(es)
  BY <1>1, <1>3
<1>5. \A i \in 1 .. Len(es) :
              Numbered(R, es)[i] = [seq |-> R.seq + i - 1, turn |-> es[i].turn,
                                    type |-> es[i].type, call |-> es[i].call]
  BY <1>1, Zenon DEF Numbered
<1> QED
  BY <1>4, <1>5

\* Appended to W, they make it grow by es.
LEMMA GrownIs ==
  ASSUME NEW R, NEW es \in Seq(Events), R.seq \in Nat, NEW W \in Seq(Lines)
  PROVE  Grown(W \o Numbered(R, es), W, R.seq, es)
<1> DEFINE N == Numbered(R, es)
<1>1. N \in Seq(Lines) /\ Len(N) = Len(es)
  BY NumberedIs
<1>2. ASSUME NEW i \in 1 .. Len(es)
      PROVE  /\ N[i].seq = R.seq + i - 1 /\ N[i].type = es[i].type
             /\ N[i].turn = es[i].turn /\ N[i].call = es[i].call
  <2>1. N[i] = [seq |-> R.seq + i - 1, turn |-> es[i].turn, type |-> es[i].type, call |-> es[i].call]
    BY NumberedIs
  <2> HIDE DEF N
  <2> QED
    BY <2>1
<1> HIDE DEF N
<1> DEFINE V == W \o N
<1>3. /\ V \in Seq(Lines) /\ Len(V) = Len(W) + Len(N)
      /\ \A i \in 1 .. Len(W) : V[i] = W[i]
      /\ \A i \in 1 .. Len(N) : V[Len(W) + i] = N[i]
  <2> HIDE DEF N
  <2> QED
    BY <1>1
<1>4. Len(W) \in Nat /\ Len(es) \in Nat
  OBVIOUS
<1> HIDE DEF V
<1>5. \A i \in 1 .. Len(es) :
       /\ V[Len(W) + i].seq = R.seq + i - 1 /\ V[Len(W) + i].type = es[i].type
       /\ V[Len(W) + i].turn = es[i].turn /\ V[Len(W) + i].call = es[i].call
  BY <1>1, <1>2, <1>3
<1>6. Grown(V, W, R.seq, es)
  BY <1>1, <1>3, <1>4, <1>5 DEF Grown
<1> QED
  BY <1>6 DEF N, V

\* A line of the grown transcript is one of W, or one of the events.
LEMMA Place ==
  ASSUME NEW V, NEW W, NEW seq, NEW es, Grown(V, W, seq, es), NEW k \in 1 .. Len(V)
  PROVE  \/ k \in 1 .. Len(W) /\ V[k] = W[k]
         \/ \E i \in 1 .. Len(es) : /\ k = Len(W) + i /\ V[k].type = es[i].type
                                    /\ V[k].turn = es[i].turn /\ V[k].call = es[i].call
                                    /\ V[k].seq = seq + i - 1
<1>1. CASE k <= Len(W)
  BY <1>1 DEF Grown
<1>2. CASE k > Len(W)
  <2>1. k - Len(W) \in 1 .. Len(es) /\ k = Len(W) + (k - Len(W))
    BY <1>2 DEF Grown
  <2> QED
    BY <2>1 DEF Grown
<1> QED
  BY <1>1, <1>2 DEF Grown

------------------------------------------------------------------------------
\* What the events a run records may be: R is the run before them, R2 after, and
\* T and T2 the turns that wait for their outcome.
DoneFits(es, open) == \A i \in 1 .. Len(es) : es[i].type = "done" => i = Len(es) /\ ~open
RequestsFit(es, turn, turn2) ==
  /\ \A i \in 1 .. Len(es) : es[i].type = "llm_request" => es[i].turn \in turn + 1 .. turn2
  /\ \A i, j \in 1 .. Len(es) :
       es[i].type = "llm_request" /\ es[j].type = "llm_request" /\ es[i].turn = es[j].turn => i = j
  /\ \A n \in turn + 1 .. turn2 : \E i \in 1 .. Len(es) : es[i].type = "llm_request" /\ es[i].turn = n
OutcomesFit(es, T, T2) ==
  /\ \A i \in 1 .. Len(es) : es[i].type \in Outcomes => es[i].turn \in T \ T2
  /\ \A i, j \in 1 .. Len(es) :
       es[i].type \in Outcomes /\ es[j].type \in Outcomes /\ es[i].turn = es[j].turn => i = j
ResultsFit(es, replied, ids, ids2) ==
  /\ \A i \in 1 .. Len(es) : es[i].type = "tool_result" =>
       /\ es[i].call \in ids2 \ ids /\ es[i].turn = replied.turn
       /\ \E c \in 1 .. Len(replied.calls) : replied.calls[c].id = es[i].call
  /\ \A i, j \in 1 .. Len(es) :
       es[i].type = "tool_result" /\ es[j].type = "tool_result" /\ es[i].call = es[j].call => i = j
CallsMade(es, replied, replied2) ==
  \/ replied2 = replied
  \/ \A c \in 1 .. Len(replied2.calls) : \E j \in 1 .. Len(es) :
       es[j].type = "tool_call" /\ es[j].call = replied2.calls[c].id /\ es[j].turn = replied2.turn

EventsFit(R, es, R2, T, T2) ==
  /\ R.turn \in Nat /\ R2.turn \in Nat /\ R.turn <= R2.turn /\ R.resulted \subseteq R2.resulted
  /\ R2.open => R2.seq = R.seq + Len(es)
  /\ T2 \subseteq T \cup (R.turn + 1 .. R2.turn)
  /\ DoneFits(es, R2.open) /\ RequestsFit(es, R.turn, R2.turn) /\ OutcomesFit(es, T, T2)
  /\ ResultsFit(es, R.replied, R.resulted, R2.resulted) /\ CallsMade(es, R.replied, R2.replied)

\* A transcript numbered from 0 after its meta line stays so when it grows.
LEMMA LinedMore ==
  ASSUME NEW V, NEW W \in Seq(Lines), NEW seq \in Nat, NEW es \in Seq(Events), Grown(V, W, seq, es),
         Lined(W), Len(W) = seq + 1
  PROVE  Lined(V)
<1>1. Len(V) >= 1 /\ V[1] = MetaLine
  BY DEF Grown, Lined
<1>2. ASSUME NEW k \in 2 .. Len(V) PROVE V[k].type # "meta" /\ V[k].seq = k - 2
  <2>1. k \in 1 .. Len(V) /\ k \in Nat
    BY DEF Grown
  <2>2. CASE k <= Len(W)
    BY <2>2, <1>2 DEF Lined, Grown
  <2>3. CASE k > Len(W)
    <3>1. PICK i \in 1 .. Len(es) : k = Len(W) + i /\ V[k].type = es[i].type /\ V[k].seq = seq + i - 1
      <4>1. k - Len(W) \in 1 .. Len(es) /\ k = Len(W) + (k - Len(W))
        BY <2>1, <2>3 DEF Grown
      <4> QED
        BY <4>1 DEF Grown
    <3>2. es[i] \in Events
      OBVIOUS
    <3>3. es[i].type # "meta"
      BY <3>2 DEF Events, Types
    <3>4. V[k].seq = k - 2
      BY <3>1
    <3> QED
      BY <3>1, <3>3, <3>4
  <2> QED
    BY <2>1, <2>2, <2>3
<1> QED
  BY <1>1, <1>2 DEF Lined

\* One that has no end yet gets one at most, as its last line, from a run that closed.
LEMMA EndedMore ==
  ASSUME NEW V, NEW W, NEW seq, NEW es, Grown(V, W, seq, es),
         NEW open, Ended(W, TRUE), DoneFits(es, open)
  PROVE  Ended(V, open)
<1> SUFFICES ASSUME NEW k \in 1 .. Len(V), V[k].type = "done" PROVE k = Len(V) /\ ~open
  BY DEF Ended
<1>1. CASE k <= Len(W)
  <2>1. k \in 1 .. Len(W) /\ V[k] = W[k]
    BY <1>1 DEF Grown
  <2> QED
    BY <2>1 DEF Ended
<1>2. CASE k > Len(W)
  <2>1. k - Len(W) \in 1 .. Len(es) /\ k = Len(W) + (k - Len(W))
    BY <1>2 DEF Grown
  <2>2. es[k - Len(W)].type = "done"
    BY <2>1 DEF Grown
  <2>3. k - Len(W) = Len(es) /\ ~open
    BY <2>1, <2>2 DEF DoneFits
  <2> QED
    BY <2>1, <2>3 DEF Grown
<1> QED
  BY <1>1, <1>2 DEF Grown

\* One with a request for each turn so far gets one for each turn that was added.
LEMMA AskedMore ==
  ASSUME NEW V, NEW W, NEW seq, NEW es, Grown(V, W, seq, es),
         NEW turn \in Nat, NEW turn2 \in Nat, turn <= turn2, Asked(W, turn), RequestsFit(es, turn, turn2)
  PROVE  Asked(V, turn2)
<1>1. ASSUME NEW k \in 1 .. Len(V), V[k].type = "llm_request"
      PROVE  \/ k \in 1 .. Len(W) /\ W[k].type = "llm_request" /\ V[k].turn = W[k].turn /\ V[k].turn \in 1 .. turn
             \/ \E i \in 1 .. Len(es) : /\ k = Len(W) + i /\ es[i].type = "llm_request"
                                        /\ V[k].turn = es[i].turn /\ V[k].turn \in turn + 1 .. turn2
  <2>1. CASE k \in 1 .. Len(W) /\ V[k] = W[k]
    BY <2>1, <1>1 DEF Asked
  <2>2. CASE \E i \in 1 .. Len(es) : k = Len(W) + i /\ V[k].type = es[i].type /\ V[k].turn = es[i].turn
    BY <2>2, <1>1 DEF RequestsFit
  <2> QED
    BY <2>1, <2>2, Place
<1>2. ASSUME NEW k \in 1 .. Len(V), V[k].type = "llm_request" PROVE V[k].turn \in 1 .. turn2
  BY <1>1, <1>2
<1>3. ASSUME NEW k \in 1 .. Len(V), NEW m \in 1 .. Len(V),
             V[k].type = "llm_request", V[m].type = "llm_request", V[k].turn = V[m].turn
      PROVE  k = m
  <2>1. CASE V[k].turn \in 1 .. turn
    <3>1. V[k].turn \notin turn + 1 .. turn2
      BY <2>1
    <3>2. k \in 1 .. Len(W) /\ W[k].type = "llm_request" /\ V[k].turn = W[k].turn
      BY <1>1, <1>3, <3>1
    <3>3. m \in 1 .. Len(W) /\ W[m].type = "llm_request" /\ V[m].turn = W[m].turn
      BY <1>1, <1>3, <3>1
    <3> QED
      BY <3>2, <3>3, <1>3 DEF Asked
  <2>2. CASE V[k].turn \in turn + 1 .. turn2
    <3>1. V[k].turn \notin 1 .. turn
      BY <2>2
    <3>2. PICK i \in 1 .. Len(es) : k = Len(W) + i /\ es[i].type = "llm_request" /\ V[k].turn = es[i].turn
      BY <1>1, <1>3, <3>1
    <3>3. PICK j \in 1 .. Len(es) : m = Len(W) + j /\ es[j].type = "llm_request" /\ V[m].turn = es[j].turn
      BY <1>1, <1>3, <3>1
    <3>4. i = j
      BY <3>2, <3>3, <1>3 DEF RequestsFit
    <3> QED
      BY <3>2, <3>3, <3>4
  <2> QED
    BY <1>1, <1>3, <2>1, <2>2
<1>4. ASSUME NEW n \in 1 .. turn2 PROVE \E k \in 1 .. Len(V) : V[k].type = "llm_request" /\ V[k].turn = n
  <2>1. CASE n \in 1 .. turn
    <3>1. PICK i \in 1 .. Len(W) : W[i].type = "llm_request" /\ W[i].turn = n
      BY <2>1 DEF Asked
    <3>2. i \in 1 .. Len(V) /\ V[i] = W[i]
      BY DEF Grown
    <3> QED
      BY <3>1, <3>2
  <2>2. CASE n \in turn + 1 .. turn2
    <3>1. PICK i \in 1 .. Len(es) : es[i].type = "llm_request" /\ es[i].turn = n
      BY <2>2 DEF RequestsFit
    <3>2. Len(W) + i \in 1 .. Len(V) /\ V[Len(W) + i].type = es[i].type /\ V[Len(W) + i].turn = es[i].turn
      BY DEF Grown
    <3> QED
      BY <3>1, <3>2
  <2> QED
    BY <2>1, <2>2
<1> QED
  BY <1>2, <1>3, <1>4 DEF Asked

\* One with an outcome at most for each request, none for a turn that waits, stays so
\* when the turns that waited get theirs.
LEMMA AnsweredMore ==
  ASSUME NEW V, NEW W, NEW seq, NEW es, Grown(V, W, seq, es),
         NEW turn \in Nat, NEW turn2 \in Nat, Asked(W, turn), NEW T, T \subseteq 1 .. turn,
         NEW T2, T2 \subseteq T \cup (turn + 1 .. turn2), Answered(W, T), OutcomesFit(es, T, T2)
  PROVE  Answered(V, T2)
<1>1. ASSUME NEW k \in 1 .. Len(V), V[k].type \in Outcomes
      PROVE  \/ k \in 1 .. Len(W) /\ V[k] = W[k] /\ V[k].turn \notin T
             \/ \E i \in 1 .. Len(es) : /\ k = Len(W) + i /\ es[i].type \in Outcomes
                                        /\ V[k].turn = es[i].turn /\ V[k].turn \in T
  <2>1. CASE k \in 1 .. Len(W) /\ V[k] = W[k]
    BY <2>1, <1>1 DEF Answered
  <2>2. CASE \E i \in 1 .. Len(es) : k = Len(W) + i /\ V[k].type = es[i].type /\ V[k].turn = es[i].turn
    BY <2>2, <1>1 DEF OutcomesFit
  <2> QED
    BY <2>1, <2>2, Place
<1>2. ASSUME NEW k \in 1 .. Len(V), V[k].type \in Outcomes
      PROVE  /\ V[k].turn \notin T2
             /\ \E j \in 1 .. Len(V) : j < k /\ V[j].type = "llm_request" /\ V[j].turn = V[k].turn
  <2>1. CASE k \in 1 .. Len(W) /\ V[k] = W[k] /\ V[k].turn \notin T
    <3>1. PICK j \in 1 .. Len(W) : j < k /\ W[j].type = "llm_request" /\ W[j].turn = W[k].turn
      BY <2>1, <1>2 DEF Answered
    <3>2. V[j] = W[j] /\ j \in 1 .. Len(V)
      BY DEF Grown
    <3>3. V[k].turn \in 1 .. turn
      BY <3>1, <2>1 DEF Asked
    <3>4. V[k].turn \notin turn + 1 .. turn2
      BY <3>3
    <3> QED
      BY <2>1, <3>1, <3>2, <3>4
  <2>2. CASE \E i \in 1 .. Len(es) : /\ k = Len(W) + i /\ es[i].type \in Outcomes
                                     /\ V[k].turn = es[i].turn /\ V[k].turn \in T
    <3>1. PICK i \in 1 .. Len(es) : /\ k = Len(W) + i /\ es[i].type \in Outcomes
                                     /\ V[k].turn = es[i].turn /\ V[k].turn \in T
      BY <2>2
    <3>2. V[k].turn \notin T2
      BY <3>1 DEF OutcomesFit
    <3>3. PICK j \in 1 .. Len(W) : W[j].type = "llm_request" /\ W[j].turn = V[k].turn
      BY <3>1 DEF Asked
    <3>4. V[j] = W[j] /\ j \in 1 .. Len(V) /\ j < k
      BY <3>1 DEF Grown
    <3> QED
      BY <3>2, <3>3, <3>4
  <2> QED
    BY <1>1, <1>2, <2>1, <2>2
<1>3. ASSUME NEW k \in 1 .. Len(V), NEW m \in 1 .. Len(V),
             V[k].type \in Outcomes, V[m].type \in Outcomes, V[k].turn = V[m].turn
      PROVE  k = m
  <2>1. CASE V[k].turn \notin T
    <3>1. k \in 1 .. Len(W) /\ V[k] = W[k]
      BY <1>1, <1>3, <2>1
    <3>2. m \in 1 .. Len(W) /\ V[m] = W[m]
      BY <1>1, <1>3, <2>1
    <3> QED
      BY <3>1, <3>2, <1>3 DEF Answered
  <2>2. CASE V[k].turn \in T
    <3>1. PICK i \in 1 .. Len(es) : k = Len(W) + i /\ es[i].type \in Outcomes /\ V[k].turn = es[i].turn
      BY <1>1, <1>3, <2>2
    <3>2. PICK j \in 1 .. Len(es) : m = Len(W) + j /\ es[j].type \in Outcomes /\ V[m].turn = es[j].turn
      BY <1>1, <1>3, <2>2
    <3>3. i = j
      BY <3>1, <3>2, <1>3 DEF OutcomesFit
    <3> QED
      BY <3>1, <3>2, <3>3
  <2> QED
    BY <2>1, <2>2
<1> QED
  BY <1>2, <1>3 DEF Answered

\* One with a result at most for each call, after it, gets only first results of the
\* calls of the last reply.
LEMMA ResultedMore ==
  ASSUME NEW V, NEW W, NEW seq, NEW es, Grown(V, W, seq, es),
         NEW replied, NEW ids, NEW ids2, ids \subseteq ids2, Called(W, replied),
         Resulted(W, ids), ResultsFit(es, replied, ids, ids2)
  PROVE  Resulted(V, ids2)
<1>1. ASSUME NEW k \in 1 .. Len(V), V[k].type = "tool_result"
      PROVE  \/ k \in 1 .. Len(W) /\ V[k] = W[k] /\ V[k].call \in ids
             \/ \E i \in 1 .. Len(es) : /\ k = Len(W) + i /\ es[i].type = "tool_result"
                                        /\ V[k].turn = es[i].turn /\ V[k].call = es[i].call
                                        /\ V[k].call \notin ids /\ V[k].call \in ids2
  <2>1. CASE k \in 1 .. Len(W) /\ V[k] = W[k]
    BY <2>1, <1>1 DEF Resulted
  <2>2. CASE \E i \in 1 .. Len(es) : /\ k = Len(W) + i /\ V[k].type = es[i].type
                                     /\ V[k].turn = es[i].turn /\ V[k].call = es[i].call
    BY <2>2, <1>1 DEF ResultsFit
  <2> QED
    BY <2>1, <2>2, Place
<1>2. ASSUME NEW k \in 1 .. Len(V), V[k].type = "tool_result"
      PROVE  /\ V[k].call \in ids2
             /\ \E j \in 1 .. Len(V) : /\ j < k /\ V[j].type = "tool_call"
                                       /\ V[j].call = V[k].call /\ V[j].turn = V[k].turn
  <2>1. CASE k \in 1 .. Len(W) /\ V[k] = W[k] /\ V[k].call \in ids
    <3>1. PICK j \in 1 .. Len(W) : /\ j < k /\ W[j].type = "tool_call"
                                   /\ W[j].call = W[k].call /\ W[j].turn = W[k].turn
      BY <2>1, <1>2 DEF Resulted
    <3>2. V[j] = W[j] /\ j \in 1 .. Len(V)
      BY DEF Grown
    <3> QED
      BY <2>1, <3>1, <3>2
  <2>2. CASE \E i \in 1 .. Len(es) : /\ k = Len(W) + i /\ es[i].type = "tool_result"
                                     /\ V[k].turn = es[i].turn /\ V[k].call = es[i].call
                                     /\ V[k].call \notin ids /\ V[k].call \in ids2
    <3>1. PICK i \in 1 .. Len(es) : /\ k = Len(W) + i /\ es[i].type = "tool_result"
                                     /\ V[k].turn = es[i].turn /\ V[k].call = es[i].call
                                     /\ V[k].call \notin ids /\ V[k].call \in ids2
      BY <2>2
    <3>2. PICK c \in 1 .. Len(replied.calls) : replied.calls[c].id = V[k].call /\ V[k].turn = replied.turn
      BY <3>1 DEF ResultsFit
    <3>3. PICK j \in 1 .. Len(W) : W[j].type = "tool_call" /\ W[j].call = V[k].call /\ W[j].turn = V[k].turn
      BY <3>2 DEF Called
    <3>4. V[j] = W[j] /\ j \in 1 .. Len(V) /\ j < k
      BY <3>1 DEF Grown
    <3> QED
      BY <3>1, <3>3, <3>4
  <2> QED
    BY <1>1, <1>2, <2>1, <2>2
<1>3. ASSUME NEW k \in 1 .. Len(V), NEW m \in 1 .. Len(V),
             V[k].type = "tool_result", V[m].type = "tool_result", V[k].call = V[m].call
      PROVE  k = m
  <2>1. CASE V[k].call \in ids
    <3>1. k \in 1 .. Len(W) /\ V[k] = W[k]
      BY <1>1, <1>3, <2>1
    <3>2. m \in 1 .. Len(W) /\ V[m] = W[m]
      BY <1>1, <1>3, <2>1
    <3> QED
      BY <3>1, <3>2, <1>3 DEF Resulted
  <2>2. CASE V[k].call \notin ids
    <3>1. PICK i \in 1 .. Len(es) : k = Len(W) + i /\ es[i].type = "tool_result" /\ V[k].call = es[i].call
      BY <1>1, <1>3, <2>2
    <3>2. PICK j \in 1 .. Len(es) : m = Len(W) + j /\ es[j].type = "tool_result" /\ V[m].call = es[j].call
      BY <1>1, <1>3, <2>2
    <3>3. i = j
      BY <3>1, <3>2, <1>3 DEF ResultsFit
    <3> QED
      BY <3>1, <3>2, <3>3
  <2> QED
    BY <2>1, <2>2
<1> QED
  BY <1>2, <1>3 DEF Resulted

\* One with the calls of the last reply has them still, or those of a new reply.
LEMMA CalledMore ==
  ASSUME NEW V, NEW W, NEW seq, NEW es, Grown(V, W, seq, es),
         NEW replied, NEW replied2, Called(W, replied), CallsMade(es, replied, replied2)
  PROVE  Called(V, replied2)
<1> SUFFICES ASSUME NEW c \in 1 .. Len(replied2.calls)
             PROVE  \E j \in 1 .. Len(V) : /\ V[j].type = "tool_call" /\ V[j].call = replied2.calls[c].id
                                           /\ V[j].turn = replied2.turn
  BY DEF Called
<1>1. CASE replied2 = replied
  <2>1. PICK j \in 1 .. Len(W) : /\ W[j].type = "tool_call" /\ W[j].call = replied2.calls[c].id
                                 /\ W[j].turn = replied2.turn
    BY <1>1 DEF Called
  <2>2. V[j] = W[j] /\ j \in 1 .. Len(V)
    BY DEF Grown
  <2> QED
    BY <2>1, <2>2
<1>2. CASE replied2 # replied
  <2>1. PICK j \in 1 .. Len(es) : /\ es[j].type = "tool_call" /\ es[j].call = replied2.calls[c].id
                                  /\ es[j].turn = replied2.turn
    BY <1>2 DEF CallsMade
  <2>2. /\ Len(W) + j \in 1 .. Len(V) /\ V[Len(W) + j].type = es[j].type
        /\ V[Len(W) + j].call = es[j].call /\ V[Len(W) + j].turn = es[j].turn
    BY DEF Grown
  <2> QED
    BY <2>1, <2>2
<1> QED
  BY <1>1, <1>2

\* A transcript right for a run, grown by events that fit, is right for the run after.
LEMMA EventsRecorded ==
  ASSUME NEW R, NEW R2, NEW es \in Seq(Events), NEW T, NEW T2, R.seq \in Nat, R.open = TRUE,
         NEW W \in Seq(Lines), RunRight(R, W, T), EventsFit(R, es, R2, T, T2)
  PROVE  /\ W \o Numbered(R, es) \in Seq(Lines)
         /\ RunRight(R2, W \o Numbered(R, es), T2)
<1> DEFINE V == W \o Numbered(R, es)
<1>1. Grown(V, W, R.seq, es)
  BY GrownIs
<1> HIDE DEF V
<1>2. V \in Seq(Lines) /\ Len(V) = Len(W) + Len(es)
  BY <1>1 DEF Grown
<1>3. Len(W) = R.seq + 1
  BY DEF RunRight
<1>4. R.turn \in Nat /\ R2.turn \in Nat /\ R.turn <= R2.turn
  BY DEF EventsFit
<1>5. Lined(V)
  BY <1>1, <1>3, LinedMore DEF RunRight
<1>6. Ended(V, R2.open)
  BY <1>1, EndedMore DEF RunRight, EventsFit
<1>7. Asked(V, R2.turn)
  BY <1>1, <1>4, AskedMore DEF RunRight, EventsFit
<1>8. Answered(V, T2)
  <2>1. Asked(W, R.turn) /\ T \subseteq 1 .. R.turn /\ Answered(W, T)
    BY DEF RunRight
  <2>2. T2 \subseteq T \cup (R.turn + 1 .. R2.turn) /\ OutcomesFit(es, T, T2)
    BY DEF EventsFit
  <2> QED
    BY <1>1, <1>4, <2>1, <2>2, AnsweredMore
<1>9. Resulted(V, R2.resulted)
  <2>1. Called(W, R.replied) /\ Resulted(W, R.resulted)
    BY DEF RunRight
  <2>2. R.resulted \subseteq R2.resulted /\ ResultsFit(es, R.replied, R.resulted, R2.resulted)
    BY DEF EventsFit
  <2> QED
    BY <1>1, <2>1, <2>2, ResultedMore
<1>10. Called(V, R2.replied)
  BY <1>1, CalledMore DEF RunRight, EventsFit
<1>11. R2.open => Len(V) = R2.seq + 1
  <2>1. R2.open => R2.seq = R.seq + Len(es)
    BY DEF EventsFit
  <2>2. Len(es) \in Nat
    OBVIOUS
  <2> QED
    BY <1>2, <1>3, <2>1, <2>2
<1>12. T2 \subseteq 1 .. R2.turn
  <2>1. T \subseteq 1 .. R.turn
    BY DEF RunRight
  <2>2. T2 \subseteq T \cup (R.turn + 1 .. R2.turn)
    BY DEF EventsFit
  <2> QED
    BY <1>4, <2>1, <2>2
<1>13. RunRight(R2, V, T2)
  BY <1>5, <1>6, <1>7, <1>8, <1>9, <1>10, <1>11, <1>12 DEF RunRight
<1> QED
  BY <1>2, <1>13 DEF V

------------------------------------------------------------------------------
\* A file f and the appends of its chain ch that wait are together W: append j
\* begins after the line cuts[j - 1].
Cut(W, f, ch, cuts) ==
  /\ cuts[0] = Len(f) /\ cuts[Len(ch)] = Len(W)
  /\ \A j \in 1 .. Len(ch) :
       /\ cuts[j] = cuts[j - 1] + Len(ch[j])
       /\ \A i \in 1 .. Len(ch[j]) : W[cuts[j - 1] + i] = ch[j][i]
  /\ \A j \in 0 .. Len(ch) : cuts[j] <= Len(W)
ChainHolds(W, f, ch) ==
  /\ f \in Seq(Lines) /\ ch \in Seq(Seq(Lines))
  /\ \A i \in 1 .. Len(f) : W[i] = f[i]
  /\ \E cuts \in [0 .. Len(ch) -> Nat] : Cut(W, f, ch, cuts)

\* The empty file with no append is of the empty transcript.
LEMMA ChainEmpty == ChainHolds(<<>>, <<>>, <<>>)
<1> DEFINE cuts == [j \in 0 .. 0 |-> 0]
<1>1. 0 .. 0 = {0} /\ cuts[0] = 0 /\ cuts \in [0 .. 0 -> Nat]
  OBVIOUS
<1>2. Len(<<>>) = 0
  OBVIOUS
<1>3. <<>> \in Seq(Lines) /\ <<>> \in Seq(Seq(Lines))
  OBVIOUS
<1>4. Cut(<<>>, <<>>, <<>>, cuts)
  BY <1>1, <1>2 DEF Cut
<1> HIDE DEF cuts
<1> QED
  BY <1>1, <1>2, <1>3, <1>4 DEF ChainHolds

\* A place past x, within a length.
LEMMA InBounds ==
  ASSUME NEW x \in Nat, NEW n \in Nat, NEW i \in 1 .. n, NEW m \in Nat, x + n <= m
  PROVE  x + i \in 1 .. m
OBVIOUS

\* A new append at the end of the chain makes the transcript longer by its lines.
LEMMA ChainMore ==
  ASSUME NEW W \in Seq(Lines), NEW f, NEW ch, ChainHolds(W, f, ch), NEW es \in Seq(Lines)
  PROVE  ChainHolds(W \o es, f, ch \o <<es>>)
<1> DEFINE V == W \o es
           dh == ch \o <<es>>
<1>1. PICK cuts \in [0 .. Len(ch) -> Nat] : Cut(W, f, ch, cuts)
  BY DEF ChainHolds
<1>2. f \in Seq(Lines) /\ ch \in Seq(Seq(Lines)) /\ Len(ch) \in Nat /\ Len(f) \in Nat
  BY DEF ChainHolds
<1>3. /\ dh \in Seq(Seq(Lines)) /\ Len(dh) = Len(ch) + 1
      /\ \A j \in 1 .. Len(ch) : dh[j] = ch[j]
      /\ dh[Len(ch) + 1] = es
  BY <1>2
<1>4. /\ Len(V) = Len(W) + Len(es) /\ Len(W) \in Nat /\ Len(es) \in Nat
      /\ \A i \in 1 .. Len(W) : V[i] = W[i]
      /\ \A i \in 1 .. Len(es) : V[Len(W) + i] = es[i]
  OBVIOUS
<1> HIDE DEF V, dh
<1> DEFINE cuts2 == [j \in 0 .. Len(dh) |-> IF j <= Len(ch) THEN cuts[j] ELSE Len(V)]
<1>5. cuts2 \in [0 .. Len(dh) -> Nat]
  BY <1>2, <1>3, <1>4
<1>6. /\ \A j \in 0 .. Len(ch) : cuts2[j] = cuts[j]
      /\ cuts2[Len(dh)] = Len(V)
  BY <1>2, <1>3
<1> HIDE DEF cuts2
<1>7. cuts2[0] = Len(f)
  BY <1>2, <1>1, <1>6 DEF Cut
<1>8. ASSUME NEW j \in 1 .. Len(dh)
      PROVE  /\ cuts2[j] = cuts2[j - 1] + Len(dh[j])
             /\ \A i \in 1 .. Len(dh[j]) : V[cuts2[j - 1] + i] = dh[j][i]
  <2>1. CASE j = Len(ch) + 1
    <3>1. j - 1 \in 0 .. Len(ch) /\ j - 1 = Len(ch) /\ j = Len(dh) /\ dh[j] = es
      BY <2>1, <1>2, <1>3
    <3>2. cuts2[j - 1] = Len(W)
      BY <3>1, <1>1, <1>6 DEF Cut
    <3> QED
      BY <3>1, <3>2, <1>4, <1>6
  <2>2. CASE j # Len(ch) + 1
    <3>1. j \in 1 .. Len(ch) /\ j \in 0 .. Len(ch) /\ j - 1 \in 0 .. Len(ch)
      BY <2>2, <1>2, <1>3
    <3>2. dh[j] = ch[j] /\ cuts2[j] = cuts[j] /\ cuts2[j - 1] = cuts[j - 1]
      BY <3>1, <1>3, <1>6
    <3>3. /\ cuts[j] = cuts[j - 1] + Len(ch[j]) /\ cuts[j] <= Len(W)
          /\ \A i \in 1 .. Len(ch[j]) : W[cuts[j - 1] + i] = ch[j][i]
      BY <3>1, <1>1 DEF Cut
    <3>4. cuts[j - 1] \in Nat /\ cuts[j] \in Nat
      BY <3>1
    <3>6. ch[j] \in Seq(Lines)
      BY <3>1, <1>2
    <3>7. Len(ch[j]) \in Nat
      BY <3>6
    <3>8. cuts[j - 1] + Len(ch[j]) <= Len(W)
      BY <3>3
    <3>5. ASSUME NEW i \in 1 .. Len(ch[j]) PROVE V[cuts[j - 1] + i] = ch[j][i]
      <4>1. cuts[j - 1] + i \in 1 .. Len(W)
        BY <3>4, <3>7, <3>8, <1>4, InBounds
      <4> QED
        BY <4>1, <3>3, <1>4
    <3> QED
      BY <3>2, <3>3, <3>5
  <2> QED
    BY <2>1, <2>2
<1>9. ASSUME NEW j \in 0 .. Len(dh) PROVE cuts2[j] <= Len(V)
  <2>1. CASE j \in 0 .. Len(ch)
    <3>1. cuts[j] <= Len(W) /\ cuts[j] \in Nat
      BY <2>1, <1>1 DEF Cut
    <3> QED
      BY <3>1, <2>1, <1>4, <1>6
  <2>2. CASE j = Len(dh)
    BY <2>2, <1>4, <1>6
  <2> QED
    BY <2>1, <2>2, <1>2, <1>3
<1>10. Cut(V, f, dh, cuts2)
  BY <1>6, <1>7, <1>8, <1>9 DEF Cut
<1>11. ASSUME NEW i \in 1 .. Len(f) PROVE V[i] = f[i]
  <2>1. W[i] = f[i]
    BY DEF ChainHolds
  <2>2. cuts[0] = Len(f) /\ cuts[0] <= Len(W)
    BY <1>1, <1>2 DEF Cut
  <2>3. i \in 1 .. Len(W)
    BY <2>2, <1>2, <1>4
  <2> QED
    BY <2>1, <2>3, <1>4
<1>12. ChainHolds(V, f, dh)
  BY <1>2, <1>3, <1>5, <1>10, <1>11 DEF ChainHolds
<1> QED
  BY <1>12 DEF V, dh

\* An append that moves from the chain to the file leaves the transcript as it is.
LEMMA ChainTakes ==
  ASSUME NEW W \in Seq(Lines), NEW f, NEW ch, ChainHolds(W, f, ch), ch # <<>>
  PROVE  ChainHolds(W, f \o Head(ch), Tail(ch))
<1> DEFINE g == f \o Head(ch)
           dh == Tail(ch)
<1>1. PICK cuts \in [0 .. Len(ch) -> Nat] : Cut(W, f, ch, cuts)
  BY DEF ChainHolds
<1>2. f \in Seq(Lines) /\ ch \in Seq(Seq(Lines)) /\ Len(ch) \in Nat /\ Len(f) \in Nat
  BY DEF ChainHolds
<1>3. Len(ch) >= 1 /\ Head(ch) = ch[1] /\ Head(ch) \in Seq(Lines) /\ ch[1] \in Seq(Lines)
  BY <1>2
<1>4. /\ dh \in Seq(Seq(Lines)) /\ Len(dh) = Len(ch) - 1 /\ Len(dh) \in Nat
      /\ \A j \in 1 .. Len(dh) : dh[j] = ch[j + 1]
  BY <1>2, <1>3
<1>5. /\ g \in Seq(Lines) /\ Len(g) = Len(f) + Len(ch[1]) /\ Len(ch[1]) \in Nat
      /\ \A i \in 1 .. Len(f) : g[i] = f[i]
      /\ \A i \in 1 .. Len(ch[1]) : g[Len(f) + i] = ch[1][i]
  BY <1>2, <1>3
<1> HIDE DEF g, dh
<1> DEFINE cuts2 == [j \in 0 .. Len(dh) |-> cuts[j + 1]]
<1>6. cuts2 \in [0 .. Len(dh) -> Nat]
  BY <1>2, <1>4
<1>7. \A j \in 0 .. Len(dh) : cuts2[j] = cuts[j + 1]
  OBVIOUS
<1> HIDE DEF cuts2
<1>8. /\ cuts[0] = Len(f) /\ cuts[1] = cuts[0] + Len(ch[1]) /\ cuts[0] \in Nat
      /\ \A i \in 1 .. Len(ch[1]) : W[cuts[0] + i] = ch[1][i]
  <2>1. 1 \in 1 .. Len(ch) /\ 1 - 1 = 0 /\ 0 \in 0 .. Len(ch)
    BY <1>2, <1>3
  <2> QED
    BY <2>1, <1>1 DEF Cut
<1>9. cuts2[0] = Len(g)
  <2>1. 0 \in 0 .. Len(dh) /\ 0 + 1 = 1
    BY <1>4
  <2> QED
    BY <2>1, <1>5, <1>7, <1>8
<1>10. cuts2[Len(dh)] = Len(W)
  <2>1. Len(dh) \in 0 .. Len(dh) /\ Len(dh) + 1 = Len(ch)
    BY <1>2, <1>4
  <2> QED
    BY <2>1, <1>1, <1>7 DEF Cut
<1>11. ASSUME NEW j \in 1 .. Len(dh)
       PROVE  /\ cuts2[j] = cuts2[j - 1] + Len(dh[j])
              /\ \A i \in 1 .. Len(dh[j]) : W[cuts2[j - 1] + i] = dh[j][i]
  <2>1. /\ j + 1 \in 1 .. Len(ch) /\ (j + 1) - 1 = j /\ (j - 1) + 1 = j
        /\ j \in 0 .. Len(dh) /\ j - 1 \in 0 .. Len(dh)
    BY <1>2, <1>4
  <2>2. cuts2[j] = cuts[j + 1] /\ cuts2[j - 1] = cuts[j] /\ dh[j] = ch[j + 1]
    BY <2>1, <1>4, <1>7
  <2>3. /\ cuts[j + 1] = cuts[j] + Len(ch[j + 1])
        /\ \A i \in 1 .. Len(ch[j + 1]) : W[cuts[j] + i] = ch[j + 1][i]
    BY <2>1, <1>1 DEF Cut
  <2> QED
    BY <2>2, <2>3
<1>12. ASSUME NEW j \in 0 .. Len(dh) PROVE cuts2[j] <= Len(W)
  <2>1. j + 1 \in 0 .. Len(ch)
    BY <1>2, <1>4
  <2> QED
    BY <2>1, <1>1, <1>7 DEF Cut
<1>13. Cut(W, g, dh, cuts2)
  BY <1>9, <1>10, <1>11, <1>12 DEF Cut
<1>14. ASSUME NEW i \in 1 .. Len(g) PROVE W[i] = g[i]
  <2>1. CASE i <= Len(f)
    BY <2>1, <1>2, <1>5 DEF ChainHolds
  <2>2. CASE i > Len(f)
    <3>1. i - Len(f) \in 1 .. Len(ch[1]) /\ Len(f) + (i - Len(f)) = i
      BY <2>2, <1>2, <1>5
    <3> QED
      BY <3>1, <1>5, <1>8
  <2> QED
    BY <2>1, <2>2, <1>2, <1>5
<1>15. ChainHolds(W, g, dh)
  BY <1>4, <1>5, <1>6, <1>13, <1>14 DEF ChainHolds
<1> QED
  BY <1>15 DEF g, dh

\* A file is a beginning of its transcript.
LEMMA ChainPrefix ==
  ASSUME NEW W \in Seq(Lines), NEW f, NEW ch, ChainHolds(W, f, ch)
  PROVE  /\ f \in Seq(Lines) /\ Len(f) \in Nat /\ Len(f) <= Len(W)
         /\ \A i \in 1 .. Len(f) : f[i] = W[i]
<1>1. PICK cuts \in [0 .. Len(ch) -> Nat] : Cut(W, f, ch, cuts)
  BY DEF ChainHolds
<1>2. f \in Seq(Lines) /\ ch \in Seq(Seq(Lines)) /\ Len(ch) \in Nat /\ Len(f) \in Nat
  BY DEF ChainHolds
<1>3. 0 \in 0 .. Len(ch)
  BY <1>2
<1>4. Len(f) <= Len(W)
  BY <1>1, <1>3 DEF Cut
<1> QED
  BY <1>2, <1>4 DEF ChainHolds

\* Two appends, one after the other.
LEMMA TwoAppends ==
  ASSUME NEW x, NEW y
  PROVE  (<<>> \o <<x>>) \o <<y>> = <<>> \o <<x, y>>
<1>1. <<>> \in Seq({x, y}) /\ <<x>> \in Seq({x, y}) /\ <<y>> \in Seq({x, y}) /\ <<x, y>> \in Seq({x, y})
  OBVIOUS
<1>2. \A s \in Seq({x, y}) : <<>> \o s = s
  OBVIOUS
<1>3. <<x>> \o <<y>> = <<x, y>>
  <2> DEFINE u == <<x>> \o <<y>>
             v == <<x, y>>
  <2>1. u \in Seq({x, y}) /\ Len(u) = 2 /\ u[1] = x /\ u[2] = y
    BY <1>1
  <2>2. v \in Seq({x, y}) /\ Len(v) = 2 /\ v[1] = x /\ v[2] = y
    BY <1>1
  <2> HIDE DEF u, v
  <2>3. 1 .. 2 = {1, 2}
    OBVIOUS
  <2>4. u = v
    BY <2>1, <2>2, <2>3
  <2> QED
    BY <2>4 DEF u, v
<1> QED
  BY <1>1, <1>2, <1>3

\* The first append of a file opens it with its meta line.
LEMMA ChainOpens ==
  ASSUME NEW es \in Seq(Lines)
  PROVE  /\ <<MetaLine>> \in Seq(Lines)
         /\ ChainHolds(<<MetaLine>> \o es, <<>>, <<>> \o <<Open, es>>)
<1>1. MetaLine \in Lines
  BY DEF MetaLine, Lines
<1>2. Open \in Seq(Lines) /\ <<>> \in Seq(Lines) /\ Open = <<MetaLine>>
  BY <1>1 DEF Open
<1>3. ChainHolds(<<>> \o Open, <<>>, <<>> \o <<Open>>)
  BY <1>2, ChainEmpty, ChainMore
<1>4. <<>> \o Open = Open
  BY <1>2
<1>5. ChainHolds(Open, <<>>, <<>> \o <<Open>>)
  BY <1>3, <1>4
<1>6. ChainHolds(Open \o es, <<>>, (<<>> \o <<Open>>) \o <<es>>)
  BY <1>2, <1>5, ChainMore
<1> HIDE DEF Open
<1>7. (<<>> \o <<Open>>) \o <<es>> = <<>> \o <<Open, es>>
  BY TwoAppends
<1> QED
  BY <1>2, <1>6, <1>7

------------------------------------------------------------------------------
\* What the state is made of.
AnyKey == {"main"} \cup UNION {{c.name[a] : a \in Agents} : c \in Clients}
Wires == Nat \X Nat
Calls == [id : Nat, wire : Wires]
Replied == [turn : Nat, calls : Seq(Calls)]
Runs ==
  [key : AnyKey, len : Nat, active : Nat, seq : Nat, turn : Nat, callSeq : Nat, replied : Replied,
   resulted : SUBSET Nat, open : BOOLEAN, pending : BOOLEAN, notes : Nat]
States == {"sent", "forwarded", "aborted", "gone"}
Requests ==
  [agent : Agents, cls : Classes, run : Nat, turn : Nat, st : States, calls : Seq(Wires)]
Histories == [len : Nat, echoed : Seq(Wires)]

\* An event has the turn, the type and the call it was made with.
LEMMA EventIs ==
  ASSUME NEW turn \in Nat, NEW type \in Types, NEW call \in Nat
  PROVE  /\ Event(turn, type, call) \in Events
         /\ Event(turn, type, call).turn = turn /\ Event(turn, type, call).type = type
         /\ Event(turn, type, call).call = call
BY DEF Event, Events

Quiet(q) == q \in Seq(Events) /\ \A i \in 1 .. Len(q) : q[i].type = "note"

\* flush records notes only.
LEMMA FlushIs ==
  ASSUME NEW R, R.notes \in Nat
  PROVE  Quiet(flush(R))
<1>1. "note" \in Types /\ 0 \in Nat
  BY DEF Types
<1>2. Event(0, "note", 0) \in Events /\ Event(0, "note", 0).type = "note"
  BY <1>1, EventIs
<1>3. flush(R) \in [1 .. R.notes -> Events]
  BY <1>2 DEF flush
<1>4. flush(R) \in Seq(Events) /\ Len(flush(R)) = R.notes
  BY <1>3
<1>5. \A i \in 1 .. R.notes : flush(R)[i] = Event(0, "note", 0)
  BY DEF flush
<1> QED
  BY <1>2, <1>4, <1>5 DEF Quiet

\* No two elements of s have one id.
Distinct(s) == \A i, j \in 1 .. Len(s) : s[i].id = s[j].id => i = j
\* The elements of o are some of s, and none twice.
Some(o, s) ==
  /\ o \in Seq(Calls) /\ Distinct(o)
  /\ \A i \in 1 .. Len(o) : \E j \in 1 .. Len(s) : o[i] = s[j]

IdsOf(new) == {new[i].id : i \in 1 .. Len(new)}
Fresh(new, ids) == \A i \in 1 .. Len(new) : new[i].id \notin ids
From(o, s, I) == \A i \in 1 .. Len(o) : \E j \in I : o[i] = s[j]

\* A pick of a sequence has some of its elements, and none twice.
LEMMA PickSome ==
  ASSUME NEW s \in Seq(Calls), Distinct(s), NEW I, I \subseteq 1 .. Len(s)
  PROVE  /\ Some(Pick(s, I), s)
         /\ From(Pick(s, I), s, I)
<1> DEFINE o == Pick(s, I)
<1>1. Filter(o, s, I, Len(s), Calls)
  BY PickFilters
<1> HIDE DEF o
<1>2. o \in Seq(Calls) /\ \A i \in 1 .. Len(o) : \E j \in I : o[i] = s[j]
  BY <1>1 DEF Filter
<1>3. ASSUME NEW i \in 1 .. Len(o), NEW j \in 1 .. Len(o), i < j PROVE o[i].id # o[j].id
  <2>1. PICK m \in I, n \in I : m < n /\ n <= Len(s) /\ o[i] = s[m] /\ o[j] = s[n]
    BY <1>1, <1>3 DEF Filter
  <2>2. m \in 1 .. Len(s) /\ n \in 1 .. Len(s) /\ m # n
    BY <2>1
  <2> QED
    BY <2>1, <2>2 DEF Distinct
<1>4. Distinct(o)
  <2> SUFFICES ASSUME NEW i \in 1 .. Len(o), NEW j \in 1 .. Len(o), o[i].id = o[j].id PROVE i = j
    BY DEF Distinct
  <2>1. i < j \/ j < i \/ i = j
    OBVIOUS
  <2> QED
    BY <2>1, <1>3
<1>5. Some(o, s)
  BY <1>2, <1>4 DEF Some
<1>6. From(o, s, I)
  BY <1>2 DEF From
<1> QED
  BY <1>5, <1>6 DEF o

\* The results a request carries are of calls of the last reply, each once, and none that
\* was recorded already.
LEMMA ResultsAre ==
  ASSUME NEW R, NEW calls \in Seq(Calls), Distinct(calls), NEW echoed \in Seq(Wires)
  PROVE  /\ Some(results(R, toolResults(echoed, calls)), calls)
         /\ Fresh(results(R, toolResults(echoed, calls)), R.resulted)
<1> DEFINE seen == toolResults(echoed, calls)
           o == results(R, seen)
<1>1. Some(seen, calls)
  <2>1. CASE client.dialect = "anthropic"
    <3> DEFINE I == {i \in DOMAIN calls : \E j \in DOMAIN echoed : echoed[j] = calls[i].wire}
    <3>1. seen = Pick(calls, I)
      BY <2>1 DEF toolResults
    <3>2. I \subseteq 1 .. Len(calls)
      OBVIOUS
    <3> HIDE DEF I, seen
    <3> QED
      BY <3>1, <3>2, PickSome
  <2>2. CASE client.dialect # "anthropic"
    <3> DEFINE n == IF Len(echoed) < Len(calls) THEN Len(echoed) ELSE Len(calls)
    <3>1. seen = SubSeq(calls, 1, n)
      BY <2>2 DEF toolResults
    <3>2. n \in 0 .. Len(calls) /\ Len(calls) \in Nat
      OBVIOUS
    <3> HIDE DEF n, seen
    <3>3. seen \in Seq(Calls) /\ Len(seen) = n /\ \A i \in 1 .. n : seen[i] = calls[i]
      BY <3>1, <3>2
    <3>4. \A i \in 1 .. n : i \in 1 .. Len(calls)
      BY <3>2
    <3> QED
      BY <3>3, <3>4 DEF Some, Distinct
  <2> QED
    BY <2>1, <2>2
<1> DEFINE I == {i \in DOMAIN seen : seen[i].id \notin R.resulted}
<1>2. o = Pick(seen, I)
  BY DEF results
<1>3. seen \in Seq(Calls) /\ Distinct(seen)
  BY <1>1 DEF Some
<1> HIDE DEF seen
<1>4. I \subseteq 1 .. Len(seen)
  BY <1>3
<1>5. /\ Some(o, seen)
      /\ \A i \in 1 .. Len(o) : \E j \in I : o[i] = seen[j]
  <2> HIDE DEF I, o
  <2>1. Some(Pick(seen, I), seen)
    BY <1>3, <1>4, PickSome
  <2>2. From(Pick(seen, I), seen, I)
    BY <1>3, <1>4, PickSome
  <2> QED
    BY <1>2, <2>1, <2>2 DEF From
<1>6. Fresh(o, R.resulted)
  <2> HIDE DEF o
  <2> QED
    BY <1>5 DEF Fresh
<1> HIDE DEF o, I
<1>7. Some(o, calls)
  <2>1. o \in Seq(Calls) /\ Distinct(o)
    BY <1>5 DEF Some
  <2>2. ASSUME NEW i \in 1 .. Len(o) PROVE \E j \in 1 .. Len(calls) : o[i] = calls[j]
    BY <1>1, <1>5 DEF Some
  <2> QED
    BY <2>1, <2>2 DEF Some
<1> QED
  BY <1>6, <1>7 DEF o, seen

------------------------------------------------------------------------------
\* What a request records: notes, a result for each call of new, and at the end
\* the request.
RequestLine(es, n, new, replied, turn, k) ==
  \/ es[k].type = "note"
  \/ \E i \in 1 .. Len(new) : /\ k = n + i /\ es[k].type = "tool_result"
                              /\ es[k].turn = replied /\ es[k].call = new[i].id
  \/ k = Len(es) /\ es[k].type = "llm_request" /\ es[k].turn = turn
RequestRecords(es, n, new, replied, turn) ==
  /\ es \in Seq(Events) /\ Len(es) >= 1 /\ n \in Nat
  /\ \A k \in 1 .. Len(es) : RequestLine(es, n, new, replied, turn, k)
  /\ es[Len(es)].type = "llm_request" /\ es[Len(es)].turn = turn

\* What a request records fits the run: one request, of the next turn, and first results.
LEMMA RequestFits ==
  ASSUME NEW es, NEW n, NEW new, NEW replied, NEW turn \in Nat,
         RequestRecords(es, n, new, replied.turn, turn + 1), Some(new, replied.calls),
         NEW ids, Fresh(new, ids), NEW T
  PROVE  /\ DoneFits(es, TRUE) /\ RequestsFit(es, turn, turn + 1)
         /\ OutcomesFit(es, T, T) /\ OutcomesFit(es, T, T \cup {turn + 1})
         /\ ResultsFit(es, replied, ids, ids \cup IdsOf(new))
<1>1. /\ es \in Seq(Events) /\ Len(es) >= 1 /\ n \in Nat /\ Len(es) \in Nat
      /\ es[Len(es)].type = "llm_request" /\ es[Len(es)].turn = turn + 1
  BY DEF RequestRecords
<1>2. ASSUME NEW k \in 1 .. Len(es) PROVE RequestLine(es, n, new, replied.turn, turn + 1, k)
  BY DEF RequestRecords
<1>3. ASSUME NEW k \in 1 .. Len(es) PROVE es[k].type # "done" /\ es[k].type \notin Outcomes
  BY <1>2 DEF RequestLine, Outcomes
<1>4. ASSUME NEW k \in 1 .. Len(es), es[k].type = "llm_request"
      PROVE  k = Len(es) /\ es[k].turn = turn + 1
  BY <1>2, <1>4 DEF RequestLine
<1>5. RequestsFit(es, turn, turn + 1)
  <2>1. ASSUME NEW m \in turn + 1 .. turn + 1
        PROVE  \E i \in 1 .. Len(es) : es[i].type = "llm_request" /\ es[i].turn = m
    <3>1. m = turn + 1 /\ Len(es) \in 1 .. Len(es)
      BY <1>1
    <3> QED
      BY <3>1, <1>1
  <2>2. turn + 1 \in turn + 1 .. turn + 1
    OBVIOUS
  <2> QED
    BY <1>4, <2>1, <2>2 DEF RequestsFit
<1>6. ASSUME NEW k \in 1 .. Len(es), es[k].type = "tool_result"
      PROVE  \E i \in 1 .. Len(new) : k = n + i /\ es[k].turn = replied.turn /\ es[k].call = new[i].id
  BY <1>2, <1>6 DEF RequestLine
<1>7. ResultsFit(es, replied, ids, ids \cup IdsOf(new))
  <2> DEFINE ids2 == ids \cup IdsOf(new)
  <2>1. ASSUME NEW k \in 1 .. Len(es), es[k].type = "tool_result"
        PROVE  /\ es[k].call \in ids2 \ ids /\ es[k].turn = replied.turn
               /\ \E c \in 1 .. Len(replied.calls) : replied.calls[c].id = es[k].call
    <3>1. PICK i \in 1 .. Len(new) : k = n + i /\ es[k].turn = replied.turn /\ es[k].call = new[i].id
      BY <1>6, <2>1
    <3>2. PICK c \in 1 .. Len(replied.calls) : new[i] = replied.calls[c]
      BY DEF Some
    <3> QED
      BY <3>1, <3>2 DEF IdsOf, Fresh
  <2>2. ASSUME NEW k \in 1 .. Len(es), NEW m \in 1 .. Len(es),
               es[k].type = "tool_result", es[m].type = "tool_result", es[k].call = es[m].call
        PROVE  k = m
    <3>1. PICK i \in 1 .. Len(new) : k = n + i /\ es[k].call = new[i].id
      BY <1>6, <2>2
    <3>2. PICK j \in 1 .. Len(new) : m = n + j /\ es[m].call = new[j].id
      BY <1>6, <2>2
    <3>3. i = j
      BY <3>1, <3>2, <2>2 DEF Some, Distinct
    <3> QED
      BY <3>1, <3>2, <3>3
  <2> HIDE DEF ids2
  <2>3. ResultsFit(es, replied, ids, ids2)
    BY <2>1, <2>2 DEF ResultsFit
  <2> QED
    BY <2>3 DEF ids2
<1> QED
  BY <1>3, <1>5, <1>7 DEF DoneFits, OutcomesFit

\* The results of new, as events.
ResultEvents(replied, new) == [i \in DOMAIN new |-> Event(replied, "tool_result", new[i].id)]

\* One result for each call of new.
LEMMA ResultEventsAre ==
  ASSUME NEW replied \in Nat, NEW new \in Seq(Calls)
  PROVE  /\ ResultEvents(replied, new) \in Seq(Events) /\ Len(ResultEvents(replied, new)) = Len(new)
         /\ \A i \in 1 .. Len(new) : ResultEvents(replied, new)[i] = Event(replied, "tool_result", new[i].id)
<1>1. DOMAIN new = 1 .. Len(new) /\ Len(new) \in Nat
  OBVIOUS
<1>2. ASSUME NEW i \in 1 .. Len(new) PROVE Event(replied, "tool_result", new[i].id) \in Events
  <2>1. new[i] \in Calls
    OBVIOUS
  <2>2. new[i].id \in Nat /\ "tool_result" \in Types
    BY <2>1 DEF Calls, Types
  <2> QED
    BY <2>2, EventIs
<1>3. ResultEvents(replied, new) \in [1 .. Len(new) -> Events]
  BY <1>1, <1>2, Zenon DEF ResultEvents
<1>4. \A i \in 1 .. Len(new) : ResultEvents(replied, new)[i] = Event(replied, "tool_result", new[i].id)
  BY <1>1, Zenon DEF ResultEvents
<1> QED
  BY <1>1, <1>3, <1>4

\* z is x and then y.
Cats(z, x, y) ==
  /\ z \in Seq(Events) /\ Len(z) = Len(x) + Len(y) /\ Len(x) \in Nat /\ Len(y) \in Nat
  /\ \A k \in 1 .. Len(z) : \/ k \in 1 .. Len(x) /\ z[k] = x[k]
                            \/ \E i \in 1 .. Len(y) : k = Len(x) + i /\ z[k] = y[i]

Joins(z, x, y) ==
  /\ z \in Seq(Events) /\ Len(z) = Len(x) + Len(y)
  /\ \A i \in 1 .. Len(x) : z[i] = x[i]
  /\ \A i \in 1 .. Len(y) : z[Len(x) + i] = y[i]

\* Two sequences of events joined have the events of both.
LEMMA JoinsIs ==
  ASSUME NEW x \in Seq(Events), NEW y \in Seq(Events)
  PROVE  Joins(x \o y, x, y)
BY DEF Joins

\* Each event of the joined sequence is one of the first, or one of the second.
LEMMA CatsIs ==
  ASSUME NEW x \in Seq(Events), NEW y \in Seq(Events)
  PROVE  Cats(x \o y, x, y)
<1> DEFINE z == x \o y
<1>1. /\ z \in Seq(Events) /\ Len(z) = Len(x) + Len(y) /\ Len(x) \in Nat /\ Len(y) \in Nat
      /\ \A i \in 1 .. Len(x) : z[i] = x[i]
      /\ \A i \in 1 .. Len(y) : z[Len(x) + i] = y[i]
  OBVIOUS
<1> HIDE DEF z
<1>2. ASSUME NEW k \in 1 .. Len(z)
      PROVE  \/ k \in 1 .. Len(x) /\ z[k] = x[k]
             \/ \E i \in 1 .. Len(y) : k = Len(x) + i /\ z[k] = y[i]
  <2>1. CASE k <= Len(x)
    BY <2>1, <1>1
  <2>2. CASE k > Len(x)
    <3>1. k - Len(x) \in 1 .. Len(y) /\ k = Len(x) + (k - Len(x))
      BY <2>2, <1>1
    <3> QED
      BY <3>1, <1>1
  <2> QED
    BY <2>1, <2>2, <1>1
<1>3. Cats(z, x, y)
  BY <1>1, <1>2 DEF Cats
<1> QED
  BY <1>3 DEF z

\* Notes, results, a note and the request make what a request records.
LEMMA RequestBuilds ==
  ASSUME NEW q, Quiet(q), NEW replied \in Nat, NEW new \in Seq(Calls), NEW turn \in Nat,
         NEW o, Quiet(o)
  PROVE  RequestRecords(((q \o ResultEvents(replied, new)) \o o) \o <<Event(turn, "llm_request", 0)>>,
                        Len(q), new, replied, turn)
<1> DEFINE b == ResultEvents(replied, new)
           d == Event(turn, "llm_request", 0)
           x == q \o b
           y == x \o o
           e == <<d>>
           z == y \o e
<1>1. /\ b \in Seq(Events) /\ Len(b) = Len(new) /\ Len(new) \in Nat
      /\ \A i \in 1 .. Len(new) : /\ b[i].type = "tool_result" /\ b[i].turn = replied
                                  /\ b[i].call = new[i].id
  <2>1. b \in Seq(Events) /\ Len(b) = Len(new) /\ Len(new) \in Nat
    BY ResultEventsAre
  <2>2. ASSUME NEW i \in 1 .. Len(new)
        PROVE  b[i].type = "tool_result" /\ b[i].turn = replied /\ b[i].call = new[i].id
    <3>1. b[i] = Event(replied, "tool_result", new[i].id)
      BY ResultEventsAre
    <3> HIDE DEF b
    <3> QED
      BY <3>1 DEF Event
  <2> QED
    BY <2>1, <2>2
<1>2. d \in Events /\ d.type = "llm_request" /\ d.turn = turn
  <2>1. "llm_request" \in Types /\ 0 \in Nat
    BY DEF Types
  <2> QED
    BY <2>1, EventIs
<1>3. /\ q \in Seq(Events) /\ Len(q) \in Nat /\ o \in Seq(Events) /\ Len(o) \in Nat
      /\ \A i \in 1 .. Len(q) : q[i].type = "note"
      /\ \A i \in 1 .. Len(o) : o[i].type = "note"
  BY DEF Quiet
<1> HIDE DEF b, d
<1>4. Cats(x, q, b) /\ x \in Seq(Events)
  BY <1>1, <1>3, CatsIs
<1> HIDE DEF x
<1>5. Cats(y, x, o) /\ y \in Seq(Events)
  BY <1>3, <1>4, CatsIs
<1> HIDE DEF y
<1>6. e \in Seq(Events) /\ Len(e) = 1 /\ e[1] = d
  BY <1>2
<1> HIDE DEF e
<1>7. Cats(z, y, e) /\ z \in Seq(Events)
  BY <1>5, <1>6, CatsIs
<1> HIDE DEF z
<1> DEFINE Result(s, k) ==
      \E i \in 1 .. Len(new) : /\ k = Len(q) + i /\ s[k].type = "tool_result"
                               /\ s[k].turn = replied /\ s[k].call = new[i].id
<1>8. ASSUME NEW k \in 1 .. Len(x) PROVE x[k].type = "note" \/ Result(x, k)
  <2>1. CASE k \in 1 .. Len(q) /\ x[k] = q[k]
    BY <2>1, <1>3
  <2>2. CASE \E i \in 1 .. Len(b) : k = Len(q) + i /\ x[k] = b[i]
    BY <2>2, <1>1
  <2> QED
    BY <2>1, <2>2, <1>4 DEF Cats
<1>9. ASSUME NEW k \in 1 .. Len(y) PROVE y[k].type = "note" \/ Result(y, k)
  <2>1. CASE k \in 1 .. Len(x) /\ y[k] = x[k]
    BY <2>1, <1>8
  <2>2. CASE \E i \in 1 .. Len(o) : k = Len(x) + i /\ y[k] = o[i]
    BY <2>2, <1>3
  <2> QED
    BY <2>1, <2>2, <1>5 DEF Cats
<1>10. Len(z) = Len(y) + 1 /\ Len(y) \in Nat /\ Len(z) \in 1 .. Len(z) /\ Len(z) >= 1
  BY <1>6, <1>7 DEF Cats
<1>11. ASSUME NEW k \in 1 .. Len(z) PROVE (k \in 1 .. Len(y) /\ z[k] = y[k]) \/ (k = Len(z) /\ z[k] = d)
  <2>1. CASE k \in 1 .. Len(y) /\ z[k] = y[k]
    BY <2>1
  <2>2. CASE \E i \in 1 .. Len(e) : k = Len(y) + i /\ z[k] = e[i]
    BY <2>2, <1>6, <1>10
  <2> QED
    BY <2>1, <2>2, <1>7 DEF Cats
<1>12. ASSUME NEW k \in 1 .. Len(z) PROVE RequestLine(z, Len(q), new, replied, turn, k)
  <2>1. CASE k \in 1 .. Len(y) /\ z[k] = y[k]
    BY <2>1, <1>9 DEF RequestLine
  <2>2. CASE k = Len(z) /\ z[k] = d
    BY <2>2, <1>2 DEF RequestLine
  <2> QED
    BY <2>1, <2>2, <1>11
<1>13. z[Len(z)] = d
  <2>1. ~(Len(z) \in 1 .. Len(y))
    BY <1>10
  <2> QED
    BY <2>1, <1>10, <1>11
<1>14. RequestRecords(z, Len(q), new, replied, turn)
  BY <1>2, <1>3, <1>7, <1>10, <1>12, <1>13 DEF RequestRecords
<1> QED
  BY <1>14 DEF z, y, x, b, d, e

------------------------------------------------------------------------------
\* The run a request leaves.
NewResults(R, hist) == results(R, toolResults(hist.echoed, R.replied.calls))
ToldOf(R, cls) ==
  IF client.hinted /\ cls = "compaction" THEN <<Event(R.turn + 1, "note", 0)>> ELSE <<>>
RequestEvents(R, cls, hist) ==
  ((flush(R) \o ResultEvents(R.replied.turn, NewResults(R, hist))) \o ToldOf(R, cls))
    \o <<Event(R.turn + 1, "llm_request", 0)>>

RunFits(R) == R \in Runs /\ CallsFit(R) /\ R.resulted \subseteq 1 .. R.callSeq

\* Besides its results, a request records notes only.
LEMMA ToldIs ==
  ASSUME NEW R, R.turn \in Nat, NEW cls
  PROVE  Quiet(ToldOf(R, cls))
<1>1. "note" \in Types /\ 0 \in Nat /\ R.turn + 1 \in Nat
  BY DEF Types
<1> DEFINE d == Event(R.turn + 1, "note", 0)
<1>2. d \in Events /\ d.type = "note"
  BY <1>1, EventIs
<1> HIDE DEF d
<1>3. Quiet(<<d>>) /\ Quiet(<<>>)
  <2>1. <<d>> \in Seq(Events) /\ Len(<<d>>) = 1 /\ <<d>>[1] = d
    BY <1>2
  <2> QED
    BY <1>2, <2>1 DEF Quiet
<1> QED
  BY <1>3 DEF ToldOf, d

\* What a run is made of.
LEMMA RunParts ==
  ASSUME NEW R \in Runs
  PROVE  /\ R.key \in AnyKey /\ R.len \in Nat /\ R.active \in Nat /\ R.seq \in Nat /\ R.turn \in Nat
         /\ R.callSeq \in Nat /\ R.replied \in Replied /\ R.resulted \subseteq Nat
         /\ R.open \in BOOLEAN /\ R.pending \in BOOLEAN /\ R.notes \in Nat
         /\ R.replied.turn \in Nat /\ R.replied.calls \in Seq(Calls)
<1>1. R.replied \in Replied
  BY DEF Runs
<1>2. R.replied.turn \in Nat /\ R.replied.calls \in Seq(Calls)
  BY <1>1 DEF Replied
<1> QED
  BY <1>2 DEF Runs

Continued(Q, len, active, turn, ids) ==
  [Q EXCEPT !.len = len, !.active = active, !.turn = turn, !.pending = FALSE, !.notes = 0,
            !.resulted = @ \cup ids]

\* onRequest by its parts: the run it leaves and the events it records.
LEMMA OnRequestIs ==
  ASSUME NEW R, NEW cls, NEW hist
  PROVE  onRequest(R, cls, hist) =
           [run |-> Continued(Advanced(R, RequestEvents(R, cls, hist)), hist.len, tick + 1, R.turn + 1,
                              {NewResults(R, hist)[i].id : i \in DOMAIN NewResults(R, hist)}),
            events |-> Numbered(R, RequestEvents(R, cls, hist))]
BY DEF onRequest, RequestEvents, NewResults, ResultEvents, ToldOf, Continued

\* A run that recorded es has its seq that much further, and the rest as it was.
LEMMA AdvancedIs ==
  ASSUME NEW R \in Runs, NEW es, Len(es) \in Nat
  PROVE  LET Q == Advanced(R, es) IN
         /\ Q \in Runs /\ Q.seq = R.seq + Len(es) /\ Q.turn = R.turn /\ Q.active = R.active
         /\ Q.resulted = R.resulted /\ Q.pending = R.pending /\ Q.replied = R.replied
         /\ Q.callSeq = R.callSeq /\ Q.open = R.open
<1>1. R.seq \in Nat
  BY RunParts
<1>2. R.seq + Len(es) \in Nat
  BY <1>1
<1>3. [R EXCEPT !.seq = R.seq + Len(es)] \in Runs
  BY <1>2 DEF Runs
<1>4. Advanced(R, es) = [R EXCEPT !.seq = R.seq + Len(es)]
  BY DEF Advanced
<1> DEFINE Q == [R EXCEPT !.seq = R.seq + Len(es)]
<1>5. /\ Q.seq = R.seq + Len(es) /\ Q.turn = R.turn /\ Q.active = R.active
      /\ Q.resulted = R.resulted /\ Q.pending = R.pending /\ Q.replied = R.replied
      /\ Q.callSeq = R.callSeq /\ Q.open = R.open
  BY DEF Runs
<1> QED
  BY <1>3, <1>4, <1>5, Zenon

\* The run R2 a request leaves of Q.
Continues(Q, R2, active, turn, ids) ==
  /\ R2 \in Runs /\ R2.seq = Q.seq /\ R2.turn = turn /\ R2.active = active
  /\ R2.resulted = Q.resulted \cup ids /\ R2.pending = FALSE
  /\ R2.replied = Q.replied /\ R2.callSeq = Q.callSeq /\ R2.open = Q.open

\* What a request changes of its run.
LEMMA RequestRun ==
  ASSUME NEW Q \in Runs, NEW turn \in Nat, NEW len \in Nat, NEW active \in Nat,
         NEW ids \in SUBSET Nat, NEW R2, R2 = Continued(Q, len, active, turn, ids)
  PROVE  Continues(Q, R2, active, turn, ids)
<1>1. Q.resulted \cup ids \in SUBSET Nat
  BY RunParts
<1> DEFINE all == Q.resulted \cup ids
<1>2. all \in SUBSET Nat
  BY <1>1
<1>5. R2 = [Q EXCEPT !.len = len, !.active = active, !.turn = turn, !.pending = FALSE,
                     !.notes = 0, !.resulted = all]
  BY Zenon DEF Continued
<1> HIDE DEF all
<1> DEFINE Q2 == [Q EXCEPT !.len = len, !.active = active, !.turn = turn, !.pending = FALSE,
                           !.notes = 0, !.resulted = all]
<1>6. Q2 \in Runs
  BY <1>2 DEF Runs
<1>3. R2 \in Runs
  BY <1>5, <1>6, Zenon
<1>4. /\ R2.seq = Q.seq /\ R2.turn = turn /\ R2.active = active /\ R2.resulted = all
      /\ R2.pending = FALSE /\ R2.replied = Q.replied /\ R2.callSeq = Q.callSeq /\ R2.open = Q.open
  BY <1>5 DEF Runs
<1> QED
  BY <1>3, <1>4, Zenon DEF all, Continues

\* After onRequest the run is well-formed, one turn further, and its events fit: the new
\* turn waits for its outcome.
LEMMA AfterRequest ==
  ASSUME NEW R, RunFits(R), R.open = TRUE, NEW cls, NEW hist \in Histories, tick \in Nat,
         NEW T
  PROVE  LET out == onRequest(R, cls, hist) IN
         /\ RunFits(out.run) /\ out.run.open = TRUE /\ out.run.pending = FALSE
         /\ out.run.turn = R.turn + 1 /\ out.run.active = tick + 1
         /\ \E es \in Seq(Events) : /\ out.events = Numbered(R, es)
                                    /\ EventsFit(R, es, out.run, T, T \cup {R.turn + 1})
<1> DEFINE new == NewResults(R, hist)
           es == RequestEvents(R, cls, hist)
           ids == {new[i].id : i \in DOMAIN new}
           R2 == Continued(Advanced(R, es), hist.len, tick + 1, R.turn + 1, ids)
<1>1. onRequest(R, cls, hist) = [run |-> R2, events |-> Numbered(R, es)]
  BY OnRequestIs
<1>2. R \in Runs /\ CallsFit(R) /\ R.resulted \subseteq 1 .. R.callSeq
  BY DEF RunFits
<1>3. /\ R.turn \in Nat /\ R.replied.turn \in Nat /\ R.replied.calls \in Seq(Calls)
      /\ R.notes \in Nat /\ R.callSeq \in Nat
  BY <1>2, RunParts
<1>4. hist.len \in Nat /\ hist.echoed \in Seq(Wires)
  BY DEF Histories
<1>5. Distinct(R.replied.calls)
  BY <1>2 DEF CallsFit, Distinct
<1>6. Some(new, R.replied.calls) /\ Fresh(new, R.resulted)
  BY <1>3, <1>4, <1>5, ResultsAre DEF NewResults
<1>7. new \in Seq(Calls) /\ DOMAIN new = 1 .. Len(new) /\ Len(new) \in Nat
  <2> HIDE DEF new
  <2>1. new \in Seq(Calls)
    BY <1>6 DEF Some
  <2> QED
    BY <2>1
<1>8. RequestRecords(es, Len(flush(R)), new, R.replied.turn, R.turn + 1)
  <2> HIDE DEF new
  <2>1. Quiet(flush(R)) /\ Quiet(ToldOf(R, cls)) /\ R.turn + 1 \in Nat
    BY <1>3, FlushIs, ToldIs
  <2>2. RequestRecords(((flush(R) \o ResultEvents(R.replied.turn, new)) \o ToldOf(R, cls))
                         \o <<Event(R.turn + 1, "llm_request", 0)>>,
                       Len(flush(R)), new, R.replied.turn, R.turn + 1)
    BY <1>3, <1>7, <2>1, RequestBuilds
  <2> QED
    BY <2>2 DEF RequestEvents, new
<1>9. es \in Seq(Events) /\ Len(es) \in Nat
  <2> HIDE DEF es, new
  <2>1. es \in Seq(Events)
    BY <1>8 DEF RequestRecords
  <2> QED
    BY <2>1
<1>10. ids \subseteq 1 .. R.callSeq /\ ids \subseteq Nat /\ ids = IdsOf(new)
  <2> HIDE DEF new, es
  <2>1. ASSUME NEW i \in 1 .. Len(new) PROVE new[i].id \in 1 .. R.callSeq
    <3>1. PICK c \in 1 .. Len(R.replied.calls) : new[i] = R.replied.calls[c]
      BY <1>6 DEF Some
    <3> QED
      BY <3>1, <1>2 DEF CallsFit
  <2>2. ids = IdsOf(new)
    BY <1>7, Zenon DEF IdsOf
  <2>3. ids \subseteq 1 .. R.callSeq
    BY <2>1, <2>2 DEF IdsOf
  <2>4. ids \subseteq Nat
    BY <1>3, <2>3
  <2> QED
    BY <2>2, <2>3, <2>4
<1> HIDE DEF ids
<1>11. /\ DoneFits(es, TRUE) /\ RequestsFit(es, R.turn, R.turn + 1)
       /\ OutcomesFit(es, T, T \cup {R.turn + 1})
       /\ ResultsFit(es, R.replied, R.resulted, R.resulted \cup ids)
  <2> HIDE DEF new, es
  <2>1. RequestRecords(es, Len(flush(R)), new, R.replied.turn, R.turn + 1)
    BY <1>8
  <2>2. ids = IdsOf(new)
    BY <1>10
  <2> QED
    BY <1>3, <1>6, <2>1, <2>2, RequestFits
<1>12. /\ R2 \in Runs /\ R2.seq = R.seq + Len(es) /\ R2.turn = R.turn + 1 /\ R2.active = tick + 1
       /\ R2.resulted = R.resulted \cup ids /\ R2.pending = FALSE
       /\ R2.replied = R.replied /\ R2.callSeq = R.callSeq /\ R2.open = R.open
  <2> HIDE DEF es
  <2>1. tick + 1 \in Nat
    OBVIOUS
  <2> DEFINE Q == Advanced(R, es)
  <2>2. /\ Q \in Runs /\ Q.seq = R.seq + Len(es) /\ Q.turn = R.turn
        /\ Q.resulted = R.resulted /\ Q.replied = R.replied
        /\ Q.callSeq = R.callSeq /\ Q.open = R.open
    BY <1>2, <1>9, AdvancedIs
  <2>3. R.turn + 1 \in Nat /\ ids \in SUBSET Nat
    BY <1>3, <1>10
  <2>4. R2 = Continued(Q, hist.len, tick + 1, R.turn + 1, ids)
    BY DEF Q
  <2> HIDE DEF Q, R2
  <2>5. /\ R2 \in Runs /\ R2.seq = Q.seq /\ R2.turn = R.turn + 1 /\ R2.active = tick + 1
        /\ R2.resulted = Q.resulted \cup ids /\ R2.pending = FALSE
        /\ R2.replied = Q.replied /\ R2.callSeq = Q.callSeq /\ R2.open = Q.open
    <3> DEFINE len == hist.len
               now == tick + 1
               turn == R.turn + 1
    <3>1. len \in Nat /\ now \in Nat /\ turn \in Nat
      BY <1>4, <2>1, <2>3
    <3>2. R2 = Continued(Q, len, now, turn, ids)
      BY <2>4
    <3> HIDE DEF len, now, turn
    <3>3. Q \in Runs /\ ids \in SUBSET Nat
      BY <2>2, <2>3
    <3>4. Continues(Q, R2, now, turn, ids)
      BY <3>1, <3>2, <3>3, RequestRun, Zenon
    <3> QED
      BY <3>4, Zenon DEF now, turn, Continues
  <2> QED
    BY <2>2, <2>5, Zenon
<1> HIDE DEF R2, es, new
<1>13. RunFits(R2)
  BY <1>2, <1>3, <1>10, <1>12 DEF RunFits, CallsFit
<1>14. EventsFit(R, es, R2, T, T \cup {R.turn + 1})
  <2>1. R.turn <= R2.turn /\ R2.turn \in Nat /\ R.turn + 1 .. R2.turn = {R.turn + 1}
    BY <1>3, <1>12
  <2>2. R.resulted \subseteq R2.resulted
    BY <1>12
  <2>3. DoneFits(es, R2.open) /\ RequestsFit(es, R.turn, R2.turn)
    BY <1>11, <1>12
  <2>4. ResultsFit(es, R.replied, R.resulted, R2.resulted) /\ CallsMade(es, R.replied, R2.replied)
    BY <1>11, <1>12 DEF CallsMade
  <2> QED
    BY <1>3, <1>11, <1>12, <2>1, <2>2, <2>3, <2>4 DEF EventsFit
<1> DEFINE out == onRequest(R, cls, hist)
<1>15. out.run = R2 /\ out.events = Numbered(R, es)
  BY <1>1
<1> QED
  BY <1>9, <1>12, <1>13, <1>14, <1>15

------------------------------------------------------------------------------
\* What a reply records, and the run it leaves.
CallsOf(R, q) == [i \in DOMAIN q.calls |-> [id |-> R.callSeq + i, wire |-> q.calls[i]]]
CallEvents(turn, calls) == [i \in DOMAIN calls |-> Event(turn, "tool_call", calls[i].id)]
Answer(R, turn, calls) ==
  [R EXCEPT !.callSeq = @ + Len(calls), !.replied = [turn |-> turn, calls |-> calls]]

\* The calls of a reply get ids of their own, above those given out before.
LEMMA CallsOfAre ==
  ASSUME NEW R, R.callSeq \in Nat, NEW q, q.calls \in Seq(Wires)
  PROVE  /\ CallsOf(R, q) \in Seq(Calls) /\ Distinct(CallsOf(R, q))
         /\ \A i \in 1 .. Len(CallsOf(R, q)) :
              CallsOf(R, q)[i].id \in 1 .. R.callSeq + Len(CallsOf(R, q))
<1> DEFINE s == CallsOf(R, q)
           n == Len(q.calls)
<1>1. DOMAIN q.calls = 1 .. n /\ n \in Nat
  OBVIOUS
<1>2. ASSUME NEW i \in 1 .. n PROVE [id |-> R.callSeq + i, wire |-> q.calls[i]] \in Calls
  <2>1. q.calls[i] \in Wires
    OBVIOUS
  <2>2. R.callSeq + i \in Nat
    BY <1>1
  <2> QED
    BY <2>1, <2>2 DEF Calls
<1>3. s \in [1 .. n -> Calls]
  BY <1>1, <1>2, Zenon DEF CallsOf
<1>4. \A i \in 1 .. n : s[i] = [id |-> R.callSeq + i, wire |-> q.calls[i]]
  BY <1>1, Zenon DEF CallsOf
<1> HIDE DEF s
<1>5. s \in Seq(Calls) /\ Len(s) = n
  BY <1>1, <1>3
<1>6. ASSUME NEW i \in 1 .. n PROVE s[i].id = R.callSeq + i
  <2>1. s[i] = [id |-> R.callSeq + i, wire |-> q.calls[i]]
    BY <1>4, Zenon
  <2> QED
    BY <2>1
<1>7. Distinct(s)
  BY <1>1, <1>5, <1>6 DEF Distinct
<1>8. \A i \in 1 .. Len(s) : s[i].id \in 1 .. R.callSeq + Len(s)
  BY <1>1, <1>5, <1>6
<1> QED
  BY <1>5, <1>7, <1>8 DEF s

ReplyRecords(es, turn, calls) ==
  /\ es \in Seq(Events) /\ Len(es) \in Nat /\ Len(calls) \in Nat
  /\ \A k \in 1 .. Len(es) :
       \/ k = 1 /\ es[k].type = "llm_response" /\ es[k].turn = turn
       \/ es[k].type = "tool_call"
  /\ \A i \in 1 .. Len(calls) : \E k \in 1 .. Len(es) :
       es[k].type = "tool_call" /\ es[k].turn = turn /\ es[k].call = calls[i].id

\* A response and its calls make what a reply records.
LEMMA ReplyBuilds ==
  ASSUME NEW turn \in Nat, NEW calls \in Seq(Calls)
  PROVE  ReplyRecords(<<Event(turn, "llm_response", 0)>> \o CallEvents(turn, calls), turn, calls)
<1> DEFINE d == Event(turn, "llm_response", 0)
           e == <<d>>
           b == CallEvents(turn, calls)
           z == e \o b
<1>1. DOMAIN calls = 1 .. Len(calls) /\ Len(calls) \in Nat
  OBVIOUS
<1>2. ASSUME NEW i \in 1 .. Len(calls)
      PROVE  LET v == Event(turn, "tool_call", calls[i].id) IN
             v \in Events /\ v.type = "tool_call" /\ v.turn = turn /\ v.call = calls[i].id
  <2>1. calls[i] \in Calls
    OBVIOUS
  <2>2. calls[i].id \in Nat /\ "tool_call" \in Types
    BY <2>1 DEF Calls, Types
  <2> QED
    BY <2>2, EventIs
<1>3. b \in [1 .. Len(calls) -> Events]
  BY <1>1, <1>2, Zenon DEF CallEvents
<1>4. \A i \in 1 .. Len(calls) : b[i] = Event(turn, "tool_call", calls[i].id)
  BY <1>1, Zenon DEF CallEvents
<1>5. \A i \in 1 .. Len(calls) : b[i].type = "tool_call" /\ b[i].turn = turn /\ b[i].call = calls[i].id
  BY <1>2, <1>4
<1> HIDE DEF b
<1>6. b \in Seq(Events) /\ Len(b) = Len(calls)
  BY <1>1, <1>3
<1>7. d \in Events /\ d.type = "llm_response" /\ d.turn = turn
  <2>1. "llm_response" \in Types /\ 0 \in Nat
    BY DEF Types
  <2> QED
    BY <2>1, EventIs
<1> HIDE DEF d
<1>8. e \in Seq(Events) /\ Len(e) = 1 /\ e[1] = d
  BY <1>7
<1> HIDE DEF e
<1>13. /\ z \in Seq(Events) /\ Len(z) = Len(e) + Len(b)
       /\ \A i \in 1 .. Len(e) : z[i] = e[i]
       /\ \A i \in 1 .. Len(b) : z[Len(e) + i] = b[i]
  <2>1. Joins(z, e, b)
    BY <1>6, <1>8, JoinsIs
  <2> HIDE DEF z
  <2> QED
    BY <2>1 DEF Joins
<1> HIDE DEF z
<1>9. /\ z \in Seq(Events) /\ Len(z) = 1 + Len(calls) /\ z[1] = d
      /\ \A i \in 1 .. Len(calls) : z[1 + i] = b[i]
  BY <1>1, <1>6, <1>8, <1>13
<1>10. ASSUME NEW k \in 1 .. Len(z)
       PROVE  \/ k = 1 /\ z[k].type = "llm_response" /\ z[k].turn = turn
              \/ z[k].type = "tool_call"
  <2>1. CASE k = 1
    BY <2>1, <1>7, <1>9
  <2>2. CASE k # 1
    <3>1. k - 1 \in 1 .. Len(calls) /\ k = 1 + (k - 1)
      BY <2>2, <1>1, <1>9
    <3> QED
      BY <3>1, <1>5, <1>9
  <2> QED
    BY <2>1, <2>2
<1>11. ASSUME NEW i \in 1 .. Len(calls)
       PROVE  \E k \in 1 .. Len(z) : z[k].type = "tool_call" /\ z[k].turn = turn /\ z[k].call = calls[i].id
  <2>1. 1 + i \in 1 .. Len(z) /\ z[1 + i] = b[i]
    BY <1>1, <1>9
  <2> QED
    BY <2>1, <1>5
<1>12. ReplyRecords(z, turn, calls)
  BY <1>1, <1>9, <1>10, <1>11 DEF ReplyRecords
<1> QED
  BY <1>12 DEF z, e, b, d

\* What a reply records fits the run: one outcome, of a turn that waits, and its calls.
LEMMA ReplyFits ==
  ASSUME NEW es, NEW turn \in Nat, NEW calls, ReplyRecords(es, turn, calls),
         NEW T, turn \in T, NEW now \in Nat, NEW replied, NEW ids
  PROVE  /\ DoneFits(es, TRUE) /\ RequestsFit(es, now, now) /\ OutcomesFit(es, T, T \ {turn})
         /\ ResultsFit(es, replied, ids, ids)
         /\ CallsMade(es, replied, [turn |-> turn, calls |-> calls])
<1>1. ASSUME NEW k \in 1 .. Len(es)
      PROVE  /\ es[k].type # "done" /\ es[k].type # "llm_request" /\ es[k].type # "tool_result"
             /\ es[k].type \in Outcomes => k = 1 /\ es[k].turn = turn
  BY DEF ReplyRecords, Outcomes
<1>2. now + 1 .. now = {}
  OBVIOUS
<1>3. CallsMade(es, replied, [turn |-> turn, calls |-> calls])
  BY DEF CallsMade, ReplyRecords
<1> QED
  BY <1>1, <1>2, <1>3 DEF DoneFits, RequestsFit, OutcomesFit, ResultsFit

\* Notes only, and one error.
LEMMA QuietFits ==
  ASSUME NEW es, Quiet(es), NEW open, NEW T, NEW now \in Nat, NEW replied, NEW ids
  PROVE  /\ DoneFits(es, open) /\ RequestsFit(es, now, now) /\ OutcomesFit(es, T, T)
         /\ ResultsFit(es, replied, ids, ids) /\ CallsMade(es, replied, replied)
<1>1. now + 1 .. now = {}
  OBVIOUS
<1>2. ASSUME NEW k \in 1 .. Len(es)
      PROVE  /\ es[k].type # "done" /\ es[k].type # "llm_request" /\ es[k].type # "tool_result"
             /\ es[k].type \notin Outcomes
  BY DEF Quiet, Outcomes
<1> QED
  BY <1>1, <1>2 DEF DoneFits, RequestsFit, OutcomesFit, ResultsFit, CallsMade

\* An error is one outcome of a turn that waits.
LEMMA ErrorFits ==
  ASSUME NEW turn \in Nat, NEW T, turn \in T, NEW now \in Nat, NEW replied, NEW ids
  PROVE  LET es == <<Event(turn, "error", 0)>> IN
         /\ es \in Seq(Events) /\ Len(es) \in Nat
         /\ DoneFits(es, TRUE) /\ RequestsFit(es, now, now) /\ OutcomesFit(es, T, T \ {turn})
         /\ ResultsFit(es, replied, ids, ids) /\ CallsMade(es, replied, replied)
<1> DEFINE d == Event(turn, "error", 0)
           es == <<d>>
<1>1. d \in Events /\ d.type = "error" /\ d.turn = turn
  <2>1. "error" \in Types /\ 0 \in Nat
    BY DEF Types
  <2> QED
    BY <2>1, EventIs
<1> HIDE DEF d
<1>2. es \in Seq(Events) /\ Len(es) = 1 /\ es[1] = d
  BY <1>1
<1> HIDE DEF es
<1>3. now + 1 .. now = {}
  OBVIOUS
<1>4. ASSUME NEW k \in 1 .. Len(es)
      PROVE  k = 1 /\ es[k].type = "error" /\ es[k].turn = turn
  BY <1>1, <1>2
<1>5. DoneFits(es, TRUE) /\ RequestsFit(es, now, now)
  BY <1>3, <1>4 DEF DoneFits, RequestsFit
<1>6. OutcomesFit(es, T, T \ {turn})
  BY <1>4 DEF OutcomesFit
<1>7. ResultsFit(es, replied, ids, ids) /\ CallsMade(es, replied, replied)
  BY <1>4 DEF ResultsFit, CallsMade
<1> QED
  BY <1>2, <1>5, <1>6, <1>7 DEF es, d

\* The turns that wait for an outcome after request q has its own.
Settled(T, q) == IF q.cls = "auxiliary" THEN T ELSE T \ {q.turn}

\* R2 is R after the events es of a reply to q.
Replies(R, es, R2, T, q) ==
  /\ RunFits(R2) /\ R2.open = TRUE /\ R2.pending = R.pending /\ R2.turn = R.turn
  /\ R2.active = R.active
  /\ es \in Seq(Events) /\ EventsFit(R, es, R2, T, Settled(T, q))

\* The reply to an auxiliary request of a run that is pending records nothing yet.
LEMMA NotesOnly ==
  ASSUME NEW R, RunFits(R), R.open = TRUE, R.notes \in Nat, NEW T, NEW q, q.cls = "auxiliary"
  PROVE  /\ Replies(R, <<>>, [R EXCEPT !.notes = @ + 1], T, q)
         /\ Numbered(R, <<>>) = <<>>
<1> DEFINE n == R.notes + 1
           R2 == [R EXCEPT !.notes = n]
<1>1. R \in Runs /\ CallsFit(R) /\ R.resulted \subseteq 1 .. R.callSeq /\ n \in Nat
  BY DEF RunFits
<1>2. R.turn \in Nat /\ R.seq \in Nat
  BY <1>1, RunParts
<1> HIDE DEF n
<1>3. /\ R2 \in Runs /\ R2.seq = R.seq /\ R2.turn = R.turn /\ R2.active = R.active
      /\ R2.resulted = R.resulted /\ R2.pending = R.pending /\ R2.replied = R.replied
      /\ R2.callSeq = R.callSeq /\ R2.open = R.open
  BY <1>1 DEF Runs
<1> HIDE DEF R2
<1>4. RunFits(R2)
  BY <1>1, <1>3 DEF RunFits, CallsFit
<1>5. <<>> \in Seq(Events) /\ Len(<<>>) = 0 /\ Quiet(<<>>)
  BY DEF Quiet
<1>6. EventsFit(R, <<>>, R2, T, Settled(T, q))
  <2>1. /\ DoneFits(<<>>, R2.open) /\ RequestsFit(<<>>, R.turn, R.turn) /\ OutcomesFit(<<>>, T, T)
        /\ ResultsFit(<<>>, R.replied, R.resulted, R.resulted) /\ CallsMade(<<>>, R.replied, R.replied)
    BY <1>2, <1>5, QuietFits
  <2>2. Settled(T, q) = T
    BY DEF Settled
  <2>3. R2.seq = R.seq + Len(<<>>) /\ R.turn <= R2.turn
    BY <1>2, <1>3, <1>5
  <2> QED
    BY <1>2, <1>3, <2>1, <2>2, <2>3 DEF EventsFit
<1>7. Replies(R, <<>>, R2, T, q)
  BY <1>3, <1>4, <1>5, <1>6 DEF Replies
<1>8. Numbered(R, <<>>) = <<>>
  BY DEF Numbered
<1> QED
  BY <1>7, <1>8 DEF R2, n

\* The reply to an auxiliary request of a run that has turns records a note.
LEMMA OneNote ==
  ASSUME NEW R, RunFits(R), R.open = TRUE, NEW T, NEW q, q.cls = "auxiliary"
  PROVE  LET es == <<Event(R.turn, "note", 0)>> IN Replies(R, es, Advanced(R, es), T, q)
<1> DEFINE d == Event(R.turn, "note", 0)
           es == <<d>>
           R2 == Advanced(R, es)
<1>1. R \in Runs /\ CallsFit(R) /\ R.resulted \subseteq 1 .. R.callSeq
  BY DEF RunFits
<1>2. R.turn \in Nat /\ R.seq \in Nat
  BY <1>1, RunParts
<1>3. d \in Events /\ d.type = "note"
  <2>1. "note" \in Types /\ 0 \in Nat
    BY DEF Types
  <2> QED
    BY <1>2, <2>1, EventIs
<1> HIDE DEF d
<1>4. es \in Seq(Events) /\ Len(es) = 1 /\ es[1] = d
  BY <1>3
<1> HIDE DEF es
<1>5. Quiet(es) /\ Len(es) \in Nat
  BY <1>3, <1>4 DEF Quiet
<1>6. /\ R2 \in Runs /\ R2.seq = R.seq + Len(es) /\ R2.turn = R.turn /\ R2.active = R.active
      /\ R2.resulted = R.resulted /\ R2.pending = R.pending /\ R2.replied = R.replied
      /\ R2.callSeq = R.callSeq /\ R2.open = R.open
  BY <1>1, <1>5, AdvancedIs
<1> HIDE DEF R2
<1>7. RunFits(R2)
  BY <1>1, <1>6 DEF RunFits, CallsFit
<1>8. EventsFit(R, es, R2, T, Settled(T, q))
  <2>1. /\ DoneFits(es, R2.open) /\ RequestsFit(es, R.turn, R.turn) /\ OutcomesFit(es, T, T)
        /\ ResultsFit(es, R.replied, R.resulted, R.resulted) /\ CallsMade(es, R.replied, R.replied)
    BY <1>2, <1>5, QuietFits
  <2>2. Settled(T, q) = T /\ R.turn <= R2.turn
    BY <1>2, <1>6 DEF Settled
  <2> QED
    BY <1>2, <1>6, <2>1, <2>2 DEF EventsFit
<1>9. Replies(R, es, R2, T, q)
  BY <1>4, <1>6, <1>7, <1>8 DEF Replies
<1> QED
  BY <1>9 DEF R2, es, d

\* A reply that failed or could not be read records an error.
LEMMA OneError ==
  ASSUME NEW R, RunFits(R), R.open = TRUE, NEW T, NEW q, q.cls # "auxiliary", q.turn \in Nat, q.turn \in T
  PROVE  LET es == <<Event(q.turn, "error", 0)>> IN Replies(R, es, Advanced(R, es), T, q)
<1> DEFINE es == <<Event(q.turn, "error", 0)>>
           R2 == Advanced(R, es)
<1>1. R \in Runs /\ CallsFit(R) /\ R.resulted \subseteq 1 .. R.callSeq
  BY DEF RunFits
<1>2. R.turn \in Nat /\ R.seq \in Nat
  BY <1>1, RunParts
<1>3. /\ es \in Seq(Events) /\ Len(es) \in Nat
      /\ DoneFits(es, TRUE) /\ RequestsFit(es, R.turn, R.turn) /\ OutcomesFit(es, T, T \ {q.turn})
      /\ ResultsFit(es, R.replied, R.resulted, R.resulted) /\ CallsMade(es, R.replied, R.replied)
  BY <1>2, ErrorFits
<1> HIDE DEF es
<1>6. /\ R2 \in Runs /\ R2.seq = R.seq + Len(es) /\ R2.turn = R.turn /\ R2.active = R.active
      /\ R2.resulted = R.resulted /\ R2.pending = R.pending /\ R2.replied = R.replied
      /\ R2.callSeq = R.callSeq /\ R2.open = R.open
  BY <1>1, <1>3, AdvancedIs
<1> HIDE DEF R2
<1>7. RunFits(R2)
  BY <1>1, <1>6 DEF RunFits, CallsFit
<1>8. EventsFit(R, es, R2, T, Settled(T, q))
  <2>2. Settled(T, q) = T \ {q.turn} /\ R.turn <= R2.turn
    BY <1>2, <1>6 DEF Settled
  <2> QED
    BY <1>2, <1>3, <1>6, <2>2 DEF EventsFit
<1>9. Replies(R, es, R2, T, q)
  BY <1>3, <1>6, <1>7, <1>8 DEF Replies
<1> QED
  BY <1>9 DEF R2, es

\* The run keeps the calls of its last reply.
LEMMA AnswerIs ==
  ASSUME NEW R, RunFits(R), NEW turn \in Nat, NEW calls \in Seq(Calls), Distinct(calls),
         \A i \in 1 .. Len(calls) : calls[i].id \in 1 .. R.callSeq + Len(calls)
  PROVE  LET Q == Answer(R, turn, calls) IN
         /\ RunFits(Q) /\ Q.seq = R.seq /\ Q.turn = R.turn /\ Q.active = R.active
         /\ Q.resulted = R.resulted /\ Q.pending = R.pending
         /\ Q.replied = [turn |-> turn, calls |-> calls] /\ Q.open = R.open
<1> DEFINE rep == [turn |-> turn, calls |-> calls]
           n == R.callSeq + Len(calls)
           Q == [R EXCEPT !.callSeq = n, !.replied = rep]
<1>1. R \in Runs /\ R.resulted \subseteq 1 .. R.callSeq
  BY DEF RunFits
<1>2. R.callSeq \in Nat /\ Len(calls) \in Nat
  BY <1>1, RunParts
<1>3. rep \in Replied /\ rep.calls = calls
  BY DEF Replied
<1>4. n \in Nat /\ 1 .. R.callSeq \subseteq 1 .. n
  BY <1>2
<1> HIDE DEF rep, n
<1>5. /\ Q \in Runs /\ Q.seq = R.seq /\ Q.turn = R.turn /\ Q.active = R.active
      /\ Q.resulted = R.resulted /\ Q.pending = R.pending /\ Q.replied = rep
      /\ Q.callSeq = n /\ Q.open = R.open
  BY <1>1, <1>3, <1>4 DEF Runs
<1>6. Answer(R, turn, calls) = Q
  BY DEF Answer, rep, n
<1> HIDE DEF Q
<1>7. CallsFit(Q)
  <2>1. Q.replied.calls = calls
    BY <1>3, <1>5
  <2>2. \A i \in 1 .. Len(calls) : calls[i].id \in 1 .. n
    BY DEF n
  <2> QED
    BY <1>5, <2>1, <2>2 DEF CallsFit, Distinct
<1>8. RunFits(Q)
  BY <1>1, <1>4, <1>5, <1>7 DEF RunFits
<1> QED
  BY <1>5, <1>6, <1>8 DEF rep

\* A reply that was read records its response and its calls.
LEMMA Reply ==
  ASSUME NEW R, RunFits(R), R.open = TRUE, NEW T, NEW q \in Requests, q.cls # "auxiliary", q.turn \in T
  PROVE  LET calls == CallsOf(R, q)
             es == <<Event(q.turn, "llm_response", 0)>> \o CallEvents(q.turn, calls)
         IN Replies(R, es, Advanced(Answer(R, q.turn, calls), es), T, q)
<1> DEFINE calls == CallsOf(R, q)
           es == <<Event(q.turn, "llm_response", 0)>> \o CallEvents(q.turn, calls)
           Q == Answer(R, q.turn, calls)
           R2 == Advanced(Q, es)
<1>1. R \in Runs /\ CallsFit(R) /\ R.resulted \subseteq 1 .. R.callSeq
  BY DEF RunFits
<1>2. R.turn \in Nat /\ R.seq \in Nat /\ R.callSeq \in Nat
  BY <1>1, RunParts
<1>3. q.turn \in Nat /\ q.calls \in Seq(Wires)
  BY DEF Requests
<1>4. /\ calls \in Seq(Calls) /\ Distinct(calls)
      /\ \A i \in 1 .. Len(calls) : calls[i].id \in 1 .. R.callSeq + Len(calls)
  BY <1>2, <1>3, CallsOfAre
<1> HIDE DEF calls
<1>5. ReplyRecords(es, q.turn, calls)
  BY <1>3, <1>4, ReplyBuilds
<1> HIDE DEF es
<1>6. es \in Seq(Events) /\ Len(es) \in Nat
  BY <1>5 DEF ReplyRecords
<1>7. /\ RunFits(Q) /\ Q.seq = R.seq /\ Q.turn = R.turn /\ Q.active = R.active
      /\ Q.resulted = R.resulted /\ Q.pending = R.pending
      /\ Q.replied = [turn |-> q.turn, calls |-> calls] /\ Q.open = R.open
  BY <1>3, <1>4, AnswerIs
<1> HIDE DEF Q
<1>8. /\ R2 \in Runs /\ R2.seq = Q.seq + Len(es) /\ R2.turn = Q.turn /\ R2.active = Q.active
      /\ R2.resulted = Q.resulted /\ R2.pending = Q.pending /\ R2.replied = Q.replied
      /\ R2.callSeq = Q.callSeq /\ R2.open = Q.open
  <2>1. Q \in Runs
    BY <1>7 DEF RunFits
  <2> QED
    BY <1>6, <2>1, AdvancedIs
<1> HIDE DEF R2
<1>9. RunFits(R2)
  BY <1>7, <1>8 DEF RunFits, CallsFit
<1>10. /\ DoneFits(es, TRUE) /\ RequestsFit(es, R.turn, R.turn) /\ OutcomesFit(es, T, T \ {q.turn})
       /\ ResultsFit(es, R.replied, R.resulted, R.resulted)
       /\ CallsMade(es, R.replied, [turn |-> q.turn, calls |-> calls])
  BY <1>2, <1>3, <1>5, ReplyFits
<1>11. EventsFit(R, es, R2, T, Settled(T, q))
  <2>1. R2.replied = [turn |-> q.turn, calls |-> calls]
    BY <1>7, <1>8
  <2>2. CallsMade(es, R.replied, R2.replied)
    BY <1>10, <2>1
  <2>3. Settled(T, q) = T \ {q.turn} /\ R.turn <= R2.turn /\ R2.turn = R.turn /\ R2.seq = R.seq + Len(es)
    BY <1>2, <1>7, <1>8 DEF Settled
  <2> QED
    BY <1>2, <1>7, <1>8, <1>10, <2>2, <2>3 DEF EventsFit
<1>12. Replies(R, es, R2, T, q)
  BY <1>6, <1>7, <1>8, <1>9, <1>11 DEF Replies
<1> QED
  BY <1>12 DEF R2, Q, es, calls

\* The events and the run that onReply gives for a reply to q.
Answers(R, out, T, q) ==
  \E es : /\ out.events = Numbered(R, es)
          /\ Replies(R, es, out.run, T, q)
          /\ q.cls = "auxiliary" /\ R.pending = TRUE => out.events = <<>>

\* After onReply the run's events fit, and the turn of the request has its outcome; before
\* the run has turns, nothing is recorded.
LEMMA AfterReply ==
  ASSUME NEW R, RunFits(R), R.open = TRUE, NEW q \in Requests, NEW ok \in BOOLEAN,
         NEW T, q.cls # "auxiliary" => q.turn \in T
  PROVE  Answers(R, onReply(R, q, ok), T, q)
<1> SUFFICES \E es : /\ onReply(R, q, ok).events = Numbered(R, es)
                     /\ Replies(R, es, onReply(R, q, ok).run, T, q)
                     /\ q.cls = "auxiliary" /\ R.pending = TRUE => onReply(R, q, ok).events = <<>>
  BY Zenon DEF Answers
<1> DEFINE calls == CallsOf(R, q)
           note == <<Event(R.turn, "note", 0)>>
           error == <<Event(q.turn, "error", 0)>>
           reply == <<Event(q.turn, "llm_response", 0)>> \o CallEvents(q.turn, calls)
<1>1. R \in Runs /\ q.turn \in Nat
  BY DEF RunFits, Requests
<1>2. R.notes \in Nat /\ R.pending \in BOOLEAN
  BY <1>1, RunParts
<1>3. CASE q.cls = "auxiliary" /\ R.pending = TRUE
  <2>1. onReply(R, q, ok) = [run |-> [R EXCEPT !.notes = @ + 1], events |-> <<>>]
    BY <1>3, Zenon DEF onReply
  <2>2. Replies(R, <<>>, [R EXCEPT !.notes = @ + 1], T, q) /\ Numbered(R, <<>>) = <<>>
    BY <1>2, <1>3, NotesOnly
  <2>3. onReply(R, q, ok).run = [R EXCEPT !.notes = @ + 1] /\ onReply(R, q, ok).events = <<>>
    BY <2>1
  <2> QED
    BY <2>2, <2>3, Zenon
<1>4. CASE q.cls = "auxiliary" /\ R.pending = FALSE
  <2>5. q.cls = "auxiliary" /\ ~R.pending /\ R.open
    BY <1>4
  <2>1. onReply(R, q, ok) = [run |-> Advanced(R, note), events |-> Numbered(R, note)]
    BY <2>5, Zenon DEF onReply
  <2>2. Replies(R, note, Advanced(R, note), T, q)
    BY <1>4, OneNote DEF note
  <2>3. onReply(R, q, ok).run = Advanced(R, note) /\ onReply(R, q, ok).events = Numbered(R, note)
    BY <2>1
  <2>4. ~(R.pending = TRUE)
    BY <1>4
  <2> QED
    BY <2>2, <2>3, <2>4, Zenon
<1>5. CASE q.cls # "auxiliary" /\ ok = TRUE
  <2>1. onReply(R, q, ok) = [run |-> Advanced(Answer(R, q.turn, calls), reply), events |-> Numbered(R, reply)]
    BY <1>5, Zenon DEF onReply, CallsOf, CallEvents, Answer
  <2>2. Replies(R, reply, Advanced(Answer(R, q.turn, calls), reply), T, q)
    BY <1>5, Reply
  <2> HIDE DEF reply, calls
  <2>3. /\ onReply(R, q, ok).run = Advanced(Answer(R, q.turn, calls), reply)
        /\ onReply(R, q, ok).events = Numbered(R, reply)
    BY <2>1
  <2> QED
    BY <1>5, <2>2, <2>3, Zenon
<1>6. CASE q.cls # "auxiliary" /\ ok = FALSE
  <2>1. onReply(R, q, ok) = [run |-> Advanced(R, error), events |-> Numbered(R, error)]
    BY <1>6, Zenon DEF onReply
  <2>2. Replies(R, error, Advanced(R, error), T, q)
    BY <1>1, <1>6, OneError
  <2> HIDE DEF error
  <2>3. onReply(R, q, ok).run = Advanced(R, error) /\ onReply(R, q, ok).events = Numbered(R, error)
    BY <2>1
  <2> QED
    BY <1>6, <2>2, <2>3, Zenon
<1> QED
  BY <1>2, <1>3, <1>4, <1>5, <1>6

\* The run that close leaves, and what it records.
Closed(R) == [R EXCEPT !.open = FALSE, !.pending = FALSE, !.notes = 0]

\* close records the end of the run and no outcome.
LEMMA AfterClose ==
  ASSUME NEW R, RunFits(R), R.open = TRUE
  PROVE  /\ RunFits(Closed(R)) /\ Closed(R).pending = FALSE /\ Closed(R).turn = R.turn
         /\ Closed(R).active = R.active
         /\ \E es \in Seq(Events) : /\ closing(R) = Numbered(R, es)
                                    /\ EventsFit(R, es, Closed(R), {}, {})
<1> DEFINE d == Event(R.turn, "done", 0)
           q == flush(R)
           es == Append(q, d)
           R2 == [R EXCEPT !.open = FALSE, !.pending = FALSE, !.notes = 0]
<1>1. R \in Runs /\ CallsFit(R) /\ R.resulted \subseteq 1 .. R.callSeq
  BY DEF RunFits
<1>2. R.turn \in Nat /\ R.seq \in Nat /\ R.notes \in Nat
  BY <1>1, RunParts
<1>3. d \in Events /\ d.type = "done"
  <2>1. "done" \in Types /\ 0 \in Nat
    BY DEF Types
  <2> QED
    BY <1>2, <2>1, EventIs
<1>4. q \in Seq(Events) /\ \A i \in 1 .. Len(q) : q[i].type = "note"
  BY <1>2, FlushIs DEF Quiet
<1> HIDE DEF d, q
<1>5. /\ es \in Seq(Events) /\ Len(es) = Len(q) + 1 /\ Len(q) \in Nat
      /\ \A i \in 1 .. Len(q) : es[i] = q[i]
      /\ es[Len(q) + 1] = d
  BY <1>3, <1>4
<1> HIDE DEF es
<1>6. /\ R2 \in Runs /\ R2.seq = R.seq /\ R2.turn = R.turn /\ R2.active = R.active
      /\ R2.resulted = R.resulted /\ R2.pending = FALSE /\ R2.replied = R.replied
      /\ R2.callSeq = R.callSeq /\ R2.open = FALSE
  BY <1>1 DEF Runs
<1>7. Closed(R) = R2
  BY DEF Closed
<1> HIDE DEF R2
<1>8. RunFits(R2)
  BY <1>1, <1>6 DEF RunFits, CallsFit
<1>9. ASSUME NEW k \in 1 .. Len(es)
      PROVE  es[k].type = "note" \/ (k = Len(es) /\ es[k].type = "done")
  <2>1. CASE k <= Len(q)
    BY <2>1, <1>4, <1>5
  <2>2. CASE k > Len(q)
    BY <2>2, <1>3, <1>5
  <2> QED
    BY <2>1, <2>2, <1>5
<1>10. R.turn + 1 .. R.turn = {}
  BY <1>2
<1>11. DoneFits(es, R2.open) /\ RequestsFit(es, R.turn, R2.turn) /\ OutcomesFit(es, {}, {})
  BY <1>6, <1>9, <1>10 DEF DoneFits, RequestsFit, OutcomesFit, Outcomes
<1>12. ResultsFit(es, R.replied, R.resulted, R2.resulted) /\ CallsMade(es, R.replied, R2.replied)
  BY <1>6, <1>9 DEF ResultsFit, CallsMade
<1>13. EventsFit(R, es, R2, {}, {})
  <2>1. R.turn <= R2.turn
    BY <1>2, <1>6
  <2> QED
    BY <1>2, <1>6, <1>11, <1>12, <2>1 DEF EventsFit
<1>14. closing(R) = Numbered(R, es)
  BY DEF closing, es, q, d
<1> QED
  BY <1>5, <1>6, <1>7, <1>8, <1>13, <1>14

------------------------------------------------------------------------------
\* The requests in flight.
LiveIn(Q) == {k \in 1 .. Len(Q) : Q[k].st # "gone"}
Asks(Q, r) == {k \in LiveIn(Q) : Q[k].run = r /\ Q[k].cls # "auxiliary"}
TurnsOf(Q, r) == {Q[k].turn : k \in Asks(Q, r)}

\* A live request is of a run, and one that is recorded has a turn of its own.
RequestsLinked(Q, rs) ==
  /\ \A k \in 1 .. Len(Q) : Q[k].st = "gone" => Q[k].run = 0
  /\ \A k \in LiveIn(Q) :
       /\ Q[k].run \in 1 .. Len(rs)
       /\ Q[k].cls # "auxiliary" => Q[k].turn \in 1 .. rs[Q[k].run].turn
  /\ \A k, m \in LiveIn(Q) :
       Q[k].run = Q[m].run /\ Q[k].turn = Q[m].turn /\ Q[k].cls # "auxiliary" /\ Q[m].cls # "auxiliary"
         => k = m

\* The same requests, of which some went another step on.
SameRequests(Q, Q2) ==
  /\ Len(Q2) = Len(Q)
  /\ \A k \in 1 .. Len(Q) : /\ Q2[k].run = Q[k].run /\ Q2[k].turn = Q[k].turn /\ Q2[k].cls = Q[k].cls
                            /\ Q2[k].st = "gone" <=> Q[k].st = "gone"

\* Requests that only went another step on leave the turns that wait as they are.
LEMMA SameKeeps ==
  ASSUME NEW Q, NEW Q2, SameRequests(Q, Q2), NEW rs, RequestsLinked(Q, rs)
  PROVE  RequestsLinked(Q2, rs) /\ (\A r : TurnsOf(Q2, r) = TurnsOf(Q, r)) /\ LiveIn(Q2) = LiveIn(Q)
<1>1. LiveIn(Q2) = LiveIn(Q)
  BY DEF LiveIn, SameRequests
<1>2. \A k \in LiveIn(Q) : Q2[k].run = Q[k].run /\ Q2[k].turn = Q[k].turn /\ Q2[k].cls = Q[k].cls
  BY DEF LiveIn, SameRequests
<1>3. ASSUME NEW r PROVE TurnsOf(Q2, r) = TurnsOf(Q, r)
  <2>1. Asks(Q2, r) = Asks(Q, r) /\ Asks(Q, r) \subseteq LiveIn(Q)
    BY <1>1, <1>2 DEF Asks
  <2> QED
    BY <1>2, <2>1 DEF TurnsOf
<1>4. RequestsLinked(Q2, rs)
  <2>1. \A k \in 1 .. Len(Q2) : Q2[k].st = "gone" => Q2[k].run = 0
    BY DEF SameRequests, RequestsLinked
  <2> QED
    BY <1>1, <1>2, <2>1 DEF RequestsLinked
<1> QED
  BY <1>1, <1>3, <1>4

\* The runs go on, and none is lost.
RunsGoOn(rs, rs2) ==
  /\ Len(rs) \in Nat /\ Len(rs2) \in Nat /\ Len(rs) <= Len(rs2)
  /\ \A r \in 1 .. Len(rs) : rs[r].turn \in Nat /\ rs2[r].turn \in Nat /\ rs[r].turn <= rs2[r].turn

\* Runs that went on still have the requests they had.
LEMMA LinkedGoesOn ==
  ASSUME NEW Q, NEW rs, NEW rs2, RequestsLinked(Q, rs), RunsGoOn(rs, rs2)
  PROVE  RequestsLinked(Q, rs2)
<1>1. ASSUME NEW k \in LiveIn(Q)
      PROVE  /\ Q[k].run \in 1 .. Len(rs2)
             /\ Q[k].cls # "auxiliary" => Q[k].turn \in 1 .. rs2[Q[k].run].turn
  <2>1. /\ Q[k].run \in 1 .. Len(rs)
        /\ Q[k].cls # "auxiliary" => Q[k].turn \in 1 .. rs[Q[k].run].turn
    BY DEF RequestsLinked
  <2>2. /\ rs[Q[k].run].turn \in Nat /\ rs2[Q[k].run].turn \in Nat
        /\ rs[Q[k].run].turn <= rs2[Q[k].run].turn
    BY <2>1 DEF RunsGoOn
  <2>3. Q[k].run \in 1 .. Len(rs2)
    BY <2>1 DEF RunsGoOn
  <2> QED
    BY <2>1, <2>2, <2>3
<1> QED
  BY <1>1 DEF RequestsLinked

\* The turns that wait for an outcome when q has come too.
Waits(T, q) == IF q.cls = "auxiliary" THEN T ELSE T \cup {q.turn}

\* The requests Q become Q2, of which only run r's wait for other turns, T2.
Moved(Q, Q2, r, T2) == TurnsOf(Q2, r) = T2 /\ \A s : s # r => TurnsOf(Q2, s) = TurnsOf(Q, s)

\* A request that came waits for the outcome of its turn, and no other run waits for more.
LEMMA ArrivalTurns ==
  ASSUME NEW Q, Q \in Seq(Requests), NEW q \in Requests, q.st = "sent"
  PROVE  Moved(Q, Append(Q, q), q.run, Waits(TurnsOf(Q, q.run), q))
<1> DEFINE Q2 == Append(Q, q)
           n == Len(Q) + 1
<1>1. /\ Len(Q2) = n /\ n \in 1 .. n /\ Q2[n] = q /\ n \notin 1 .. Len(Q)
      /\ \A k \in 1 .. Len(Q) : Q2[k] = Q[k]
      /\ 1 .. n = (1 .. Len(Q)) \cup {n}
  OBVIOUS
<1> HIDE DEF Q2, n
<1>2. LiveIn(Q2) = LiveIn(Q) \cup {n} /\ n \notin LiveIn(Q)
  BY <1>1 DEF LiveIn
<1>3. \A k \in LiveIn(Q) : Q2[k] = Q[k]
  BY <1>1 DEF LiveIn
<1>4. ASSUME NEW r, r # q.run PROVE TurnsOf(Q2, r) = TurnsOf(Q, r)
  <2>1. Asks(Q2, r) = Asks(Q, r)
    BY <1>1, <1>2, <1>3, <1>4 DEF Asks
  <2> QED
    BY <1>3, <2>1 DEF TurnsOf, Asks
<1>5. TurnsOf(Q2, q.run) = Waits(TurnsOf(Q, q.run), q)
  <2>1. CASE q.cls = "auxiliary"
    <3>1. Asks(Q2, q.run) = Asks(Q, q.run)
      BY <1>1, <1>2, <1>3, <2>1 DEF Asks
    <3> QED
      BY <1>3, <2>1, <3>1 DEF TurnsOf, Asks, Waits
  <2>2. CASE q.cls # "auxiliary"
    <3>1. Asks(Q2, q.run) = Asks(Q, q.run) \cup {n}
      BY <1>1, <1>2, <1>3, <2>2 DEF Asks
    <3> QED
      BY <1>1, <1>3, <2>2, <3>1 DEF TurnsOf, Asks, Waits
  <2> QED
    BY <2>1, <2>2
<1> QED
  BY <1>4, <1>5 DEF Moved, Q2

\* A request with a turn above those of its run's other requests is linked to it.
LEMMA ArrivalLinked ==
  ASSUME NEW Q, Q \in Seq(Requests), NEW rs, NEW rs2, RequestsLinked(Q, rs), RunsGoOn(rs, rs2),
         NEW q \in Requests, q.st = "sent", q.run \in 1 .. Len(rs2),
         q.cls # "auxiliary" => /\ q.turn = rs2[q.run].turn /\ q.turn \in Nat /\ q.turn >= 1
                                /\ q.run \in 1 .. Len(rs) => rs[q.run].turn < q.turn
  PROVE  RequestsLinked(Append(Q, q), rs2)
<1> DEFINE Q2 == Append(Q, q)
           n == Len(Q) + 1
<1>1. /\ Len(Q2) = n /\ n \in 1 .. n /\ Q2[n] = q /\ n \notin 1 .. Len(Q)
      /\ \A k \in 1 .. Len(Q) : Q2[k] = Q[k]
      /\ 1 .. n = (1 .. Len(Q)) \cup {n}
  OBVIOUS
<1> HIDE DEF Q2, n
<1>2. LiveIn(Q2) = LiveIn(Q) \cup {n} /\ n \notin LiveIn(Q)
  BY <1>1 DEF LiveIn
<1>3. \A k \in LiveIn(Q) : Q2[k] = Q[k]
  BY <1>1 DEF LiveIn
<1>4. RequestsLinked(Q, rs2)
  BY LinkedGoesOn
<1>5. ASSUME NEW k \in LiveIn(Q), Q[k].run = q.run, Q[k].cls # "auxiliary", q.cls # "auxiliary"
      PROVE  Q[k].turn # q.turn
  <2>1. Q[k].run \in 1 .. Len(rs) /\ Q[k].turn \in 1 .. rs[Q[k].run].turn
    BY <1>5 DEF RequestsLinked
  <2>2. rs[q.run].turn \in Nat
    BY <2>1, <1>5 DEF RunsGoOn
  <2> QED
    BY <1>5, <2>1, <2>2
<1>6. RequestsLinked(Q2, rs2)
  <2>1. \A k \in 1 .. Len(Q2) : Q2[k].st = "gone" => Q2[k].run = 0
    BY <1>1, <1>4 DEF RequestsLinked
  <2>2. ASSUME NEW k \in LiveIn(Q2)
        PROVE  /\ Q2[k].run \in 1 .. Len(rs2)
               /\ Q2[k].cls # "auxiliary" => Q2[k].turn \in 1 .. rs2[Q2[k].run].turn
    <3>1. CASE k \in LiveIn(Q)
      BY <3>1, <1>3, <1>4 DEF RequestsLinked
    <3>2. CASE k = n
      BY <3>2, <1>1
    <3> QED
      BY <3>1, <3>2, <1>2
  <2>3. ASSUME NEW k \in LiveIn(Q2), NEW m \in LiveIn(Q2), Q2[k].run = Q2[m].run,
               Q2[k].turn = Q2[m].turn, Q2[k].cls # "auxiliary", Q2[m].cls # "auxiliary"
        PROVE  k = m
    <3>1. CASE k \in LiveIn(Q) /\ m \in LiveIn(Q)
      BY <3>1, <2>3, <1>3, <1>4 DEF RequestsLinked
    <3>2. CASE k \in LiveIn(Q) /\ m = n
      BY <3>2, <2>3, <1>1, <1>3, <1>5
    <3>3. CASE k = n /\ m \in LiveIn(Q)
      BY <3>3, <2>3, <1>1, <1>3, <1>5
    <3> QED
      BY <3>1, <3>2, <3>3, <1>2
  <2> QED
    BY <2>1, <2>2, <2>3 DEF RequestsLinked
<1> QED
  BY <1>6 DEF Q2

\* A request that is gone is of no run.
LEMMA GoneIs ==
  ASSUME NEW q \in Requests
  PROVE  gone(q) \in Requests /\ gone(q).st = "gone" /\ gone(q).run = 0
<1> DEFINE e == <<>>
           p == [q EXCEPT !.st = "gone", !.run = 0, !.turn = 0, !.calls = e]
<1>1. e \in Seq(Wires) /\ "gone" \in States /\ 0 \in Nat
  BY DEF States
<1> HIDE DEF e
<1>2. p \in Requests
  BY <1>1 DEF Requests
<1>3. p.st = "gone" /\ p.run = 0
  BY DEF Requests
<1>4. gone(q) = p
  BY DEF gone, e
<1> QED
  BY <1>2, <1>3, <1>4

\* When a request ends, its turn waits no longer, and the others' do as before.
LEMMA EndLinked ==
  ASSUME NEW Q, Q \in Seq(Requests), NEW rs, RequestsLinked(Q, rs), NEW k \in LiveIn(Q)
  PROVE  LET Q2 == [Q EXCEPT ![k] = gone(@)] IN
         /\ RequestsLinked(Q2, rs)
         /\ Moved(Q, Q2, Q[k].run, Settled(TurnsOf(Q, Q[k].run), Q[k]))
<1> DEFINE Q2 == [Q EXCEPT ![k] = gone(@)]
           q == Q[k]
<1>1. k \in 1 .. Len(Q) /\ q \in Requests
  BY DEF LiveIn
<1>2. gone(q).st = "gone" /\ gone(q).run = 0
  BY <1>1, GoneIs
<1>3. /\ Len(Q2) = Len(Q) /\ Q2[k] = gone(q)
      /\ \A m \in 1 .. Len(Q) : m # k => Q2[m] = Q[m]
  BY <1>1
<1> HIDE DEF Q2
<1>4. LiveIn(Q2) = LiveIn(Q) \ {k}
  BY <1>1, <1>2, <1>3 DEF LiveIn
<1>5. \A m \in LiveIn(Q2) : Q2[m] = Q[m] /\ m \in LiveIn(Q)
  BY <1>3, <1>4 DEF LiveIn
<1>6. RequestsLinked(Q2, rs)
  <2>1. \A m \in 1 .. Len(Q2) : Q2[m].st = "gone" => Q2[m].run = 0
    BY <1>2, <1>3 DEF RequestsLinked
  <2> QED
    BY <1>5, <2>1 DEF RequestsLinked
<1>7. ASSUME NEW r, r # q.run PROVE TurnsOf(Q2, r) = TurnsOf(Q, r)
  <2>1. Asks(Q2, r) = Asks(Q, r)
    BY <1>4, <1>5, <1>7 DEF Asks
  <2>2. \A m \in Asks(Q, r) : Q2[m] = Q[m]
    BY <2>1, <1>5 DEF Asks
  <2> QED
    BY <2>1, <2>2 DEF TurnsOf
<1>8. TurnsOf(Q2, q.run) = Settled(TurnsOf(Q, q.run), q)
  <2>1. CASE q.cls = "auxiliary"
    <3>1. Asks(Q2, q.run) = Asks(Q, q.run)
      BY <1>4, <1>5, <2>1 DEF Asks
    <3>2. \A m \in Asks(Q, q.run) : Q2[m] = Q[m]
      BY <3>1, <1>5 DEF Asks
    <3> QED
      BY <2>1, <3>1, <3>2 DEF TurnsOf, Settled
  <2>2. CASE q.cls # "auxiliary"
    <3>1. Asks(Q2, q.run) = Asks(Q, q.run) \ {k} /\ k \in Asks(Q, q.run)
      BY <1>4, <1>5, <2>2 DEF Asks
    <3>2. \A m \in Asks(Q, q.run) \ {k} : Q2[m] = Q[m] /\ Q[m].turn # q.turn
      BY <3>1, <1>4, <1>5, <2>2 DEF Asks, RequestsLinked
    <3> QED
      BY <2>2, <3>1, <3>2 DEF TurnsOf, Settled
  <2> QED
    BY <2>1, <2>2
<1> QED
  BY <1>6, <1>7, <1>8 DEF Moved, Q2

------------------------------------------------------------------------------
\* The file f of run r and its chain ch are of one transcript W that is right for
\* the run R, of which the turns T wait; a run that is not among the writers ws has
\* no file.
FileFits(R, f, ch, T, r, ws) ==
  \E W \in Seq(Lines) :
    /\ RunRight(R, W, T)
    /\ IF r \in ws THEN ChainHolds(W, f, ch) ELSE W = <<MetaLine>> /\ f = <<>> /\ ch = <<>>

\* The chain of r after the append N, when the writers ws became ws2.
Recording(ch, r, ws, ws2, N) ==
  IF r \notin ws2 THEN ch ELSE ch \o (IF r \in ws THEN <<N>> ELSE <<Open, N>>)

\* A file right for its run, with the events of one step appended to its chain, is right
\* for the run after the step.
LEMMA RecordFits ==
  ASSUME NEW R, RunFits(R), R.open = TRUE, NEW es \in Seq(Events), NEW R2, NEW T, NEW T2,
         EventsFit(R, es, R2, T, T2), NEW f, NEW ch, NEW r, NEW ws, NEW ws2, ws \subseteq ws2,
         FileFits(R, f, ch, T, r, ws), r \in ws2 \/ Numbered(R, es) = <<>>
  PROVE  FileFits(R2, f, Recording(ch, r, ws, ws2, Numbered(R, es)), T2, r, ws2)
<1> DEFINE N == Numbered(R, es)
<1>1. PICK W \in Seq(Lines) :
        /\ RunRight(R, W, T)
        /\ IF r \in ws THEN ChainHolds(W, f, ch) ELSE W = <<MetaLine>> /\ f = <<>> /\ ch = <<>>
  BY DEF FileFits
<1>2. R.seq \in Nat
  BY RunParts DEF RunFits
<1>3. W \o N \in Seq(Lines) /\ RunRight(R2, W \o N, T2)
  BY <1>1, <1>2, EventsRecorded
<1>4. N \in Seq(Lines)
  BY <1>2, NumberedIs
<1> HIDE DEF N
<1>5. CASE r \in ws
  <2>1. r \in ws2 /\ Recording(ch, r, ws, ws2, N) = ch \o <<N>>
    BY <1>5 DEF Recording
  <2>2. ChainHolds(W, f, ch)
    BY <1>1, <1>5
  <2>3. ChainHolds(W \o N, f, ch \o <<N>>)
    BY <1>4, <2>2, ChainMore
  <2> QED
    BY <1>3, <2>1, <2>3, Zenon DEF FileFits, N
<1>6. CASE r \notin ws /\ r \in ws2
  <2>1. W = <<MetaLine>> /\ f = <<>> /\ ch = <<>>
    BY <1>1, <1>6
  <2>2. Recording(ch, r, ws, ws2, N) = <<>> \o <<Open, N>>
    BY <1>6, <2>1, Zenon DEF Recording
  <2>3. ChainHolds(<<MetaLine>> \o N, <<>>, <<>> \o <<Open, N>>)
    BY <1>4, ChainOpens
  <2>4. ChainHolds(W \o N, f, Recording(ch, r, ws, ws2, N))
    BY <2>1, <2>2, <2>3, Zenon
  <2> QED
    BY <1>3, <1>6, <2>4, Zenon DEF FileFits, N
<1>7. CASE r \notin ws2
  <2>1. r \notin ws /\ N = <<>>
    BY <1>7 DEF N
  <2>2. W = <<MetaLine>> /\ f = <<>> /\ ch = <<>> /\ Recording(ch, r, ws, ws2, N) = ch
    BY <1>1, <1>7, <2>1 DEF Recording
  <2>3. W \o N = W
    BY <2>1
  <2>4. RunRight(R2, W, T2)
    BY <1>3, <2>3, Zenon
  <2> QED
    BY <1>1, <1>7, <2>2, <2>4, Zenon DEF FileFits, N
<1> QED
  BY <1>5, <1>6, <1>7

\* The next append of the chain moves to the file.
LEMMA FileTakes ==
  ASSUME NEW R, NEW f, NEW ch, NEW T, NEW r, NEW ws, FileFits(R, f, ch, T, r, ws), ch # <<>>
  PROVE  FileFits(R, f \o Head(ch), Tail(ch), T, r, ws)
<1>1. PICK W \in Seq(Lines) :
        /\ RunRight(R, W, T)
        /\ IF r \in ws THEN ChainHolds(W, f, ch) ELSE W = <<MetaLine>> /\ f = <<>> /\ ch = <<>>
  BY DEF FileFits
<1>2. r \in ws /\ ChainHolds(W, f, ch)
  BY <1>1
<1>3. ChainHolds(W, f \o Head(ch), Tail(ch))
  BY <1>2, ChainTakes
<1> QED
  BY <1>1, <1>2, <1>3, Zenon DEF FileFits

\* A run as it starts.
Started(key, aux) == [NewRun(key) EXCEPT !.pending = aux]

\* A run that starts is well-formed, with no file and no turn.
LEMMA StartIs ==
  ASSUME NEW key \in AnyKey, NEW aux \in BOOLEAN
  PROVE  LET R == Started(key, aux) IN
         /\ RunFits(R) /\ R.open = TRUE /\ R.pending = aux /\ R.active = 0 /\ R.turn = 0
         /\ \A r, ws : r \notin ws => FileFits(R, <<>>, <<>>, {}, r, ws)
<1> DEFINE no == <<>>
           rep == [turn |-> 0, calls |-> no]
           P == [key |-> key, len |-> 0, active |-> 0, seq |-> 0, turn |-> 0, callSeq |-> 0,
                 replied |-> rep, resulted |-> {}, open |-> TRUE, pending |-> FALSE, notes |-> 0]
           R == [P EXCEPT !.pending = aux]
<1>1. no \in Seq(Calls) /\ Len(no) = 0
  OBVIOUS
<1>2. Started(key, aux) = R
  BY DEF Started, NewRun
<1> HIDE DEF no
<1>3. rep \in Replied /\ rep.calls = no /\ rep.turn = 0
  BY <1>1 DEF Replied
<1> HIDE DEF rep
<1>4. P \in Runs
  <2>1. {} \in SUBSET Nat /\ 0 \in Nat /\ TRUE \in BOOLEAN /\ FALSE \in BOOLEAN
    OBVIOUS
  <2> QED
    BY <1>3, <2>1, Zenon DEF Runs
<1>11. /\ P.open = TRUE /\ P.active = 0 /\ P.turn = 0 /\ P.seq = 0
       /\ P.resulted = {} /\ P.replied = rep /\ P.callSeq = 0
  OBVIOUS
<1> HIDE DEF P
<1>5. /\ R \in Runs /\ R.open = TRUE /\ R.pending = aux /\ R.active = 0 /\ R.turn = 0 /\ R.seq = 0
      /\ R.resulted = {} /\ R.replied = rep /\ R.callSeq = 0
  BY <1>4, <1>11 DEF Runs
<1> HIDE DEF R
<1>6. RunFits(R)
  BY <1>1, <1>3, <1>5 DEF RunFits, CallsFit
<1> DEFINE W == <<MetaLine>>
<1>7. MetaLine \in Lines /\ MetaLine.type = "meta"
  BY DEF MetaLine, Lines
<1>8. W \in Seq(Lines) /\ Len(W) = 1 /\ W[1] = MetaLine
  BY <1>7
<1> HIDE DEF W
<1>9. RunRight(R, W, {})
  <2>1. \A i \in 1 .. Len(W) : W[i].type = "meta"
    BY <1>7, <1>8
  <2>2. Lined(W)
    BY <1>8 DEF Lined
  <2>3. 1 .. R.turn = {}
    BY <1>5
  <2>4. Ended(W, R.open) /\ Asked(W, R.turn)
    BY <2>1, <2>3 DEF Ended, Asked
  <2>5. Answered(W, {}) /\ Resulted(W, R.resulted)
    BY <2>1 DEF Answered, Resulted, Outcomes
  <2>6. Called(W, R.replied)
    BY <1>1, <1>3, <1>5 DEF Called
  <2> QED
    BY <1>5, <1>8, <2>2, <2>4, <2>5, <2>6 DEF RunRight
<1>10. ASSUME NEW r, NEW ws, r \notin ws PROVE FileFits(R, <<>>, <<>>, {}, r, ws)
  BY <1>8, <1>9, <1>10, Zenon DEF FileFits, W
<1> QED
  BY <1>2, <1>5, <1>6, <1>10, Zenon

\* The file of a transcript that is right is sound, whatever waits in its chain.
LEMMA FileSound ==
  ASSUME NEW r, NEW R, NEW T, FileFits(R, file[r], chain[r], T, r, writers)
  PROVE  InOrder(r) /\ OneOutcome(r) /\ OneResult(r)
<1> DEFINE f == file[r]
<1>1. PICK W \in Seq(Lines) :
        /\ RunRight(R, W, T)
        /\ IF r \in writers THEN ChainHolds(W, f, chain[r]) ELSE W = <<MetaLine>> /\ f = <<>> /\ chain[r] = <<>>
  BY DEF FileFits
<1>2. /\ f \in Seq(Lines) /\ Len(f) \in Nat /\ Len(f) <= Len(W)
      /\ \A i \in 1 .. Len(f) : f[i] = W[i]
  <2>1. CASE r \in writers
    BY <1>1, <2>1, ChainPrefix
  <2>2. CASE r \notin writers
    <3>1. f = <<>>
      BY <1>1, <2>2
    <3> QED
      BY <3>1
  <2> QED
    BY <2>1, <2>2
<1>3. DOMAIN f = 1 .. Len(f) /\ \A i \in 1 .. Len(f) : i \in 1 .. Len(W) /\ f[i] = W[i]
  BY <1>2
<1>4. /\ Lined(W) /\ Ended(W, R.open) /\ Asked(W, R.turn) /\ Answered(W, T) /\ Resulted(W, R.resulted)
  BY <1>1 DEF RunRight
<1>5. file[r] = f
  OBVIOUS
<1> HIDE DEF f
<1>6. InOrder(r)
  <2>1. ASSUME NEW i \in 1 .. Len(f)
        PROVE  IF i = 1 THEN f[i] = MetaLine ELSE f[i].type # "meta" /\ f[i].seq = i - 2
    <3>1. i \in 1 .. Len(W) /\ f[i] = W[i]
      BY <1>3
    <3>2. i # 1 => i \in 2 .. Len(W)
      BY <3>1
    <3> QED
      BY <1>4, <3>1, <3>2 DEF Lined
  <2>2. ASSUME NEW i \in At(r, "done") PROVE i = Len(f)
    <3>1. i \in 1 .. Len(f) /\ f[i].type = "done"
      BY <1>3, <1>5 DEF At
    <3>2. i = Len(W)
      BY <1>3, <1>4, <3>1 DEF Ended
    <3> QED
      BY <1>2, <3>1, <3>2
  <2> QED
    BY <1>3, <1>5, <2>1, <2>2 DEF InOrder
<1>7. OneOutcome(r)
  <2>1. ASSUME NEW i \in At(r, "llm_request") PROVE AtTurn(r, {"llm_request"}, f[i].turn) = {i}
    <3>1. i \in 1 .. Len(f) /\ f[i].type = "llm_request"
      BY <1>3, <1>5 DEF At
    <3>2. ASSUME NEW j \in AtTurn(r, {"llm_request"}, f[i].turn) PROVE j = i
      <4>1. j \in 1 .. Len(f) /\ f[j].type = "llm_request" /\ f[j].turn = f[i].turn
        BY <1>3, <1>5 DEF AtTurn
      <4> QED
        BY <1>3, <1>4, <3>1, <4>1 DEF Asked
    <3>3. i \in AtTurn(r, {"llm_request"}, f[i].turn)
      BY <1>3, <1>5, <3>1 DEF AtTurn
    <3> QED
      BY <3>2, <3>3
  <2>2. ASSUME NEW i \in At(r, "llm_response") \cup At(r, "error")
        PROVE  /\ AtTurn(r, {"llm_response", "error"}, f[i].turn) = {i}
               /\ \E j \in AtTurn(r, {"llm_request"}, f[i].turn) : j < i
    <3>1. i \in 1 .. Len(f) /\ f[i].type \in {"llm_response", "error"}
      BY <1>3, <1>5 DEF At
    <3>2. ASSUME NEW j \in AtTurn(r, {"llm_response", "error"}, f[i].turn) PROVE j = i
      <4>1. j \in 1 .. Len(f) /\ f[j].type \in {"llm_response", "error"} /\ f[j].turn = f[i].turn
        BY <1>3, <1>5 DEF AtTurn
      <4> QED
        BY <1>3, <1>4, <3>1, <4>1 DEF Answered, Outcomes
    <3>3. i \in AtTurn(r, {"llm_response", "error"}, f[i].turn)
      BY <1>3, <1>5, <3>1 DEF AtTurn
    <3>4. PICK j \in 1 .. Len(W) : j < i /\ W[j].type = "llm_request" /\ W[j].turn = W[i].turn
      BY <1>3, <1>4, <3>1 DEF Answered, Outcomes
    <3>5. j \in 1 .. Len(f)
      BY <1>2, <3>1, <3>4
    <3>6. j \in AtTurn(r, {"llm_request"}, f[i].turn)
      BY <1>3, <1>5, <3>1, <3>4, <3>5 DEF AtTurn
    <3> QED
      BY <3>2, <3>3, <3>4, <3>6
  <2> QED
    BY <1>5, <2>1, <2>2 DEF OneOutcome
<1>8. OneResult(r)
  <2> SUFFICES ASSUME NEW i \in At(r, "tool_result")
               PROVE  /\ \A j \in At(r, "tool_result") : f[j].call = f[i].call => j = i
                      /\ \E j \in At(r, "tool_call") : j < i /\ f[j].call = f[i].call
                                                       /\ f[j].turn = f[i].turn
    BY <1>5 DEF OneResult
  <2>1. i \in 1 .. Len(f) /\ f[i].type = "tool_result"
    BY <1>3, <1>5 DEF At
  <2>2. ASSUME NEW j \in At(r, "tool_result"), f[j].call = f[i].call PROVE j = i
    <3>1. j \in 1 .. Len(f) /\ f[j].type = "tool_result"
      BY <1>3, <1>5 DEF At
    <3> QED
      BY <1>3, <1>4, <2>1, <2>2, <3>1 DEF Resulted
  <2>3. PICK j \in 1 .. Len(W) : j < i /\ W[j].type = "tool_call" /\ W[j].call = W[i].call
                                 /\ W[j].turn = W[i].turn
    BY <1>3, <1>4, <2>1 DEF Resulted
  <2>4. j \in 1 .. Len(f)
    BY <1>2, <2>1, <2>3
  <2>5. j \in At(r, "tool_call") /\ f[j].call = f[i].call /\ f[j].turn = f[i].turn
    BY <1>3, <1>5, <2>1, <2>3, <2>4 DEF At
  <2> QED
    BY <2>2, <2>3, <2>5
<1> QED
  BY <1>6, <1>7, <1>8

------------------------------------------------------------------------------
\* The files of all runs rs.
FilesFit(rs, f, ch, Q, ws, ls) ==
  \A r \in 1 .. Len(rs) : r \notin ls => FileFits(rs[r], f[r], ch[r], TurnsOf(Q, r), r, ws)

\* The append N of run r is recorded.
RecordsTo(ch, ch2, ws, ws2, r, N) ==
  /\ DOMAIN ch2 = RunIds
  /\ \A s \in RunIds : s # r => ch2[s] = ch[s]
  /\ ch2[r] = Recording(ch[r], r, ws, ws2, N)
  /\ ws \subseteq ws2 /\ ws2 \subseteq ws \cup {r}

\* record appends to the chain of the one run, and opens its file first.
LEMMA RecordIs ==
  ASSUME NEW r \in RunIds, NEW N, NEW meta \in BOOLEAN, record(r, N, meta), DOMAIN chain = RunIds
  PROVE  /\ RecordsTo(chain, chain', writers, writers', r, N)
         /\ meta = TRUE => r \in writers'
         /\ meta = FALSE => writers' = writers
<1>1. CASE r \notin writers /\ ~meta
  <2>1. writers' = writers /\ chain' = chain
    BY <1>1 DEF record
  <2>2. Recording(chain[r], r, writers, writers', N) = chain[r]
    BY <1>1, <2>1 DEF Recording
  <2> QED
    BY <1>1, <2>1, <2>2 DEF RecordsTo
<1>2. CASE ~(r \notin writers /\ ~meta)
  <2> DEFINE es == IF r \in writers THEN <<N>> ELSE <<Open, N>>
  <2>1. writers' = writers \cup {r} /\ chain' = [chain EXCEPT ![r] = @ \o es]
    BY <1>2 DEF record
  <2>2. Recording(chain[r], r, writers, writers', N) = chain[r] \o es
    BY <2>1 DEF Recording
  <2> HIDE DEF es
  <2>3. /\ DOMAIN chain' = RunIds /\ chain'[r] = chain[r] \o es
        /\ \A s \in RunIds : s # r => chain'[s] = chain[s]
    BY <2>1
  <2> QED
    BY <1>2, <2>1, <2>2, <2>3 DEF RecordsTo
<1> QED
  BY <1>1, <1>2

\* One run goes on, from R to R2, and the others stay.
OneGoesOn(rs, rs2, r, R2) ==
  /\ Len(rs2) \in Nat /\ 1 .. Len(rs2) \subseteq RunIds /\ r \in 1 .. Len(rs2) /\ rs2[r] = R2
  /\ \A s \in 1 .. Len(rs2) : s # r => s \in 1 .. Len(rs) /\ rs2[s] = rs[s]

\* When one run goes on and its events are recorded, every file stays right.
LEMMA FilesStep ==
  ASSUME NEW rs, NEW f, NEW ch, NEW Q, NEW ws, NEW ls, FilesFit(rs, f, ch, Q, ws, ls),
         NEW r, NEW rs2, NEW R2, OneGoesOn(rs, rs2, r, R2),
         NEW R, RunFits(R), R.open = TRUE, NEW es \in Seq(Events), NEW T, NEW T2,
         EventsFit(R, es, R2, T, T2), r \notin ls => FileFits(R, f[r], ch[r], T, r, ws),
         NEW ch2, NEW ws2, RecordsTo(ch, ch2, ws, ws2, r, Numbered(R, es)),
         r \in ws2 \/ Numbered(R, es) = <<>>,
         NEW Q2, Moved(Q, Q2, r, T2)
  PROVE  FilesFit(rs2, f, ch2, Q2, ws2, ls)
<1> SUFFICES ASSUME NEW s \in 1 .. Len(rs2), s \notin ls
             PROVE  FileFits(rs2[s], f[s], ch2[s], TurnsOf(Q2, s), s, ws2)
  BY DEF FilesFit
<1>1. CASE s = r
  <2>1. FileFits(R, f[r], ch[r], T, r, ws) /\ ws \subseteq ws2
    BY <1>1 DEF RecordsTo
  <2>2. FileFits(R2, f[r], Recording(ch[r], r, ws, ws2, Numbered(R, es)), T2, r, ws2)
    BY <2>1, RecordFits
  <2>3. rs2[s] = R2 /\ ch2[s] = Recording(ch[r], r, ws, ws2, Numbered(R, es))
    BY <1>1 DEF OneGoesOn, RecordsTo
  <2> QED
    BY <1>1, <2>2, <2>3, Zenon DEF Moved
<1>2. CASE s # r
  <2>1. s \in 1 .. Len(rs) /\ rs2[s] = rs[s] /\ s \in RunIds
    BY <1>2 DEF OneGoesOn
  <2>2. ch2[s] = ch[s] /\ (s \in ws2 <=> s \in ws)
    BY <1>2, <2>1 DEF RecordsTo
  <2>3. FileFits(rs[s], f[s], ch[s], TurnsOf(Q, s), s, ws)
    BY <2>1 DEF FilesFit
  <2>4. FileFits(rs[s], f[s], ch[s], TurnsOf(Q, s), s, ws2)
    BY <2>2, <2>3, Zenon DEF FileFits
  <2>5. TurnsOf(Q2, s) = TurnsOf(Q, s)
    BY <1>2, Zenon DEF Moved
  <2> QED
    BY <2>1, <2>2, <2>4, <2>5, Zenon
<1> QED
  BY <1>1, <1>2, Zenon

------------------------------------------------------------------------------
\* The runs rs at tick n: one is pending as long as it is not among the writers.
RunsTyped(rs, n, ws) ==
  /\ rs \in Seq(Runs)
  /\ \A r \in 1 .. Len(rs) : /\ RunFits(rs[r]) /\ rs[r].active <= n
                             /\ rs[r].pending = TRUE <=> r \notin ws
                             /\ r \notin ws => rs[r].turn = 0
AllOpen(rs) == \A r \in 1 .. Len(rs) : rs[r].open = TRUE

\* Run r is R before a step and R2 after it, which records es as N.
GoesOn(R, R2, es, N, T, T2, r, ws2, n) ==
  /\ RunFits(R) /\ R.open = TRUE /\ RunFits(R2) /\ R2.open = TRUE /\ R2.active <= n
  /\ R2.pending = TRUE <=> r \notin ws2
  /\ r \notin ws2 => R2.turn = 0
  /\ es \in Seq(Events) /\ N = Numbered(R, es) /\ EventsFit(R, es, R2, T, T2)
  /\ r \in ws2 \/ N = <<>>

Placed(rs, r, R2) == IF r \in DOMAIN rs THEN [rs EXCEPT ![r] = R2] ELSE Append(rs, R2)

\* The runs with one of them placed: the others are as they were.
LEMMA PlacedIs ==
  ASSUME NEW rs \in Seq(Runs), NEW r \in 1 .. Len(rs) + 1, NEW R2 \in Runs,
         1 .. Len(Placed(rs, r, R2)) \subseteq RunIds
  PROVE  /\ Placed(rs, r, R2) \in Seq(Runs) /\ OneGoesOn(rs, Placed(rs, r, R2), r, R2)
         /\ Len(Placed(rs, r, R2)) = IF r \in 1 .. Len(rs) THEN Len(rs) ELSE Len(rs) + 1
<1> DEFINE rs2 == Placed(rs, r, R2)
<1>1. DOMAIN rs = 1 .. Len(rs) /\ Len(rs) \in Nat
  OBVIOUS
<1>2. CASE r \in 1 .. Len(rs)
  <2>1. rs2 = [rs EXCEPT ![r] = R2]
    BY <1>1, <1>2 DEF Placed
  <2>2. /\ rs2 \in Seq(Runs) /\ Len(rs2) = Len(rs) /\ rs2[r] = R2
        /\ \A s \in 1 .. Len(rs2) : s # r => s \in 1 .. Len(rs) /\ rs2[s] = rs[s]
    BY <1>2, <2>1
  <2> QED
    BY <1>1, <1>2, <2>2 DEF OneGoesOn
<1>3. CASE r \notin 1 .. Len(rs)
  <2>0. r = Len(rs) + 1
    BY <1>1, <1>3
  <2>1. rs2 = Append(rs, R2) /\ r = Len(rs) + 1
    BY <1>1, <1>3, <2>0, Zenon DEF Placed
  <2>2. rs2 \in Seq(Runs) /\ Len(rs2) = Len(rs) + 1 /\ rs2[r] = R2
    BY <2>1
  <2>3. \A s \in 1 .. Len(rs2) : s # r => s \in 1 .. Len(rs) /\ rs2[s] = rs[s]
    BY <1>1, <2>1, <2>2
  <2>4. r \in 1 .. Len(rs2) /\ Len(rs2) \in Nat
    BY <1>1, <2>1, <2>2
  <2> QED
    BY <1>3, <2>2, <2>3, <2>4 DEF OneGoesOn
<1> QED
  BY <1>2, <1>3

\* When one run goes on, the runs are typed and open, and the files right, as before.
LEMMA RunStep ==
  ASSUME NEW rs, NEW n \in Nat, NEW ws, RunsTyped(rs, n, ws), AllOpen(rs),
         NEW rs2 \in Seq(Runs), NEW r, NEW R, NEW R2, OneGoesOn(rs, rs2, r, R2),
         Len(rs) <= Len(rs2), r \in 1 .. Len(rs) => R = rs[r],
         NEW es, NEW N, NEW T, NEW T2, NEW n2 \in Nat, n <= n2,
         NEW ch, NEW ch2, NEW ws2, GoesOn(R, R2, es, N, T, T2, r, ws2, n2), RecordsTo(ch, ch2, ws, ws2, r, N)
  PROVE  RunsTyped(rs2, n2, ws2) /\ AllOpen(rs2) /\ RunsGoOn(rs, rs2)
<1>1. rs \in Seq(Runs) /\ Len(rs) \in Nat /\ Len(rs2) \in Nat
  BY DEF RunsTyped
<1>2. ASSUME NEW s \in 1 .. Len(rs2)
      PROVE  /\ RunFits(rs2[s]) /\ rs2[s].active <= n2 /\ rs2[s].open = TRUE
             /\ rs2[s].pending = TRUE <=> s \notin ws2
             /\ s \notin ws2 => rs2[s].turn = 0
  <2>1. CASE s = r
    BY <2>1 DEF OneGoesOn, GoesOn
  <2>2. CASE s # r
    <3>1. s \in 1 .. Len(rs) /\ rs2[s] = rs[s]
      BY <2>2 DEF OneGoesOn
    <3>2. /\ RunFits(rs[s]) /\ rs[s].active <= n /\ rs[s].open = TRUE
          /\ rs[s].pending = TRUE <=> s \notin ws
          /\ s \notin ws => rs[s].turn = 0
      BY <3>1 DEF RunsTyped, AllOpen
    <3>3. rs[s].active \in Nat
      BY <3>2, RunParts DEF RunFits
    <3>4. s \in ws2 <=> s \in ws
      BY <2>2 DEF RecordsTo
    <3> QED
      BY <3>1, <3>2, <3>3, <3>4
  <2> QED
    BY <2>1, <2>2
<1>3. ASSUME NEW s \in 1 .. Len(rs)
      PROVE  rs[s].turn \in Nat /\ rs2[s].turn \in Nat /\ rs[s].turn <= rs2[s].turn
  <2>1. s \in 1 .. Len(rs2) /\ rs[s] \in Runs /\ rs2[s] \in Runs
    BY <1>1
  <2>2. rs[s].turn \in Nat /\ rs2[s].turn \in Nat
    BY <2>1, RunParts
  <2>3. CASE s = r
    <3>1. R = rs[s] /\ R2 = rs2[s]
      BY <2>3 DEF OneGoesOn
    <3> QED
      BY <2>2, <3>1 DEF GoesOn, EventsFit
  <2>4. CASE s # r
    <3>1. rs2[s] = rs[s]
      BY <2>1, <2>4 DEF OneGoesOn
    <3> QED
      BY <2>2, <3>1
  <2> QED
    BY <2>3, <2>4
<1> QED
  BY <1>1, <1>2, <1>3 DEF RunsTyped, AllOpen, RunsGoOn

------------------------------------------------------------------------------
\* The invariant.
Stops == {"no", "aborted", "closed", "stopped"}
RecorderTyped ==
  /\ client \in Clients
  /\ history \in [Agents -> Histories]
  /\ asking \in [Agents -> Nat] /\ \A a \in Agents : asking[a] <= Len(requests)
  /\ tick \in Nat /\ RunsTyped(runs, tick, writers)
  /\ requests \in Seq(Requests) /\ Len(runs) <= Len(requests) /\ Len(requests) <= MaxRequests
  /\ writers \subseteq 1 .. Len(runs) /\ lossy \subseteq RunIds
  /\ DOMAIN chain = RunIds /\ DOMAIN file = RunIds
  /\ stop \in Stops
RecorderLinked ==
  /\ stop \in {"no", "aborted"} => AllOpen(runs)
  /\ RequestsLinked(requests, runs)
  /\ LiveIn(requests) # {} => stop \in {"no", "aborted"}
  /\ \A r \in RunIds : r > Len(runs) => file[r] = <<>> /\ chain[r] = <<>>
RecorderInv ==
  /\ RecorderTyped /\ RecorderLinked
  /\ FilesFit(runs, file, chain, requests, writers, lossy)

\* The invariant is strong enough: a file of a transcript that is right is sound.
LEMMA InvSafe == ASSUME RecorderInv PROVE TranscriptSound
<1>1. runs \in Seq(Runs) /\ requests \in Seq(Requests) /\ asking \in [Agents -> Nat]
  BY DEF RecorderInv, RecorderTyped, RunsTyped
<1>2. DOMAIN runs = 1 .. Len(runs) /\ DOMAIN requests = 1 .. Len(requests) /\ Len(requests) \in Nat
  BY <1>1
<1>3. \A r \in DOMAIN runs : runs[r].resulted \subseteq 1 .. runs[r].callSeq
  BY <1>2 DEF RecorderInv, RecorderTyped, RunsTyped, RunFits
<1>4. ASSUME NEW k \in DOMAIN requests PROVE requests[k].run \in {0} \cup DOMAIN runs
  <2>1. CASE requests[k].st = "gone"
    BY <1>2, <2>1 DEF RecorderInv, RecorderLinked, RequestsLinked
  <2>2. CASE requests[k].st # "gone"
    <3>1. k \in LiveIn(requests)
      BY <1>2, <2>2 DEF LiveIn
    <3> QED
      BY <1>2, <3>1 DEF RecorderInv, RecorderLinked, RequestsLinked
  <2> QED
    BY <2>1, <2>2
<1>5. \A a \in Agents : asking[a] \in {0} \cup DOMAIN requests
  <2>1. \A a \in Agents : asking[a] <= Len(requests) /\ asking[a] \in Nat
    BY <1>1 DEF RecorderInv, RecorderTyped
  <2> QED
    BY <1>2, <2>1
<1>6. RecorderTypeOK
  BY <1>2, <1>3, <1>4, <1>5 DEF RecorderTypeOK, RecorderInv, RecorderTyped, Stops
<1>7. ASSUME NEW r \in RunIds, r \notin lossy PROVE InOrder(r) /\ OneOutcome(r) /\ OneResult(r)
  <2>1. CASE r \in 1 .. Len(runs)
    <3>1. FileFits(runs[r], file[r], chain[r], TurnsOf(requests, r), r, writers)
      BY <1>7, <2>1 DEF RecorderInv, FilesFit
    <3> QED
      BY <3>1, FileSound
  <2>2. CASE r \notin 1 .. Len(runs)
    <3>1. r > Len(runs)
      BY <1>1, <1>7, <2>2 DEF RunIds
    <3>2. file[r] = <<>>
      BY <3>1 DEF RecorderInv, RecorderLinked
    <3>3. DOMAIN file[r] = {}
      BY <3>2
    <3> QED
      BY <3>3 DEF InOrder, OneOutcome, OneResult, At
  <2> QED
    BY <2>1, <2>2
<1> QED
  BY <1>6, <1>7 DEF TranscriptSound

\* It holds at the start, when there are no runs.
LEMMA InvInit == ASSUME RecorderInit PROVE RecorderInv
<1> USE DEF RecorderInit
<1>1. runs = <<>> /\ requests = <<>> /\ Len(runs) = 0 /\ Len(requests) = 0
  BY DEF RecorderInit
<1>2. runs \in Seq(Runs) /\ requests \in Seq(Requests)
  BY <1>1
<1>3. history \in [Agents -> Histories]
  <2>1. [len |-> 1, echoed |-> <<>>] \in Histories
    BY DEF Histories
  <2> QED
    BY <2>1
<1>4. RunsTyped(runs, tick, writers)
  BY <1>1, <1>2 DEF RunsTyped
<1>5. MaxRequests \in Nat
  BY RecorderAssumption
<1>6. RecorderTyped
  BY <1>1, <1>2, <1>3, <1>4, <1>5 DEF RecorderTyped, Stops
<1>7. LiveIn(requests) = {}
  BY <1>1 DEF LiveIn
<1>8. AllOpen(runs) /\ RequestsLinked(requests, runs)
  BY <1>1, <1>7 DEF AllOpen, RequestsLinked
<1>9. RecorderLinked
  BY <1>7, <1>8 DEF RecorderLinked
<1>10. FilesFit(runs, file, chain, requests, writers, lossy)
  BY <1>1 DEF FilesFit
<1> QED
  BY <1>6, <1>9, <1>10 DEF RecorderInv

\* A request may come only when fewer than MaxRequests did.
LEMMA UnspentIs ==
  ASSUME RecorderTyped, Unspent
  PROVE  Len(requests) < MaxRequests
<1>1. IsFiniteSet(RunIds)
  BY FS_Interval, RecorderAssumption DEF RunIds
<1>2. IsFiniteSet(lossy)
  BY <1>1, FS_Subset DEF RecorderTyped
<1>3. Cardinality(lossy) \in Nat
  BY <1>2, FS_CardinalityType
<1>4. Len(requests) \in Nat /\ MaxRequests \in Nat
  BY RecorderAssumption DEF RecorderTyped
<1> QED
  BY <1>3, <1>4 DEF Unspent

------------------------------------------------------------------------------
\* The run a request joins is one of the runs, or the next.
LEMMA JoinedIs ==
  ASSUME RecorderTyped, NEW key, NEW len
  PROVE  Joined(key, len) \in 1 .. Len(runs) + 1
<1> DEFINE C == Candidates(key, len)
<1>1. Len(runs) \in Nat /\ DOMAIN runs = 1 .. Len(runs) /\ tick \in Nat
  BY DEF RecorderTyped, RunsTyped
<1>2. C \subseteq 1 .. Len(runs)
  BY <1>1 DEF Candidates
<1>3. CASE C = {}
  <2>1. Joined(key, len) = Len(runs) + 1
    BY <1>3, Zenon DEF Joined
  <2> QED
    BY <1>1, <2>1
<1>4. CASE C # {}
  <2>1. \A s \in C : runs[s].active \in Nat /\ runs[s].active <= tick
    <3> SUFFICES ASSUME NEW s \in C PROVE runs[s].active \in Nat /\ runs[s].active <= tick
      OBVIOUS
    <3>1. RunFits(runs[s]) /\ runs[s].active <= tick
      BY <1>2 DEF RecorderTyped, RunsTyped
    <3>2. runs[s] \in Runs
      BY <3>1 DEF RunFits
    <3>3. runs[s].active \in Nat
      BY <3>2, RunParts
    <3> QED
      BY <3>1, <3>3
  <2> DEFINE D == {n \in Nat : \E s \in C : n = tick - runs[s].active}
  <2>2. D \subseteq Nat /\ D # {}
    <3>1. PICK s \in C : TRUE
      BY <1>4
    <3>2. tick - runs[s].active \in Nat
      BY <1>1, <2>1
    <3>3. tick - runs[s].active \in D
      BY <3>2
    <3> QED
      BY <3>3
  <2>3. PICK n \in D : \A m \in D : n <= m
    <3> HIDE DEF D
    <3> QED
      BY <2>2, LeastNatural
  <2>4. PICK r \in C : n = tick - runs[r].active
    OBVIOUS
  <2>5. \A s \in C : runs[s].active <= runs[r].active
    <3> SUFFICES ASSUME NEW s \in C PROVE runs[s].active <= runs[r].active
      OBVIOUS
    <3>1. tick - runs[s].active \in Nat
      BY <1>1, <2>1
    <3>2. tick - runs[s].active \in D
      BY <3>1
    <3>3. n <= tick - runs[s].active
      BY <2>3, <3>2
    <3> QED
      BY <1>1, <2>1, <2>4, <3>3
  <2>6. Joined(key, len) \in C
    <3>1. Joined(key, len) = CHOOSE q \in C : \A s \in C : runs[s].active <= runs[q].active
      BY <1>4, Zenon DEF Joined
    <3> HIDE DEF C
    <3> QED
      BY <2>5, <3>1, Zenon
  <2> QED
    BY <1>1, <1>2, <2>6
<1> QED
  BY <1>3, <1>4

\* A step in which one run goes on, and what it leaves alone.
LEMMA OneRunStep ==
  ASSUME RecorderInv, stop \in {"no", "aborted"}, UNCHANGED <<client, file, lossy, stop>>,
         history' = history, asking' \in [Agents -> Nat],
         \A a \in Agents : asking'[a] <= Len(requests'),
         tick' \in Nat, tick <= tick', requests' \in Seq(Requests),
         Len(runs') <= Len(requests'), Len(requests') <= MaxRequests,
         NEW r \in RunIds, NEW R, NEW R2, r \in 1 .. Len(runs) => R = runs[r],
         runs' \in Seq(Runs), OneGoesOn(runs, runs', r, R2), Len(runs) <= Len(runs'),
         NEW es, NEW N, NEW T, NEW T2, GoesOn(R, R2, es, N, T, T2, r, writers', tick'),
         RecordsTo(chain, chain', writers, writers', r, N), Moved(requests, requests', r, T2),
         RunsGoOn(runs, runs') => RequestsLinked(requests', runs'),
         r \notin lossy => FileFits(R, file[r], chain[r], T, r, writers)
  PROVE  RecorderInv'
<1>1. /\ RunsTyped(runs, tick, writers) /\ AllOpen(runs) /\ tick \in Nat
      /\ client \in Clients /\ history \in [Agents -> Histories]
      /\ writers \subseteq 1 .. Len(runs) /\ lossy \subseteq RunIds /\ DOMAIN file = RunIds
      /\ FilesFit(runs, file, chain, requests, writers, lossy)
      /\ \A s \in RunIds : s > Len(runs) => file[s] = <<>> /\ chain[s] = <<>>
      /\ stop \in Stops
  BY DEF RecorderInv, RecorderTyped, RecorderLinked
<1>2. Len(runs) \in Nat /\ Len(runs') \in Nat
  BY <1>1 DEF RunsTyped
<1>3. /\ RunsTyped(runs', tick', writers') /\ AllOpen(runs') /\ RunsGoOn(runs, runs')
  BY <1>1, RunStep
<1>4. writers' \subseteq 1 .. Len(runs')
  <2>1. writers' \subseteq writers \cup {r} /\ r \in 1 .. Len(runs')
    BY DEF RecordsTo, OneGoesOn
  <2>2. 1 .. Len(runs) \subseteq 1 .. Len(runs')
    BY <1>2
  <2> QED
    BY <1>1, <2>1, <2>2
<1>5. RecorderTyped'
  <2>1. DOMAIN chain' = RunIds
    BY DEF RecordsTo
  <2> QED
    BY <1>1, <1>3, <1>4, <2>1 DEF RecorderTyped
<1>6. ASSUME NEW s \in RunIds, s > Len(runs') PROVE file'[s] = <<>> /\ chain'[s] = <<>>
  <2>1. s > Len(runs) /\ s # r
    BY <1>2, <1>6 DEF OneGoesOn, RunIds
  <2>2. chain'[s] = chain[s]
    BY <2>1 DEF RecordsTo
  <2> QED
    BY <1>1, <2>1, <2>2
<1>7. RecorderLinked'
  BY <1>3, <1>6 DEF RecorderLinked
<1>8. FilesFit(runs', file', chain', requests', writers', lossy')
  <2>1. /\ RunFits(R) /\ R.open = TRUE /\ es \in Seq(Events) /\ EventsFit(R, es, R2, T, T2)
        /\ N = Numbered(R, es) /\ (r \in writers' \/ N = <<>>)
    BY DEF GoesOn
  <2>2. RecordsTo(chain, chain', writers, writers', r, Numbered(R, es))
    BY <2>1
  <2>3. r \in writers' \/ Numbered(R, es) = <<>>
    BY <2>1
  <2>4. FilesFit(runs', file, chain', requests', writers', lossy)
    BY <1>1, <2>1, <2>2, <2>3, FilesStep
  <2> QED
    BY <2>4
<1> QED
  BY <1>5, <1>7, <1>8 DEF RecorderInv

\* A run there is not yet has no turn that waits.
LEMMA NoneWait ==
  ASSUME NEW Q, NEW rs, RequestsLinked(Q, rs), NEW r, r \notin 1 .. Len(rs)
  PROVE  TurnsOf(Q, r) = {}
<1>1. Asks(Q, r) = {}
  BY DEF RequestsLinked, Asks
<1> QED
  BY <1>1 DEF TurnsOf

\* No events fit any run, and change nothing.
LEMMA NothingRecorded ==
  ASSUME NEW R, RunFits(R), NEW T
  PROVE  <<>> \in Seq(Events) /\ Numbered(R, <<>>) = <<>> /\ EventsFit(R, <<>>, R, T, T)
<1> DEFINE es == <<>>
<1>1. es \in Seq(Events) /\ Len(es) = 0 /\ DOMAIN es = {}
  OBVIOUS
<1> HIDE DEF es
<1>2. Quiet(es)
  BY <1>1 DEF Quiet
<1>3. R.turn \in Nat /\ R.seq \in Nat
  BY RunParts DEF RunFits
<1>4. /\ DoneFits(es, R.open) /\ RequestsFit(es, R.turn, R.turn) /\ OutcomesFit(es, T, T)
      /\ ResultsFit(es, R.replied, R.resulted, R.resulted) /\ CallsMade(es, R.replied, R.replied)
  BY <1>2, <1>3, QuietFits
<1>5. EventsFit(R, es, R, T, T)
  BY <1>1, <1>3, <1>4 DEF EventsFit
<1>6. Numbered(R, es) = <<>>
  <2>1. Numbered(R, es) \in [{} -> Lines]
    BY <1>1 DEF Numbered
  <2> QED
    BY <2>1
<1> QED
  BY <1>1, <1>5, <1>6 DEF es

\* The run a request is of, before it is recorded.
LEMMA RunOfRequest ==
  ASSUME RecorderInv, stop = "no", NEW r \in 1 .. Len(runs) + 1, r \in RunIds, NEW key \in AnyKey,
         NEW aux \in BOOLEAN
  PROVE  LET R == IF r \in DOMAIN runs THEN runs[r] ELSE Started(key, aux) IN
         /\ RunFits(R) /\ R.open = TRUE /\ R.active <= tick
         /\ r \in DOMAIN runs => R = runs[r] /\ (R.pending = TRUE <=> r \notin writers)
         /\ r \notin DOMAIN runs => R.pending = aux /\ r \notin writers
         /\ r \notin writers => R.turn = 0
         /\ r \notin lossy => FileFits(R, file[r], chain[r], TurnsOf(requests, r), r, writers)
<1> DEFINE R == IF r \in DOMAIN runs THEN runs[r] ELSE Started(key, aux)
<1>1. /\ RunsTyped(runs, tick, writers) /\ AllOpen(runs) /\ tick \in Nat
      /\ writers \subseteq 1 .. Len(runs) /\ RequestsLinked(requests, runs)
      /\ FilesFit(runs, file, chain, requests, writers, lossy)
      /\ \A s \in RunIds : s > Len(runs) => file[s] = <<>> /\ chain[s] = <<>>
  BY DEF RecorderInv, RecorderTyped, RecorderLinked
<1>2. DOMAIN runs = 1 .. Len(runs) /\ Len(runs) \in Nat
  BY <1>1 DEF RunsTyped
<1>3. CASE r \in DOMAIN runs
  <2>1. R = runs[r]
    BY <1>3
  <2> HIDE DEF R
  <2>2. /\ RunFits(R) /\ R.open = TRUE /\ R.active <= tick /\ (R.pending = TRUE <=> r \notin writers)
        /\ (r \notin writers => R.turn = 0)
    BY <1>1, <1>2, <1>3, <2>1 DEF RunsTyped, AllOpen
  <2>3. r \notin lossy => FileFits(R, file[r], chain[r], TurnsOf(requests, r), r, writers)
    BY <1>1, <1>2, <1>3, <2>1 DEF FilesFit
  <2> QED
    BY <1>3, <2>1, <2>2, <2>3, Zenon DEF R
<1>4. CASE r \notin DOMAIN runs
  <2>1. R = Started(key, aux)
    BY <1>4
  <2>2. r \notin writers /\ r > Len(runs)
    BY <1>1, <1>2, <1>4
  <2>3. TurnsOf(requests, r) = {}
    BY <1>1, <1>2, <1>4, NoneWait
  <2> HIDE DEF R
  <2>4. /\ RunFits(R) /\ R.open = TRUE /\ R.pending = aux /\ R.active = 0 /\ R.turn = 0
        /\ FileFits(R, <<>>, <<>>, {}, r, writers)
    BY <2>1, <2>2, StartIs
  <2>5. FileFits(R, file[r], chain[r], TurnsOf(requests, r), r, writers)
    BY <1>1, <2>2, <2>3, <2>4
  <2> QED
    BY <1>1, <1>4, <2>2, <2>4, <2>5 DEF R
<1> QED
  BY <1>3, <1>4

KeyOf(a, cls) == IF client.hinted /\ cls = "auxiliary" THEN "main" ELSE client.name[a]

\* The key a request's run is found by.
LEMMA KeyIs == ASSUME RecorderTyped, NEW a \in Agents, NEW cls PROVE KeyOf(a, cls) \in AnyKey
<1>1. client \in Clients
  BY DEF RecorderTyped
<1>2. client.name[a] \in {client.name[b] : b \in Agents}
  OBVIOUS
<1> QED
  BY <1>1, <1>2 DEF KeyOf, AnyKey

\* Run r, which is R, and what a request of agent a makes of it.
Outcome(R, a, cls) ==
  IF cls = "auxiliary" THEN [run |-> R, events |-> <<>>] ELSE onRequest(R, cls, history[a])
Sent(a, cls, r, turn) ==
  [agent |-> a, cls |-> cls, run |-> r, turn |-> turn, st |-> "sent", calls |-> <<>>]
Arrives(a, cls, r, R) ==
  LET aux == cls = "auxiliary"
      out == Outcome(R, a, cls)
  IN /\ requests' = Append(requests, Sent(a, cls, r, out.run.turn))
     /\ asking' = [asking EXCEPT ![a] = Len(requests) + 1]
     /\ runs' = Placed(runs, r, out.run)
     /\ tick' = IF aux THEN tick ELSE tick + 1
     /\ record(r, out.events, ~aux /\ (r \notin DOMAIN runs \/ R.pending))
     /\ UNCHANGED <<client, history, stop, file, lossy>>

\* Arrive as one step of one run.
LEMMA ArriveIs ==
  ASSUME RecorderInv, NEW a \in Agents, NEW cls \in Classes, Arrive(a, cls)
  PROVE  LET r == Joined(KeyOf(a, cls), history[a].len) IN
         /\ stop = "no" /\ Unspent
         /\ Arrives(a, cls, r, IF r \in DOMAIN runs THEN runs[r]
                              ELSE Started(KeyOf(a, cls), cls = "auxiliary"))
BY Zenon DEF Arrive, Arrives, Outcome, Sent, Placed, KeyOf, Started

\* What a run goes on with when a request of class cls comes.
TickAfter(cls) == IF cls = "auxiliary" THEN tick ELSE tick + 1
TurnsAfter(R, cls, T) == IF cls = "auxiliary" THEN T ELSE T \cup {R.turn + 1}
OutGoesOn(R, out, T, T2, r, ws2, n) == \E es : GoesOn(R, out.run, es, out.events, T, T2, r, ws2, n)
OpenFor(R, cls, r, ws2) == IF cls = "auxiliary" THEN R.pending = TRUE <=> r \notin ws2 ELSE r \in ws2

\* What a run goes on with when a request comes: its turn waits, if it is recorded.
LEMMA RequestGoesOn ==
  ASSUME NEW R, RunFits(R), R.open = TRUE, R.active <= tick, tick \in Nat, NEW a \in Agents,
         history \in [Agents -> Histories], NEW cls, NEW T, NEW r,
         NEW ws2, r \notin ws2 => R.turn = 0, OpenFor(R, cls, r, ws2)
  PROVE  /\ Outcome(R, a, cls).run.turn = IF cls = "auxiliary" THEN R.turn ELSE R.turn + 1
         /\ OutGoesOn(R, Outcome(R, a, cls), T, TurnsAfter(R, cls, T), r, ws2, TickAfter(cls))
<1> USE DEF TickAfter, TurnsAfter, OpenFor
<1>1. CASE cls = "auxiliary"
  <2> DEFINE N == <<>>
             O == Outcome(R, a, cls)
  <2>1. O.run = R /\ O.events = N
    BY <1>1 DEF Outcome
  <2>2. N \in Seq(Events) /\ N = Numbered(R, N) /\ EventsFit(R, N, R, T, T)
    BY NothingRecorded
  <2> HIDE DEF N, O
  <2>3. r \in ws2 \/ N = <<>>
    BY DEF N
  <2>4. GoesOn(R, R, N, N, T, T, r, ws2, tick)
    BY <1>1, <2>2, <2>3 DEF GoesOn
  <2> QED
    BY <1>1, <2>1, <2>4, Zenon DEF O, OutGoesOn
<1>2. CASE cls # "auxiliary"
  <2> DEFINE O == onRequest(R, cls, history[a])
  <2>1. Outcome(R, a, cls) = O
    BY <1>2 DEF Outcome
  <2>2. /\ RunFits(O.run) /\ O.run.open = TRUE /\ O.run.pending = FALSE
        /\ O.run.turn = R.turn + 1 /\ O.run.active = tick + 1
        /\ \E es \in Seq(Events) : /\ O.events = Numbered(R, es)
                                   /\ EventsFit(R, es, O.run, T, T \cup {R.turn + 1})
    BY AfterRequest
  <2> HIDE DEF O
  <2>3. PICK es \in Seq(Events) : /\ O.events = Numbered(R, es)
                                  /\ EventsFit(R, es, O.run, T, T \cup {R.turn + 1})
    BY <2>2
  <2>4. O.run.active <= tick + 1 /\ r \in ws2
    BY <1>2, <2>2
  <2>5. GoesOn(R, O.run, es, O.events, T, T \cup {R.turn + 1}, r, ws2, tick + 1)
    BY <2>2, <2>3, <2>4 DEF GoesOn
  <2> QED
    BY <1>2, <2>1, <2>2, <2>5, Zenon DEF OutGoesOn
<1> QED
  BY <1>1, <1>2

\* A request comes: the run it joins, or a new one, goes on by onRequest or onAuxiliary.
LEMMA ArriveKeeps ==
  ASSUME RecorderInv, NEW a \in Agents, NEW cls \in Classes, Arrive(a, cls)
  PROVE  RecorderInv'
<1> DEFINE r == Joined(KeyOf(a, cls), history[a].len)
           R == IF r \in DOMAIN runs THEN runs[r] ELSE Started(KeyOf(a, cls), cls = "auxiliary")
           aux == cls = "auxiliary"
           T == TurnsOf(requests, r)
           T2 == TurnsAfter(R, cls, T)
           O == Outcome(R, a, cls)
           q == Sent(a, cls, r, O.run.turn)
           meta == ~aux /\ (r \notin DOMAIN runs \/ R.pending)
<1>1. /\ RecorderTyped /\ RecorderLinked /\ runs \in Seq(Runs) /\ tick \in Nat
      /\ requests \in Seq(Requests) /\ Len(runs) <= Len(requests) /\ MaxRequests \in Nat
      /\ history \in [Agents -> Histories] /\ asking \in [Agents -> Nat] /\ DOMAIN chain = RunIds
      /\ RequestsLinked(requests, runs)
  BY RecorderAssumption DEF RecorderInv, RecorderTyped, RecorderLinked, RunsTyped
<1>2. stop = "no" /\ Unspent /\ Arrives(a, cls, r, R)
  BY ArriveIs, Zenon
<1>3. DOMAIN runs = 1 .. Len(runs) /\ Len(runs) \in Nat /\ Len(requests) \in Nat
  BY <1>1
<1>4. Len(requests) < MaxRequests
  BY <1>1, <1>2, UnspentIs
<1>5. r \in 1 .. Len(runs) + 1 /\ KeyOf(a, cls) \in AnyKey
  BY <1>1, JoinedIs, KeyIs
<1>6. r \in RunIds
  BY <1>1, <1>3, <1>4, <1>5 DEF RunIds
<1>7. aux \in BOOLEAN
  OBVIOUS
<1> HIDE DEF r
<1>8. /\ RunFits(R) /\ R.open = TRUE /\ R.active <= tick
      /\ r \in DOMAIN runs => R = runs[r] /\ (R.pending = TRUE <=> r \notin writers)
      /\ r \notin DOMAIN runs => R.pending = aux /\ r \notin writers
      /\ r \notin writers => R.turn = 0
      /\ r \notin lossy => FileFits(R, file[r], chain[r], T, r, writers)
  BY <1>2, <1>5, <1>6, <1>7, RunOfRequest
<1> HIDE DEF R
<1>9. R \in Runs /\ R.pending \in BOOLEAN /\ R.turn \in Nat
  BY <1>8, RunParts DEF RunFits
<1>10. meta \in BOOLEAN /\ record(r, O.events, meta)
  BY <1>2, Zenon DEF Arrives
<1> HIDE DEF meta
<1>11. /\ RecordsTo(chain, chain', writers, writers', r, O.events)
       /\ meta = TRUE => r \in writers'
       /\ meta = FALSE => writers' = writers
  BY <1>1, <1>6, <1>10, RecordIs
<1>12. writers \subseteq writers'
  BY <1>11 DEF RecordsTo
<1>13. OpenFor(R, cls, r, writers')
  <2>1. CASE aux
    <3>1. meta = FALSE
      BY <2>1 DEF meta
    <3>2. writers' = writers
      BY <1>11, <3>1
    <3>3. R.pending = TRUE <=> r \notin writers
      BY <1>8, <2>1
    <3> QED
      BY <2>1, <3>2, <3>3 DEF OpenFor
  <2>2. CASE ~aux
    <3>1. CASE r \in writers
      BY <1>12, <2>2, <3>1 DEF OpenFor
    <3>2. CASE r \notin writers
      <4>1. r \notin DOMAIN runs \/ R.pending = TRUE
        BY <1>8, <3>2
      <4>2. meta = TRUE
        BY <2>2, <4>1, Zenon DEF meta
      <4> QED
        BY <1>11, <2>2, <4>2 DEF OpenFor
    <3> QED
      BY <3>1, <3>2
  <2> QED
    BY <2>1, <2>2
<1>14. /\ client' = client /\ history' = history /\ stop' = stop /\ file' = file /\ lossy' = lossy
       /\ tick' = IF aux THEN tick ELSE tick + 1
       /\ requests' = Append(requests, q) /\ runs' = Placed(runs, r, O.run)
       /\ asking' = [asking EXCEPT ![a] = Len(requests) + 1]
  BY <1>2, Zenon DEF Arrives
<1>15. tick' \in Nat /\ tick <= tick'
  BY <1>1, <1>14
<1>16. r \notin writers' => R.turn = 0
  BY <1>8, <1>12
<1>17. /\ O.run.turn = IF aux THEN R.turn ELSE R.turn + 1
       /\ OutGoesOn(R, O, T, T2, r, writers', TickAfter(cls))
  BY <1>1, <1>8, <1>13, <1>16, RequestGoesOn
<1> HIDE DEF O, T2
<1>18. PICK es : GoesOn(R, O.run, es, O.events, T, T2, r, writers', tick')
  BY <1>14, <1>17 DEF OutGoesOn, TickAfter
<1>19. RunFits(O.run)
  BY <1>18 DEF GoesOn
<1>20. O.run \in Runs
  BY <1>19 DEF RunFits
<1>21. 1 .. Len(Placed(runs, r, O.run)) \subseteq RunIds
  <2>1. Len(Placed(runs, r, O.run)) <= Len(runs) + 1
    <3>1. CASE r \in DOMAIN runs
      <4>1. Len(Placed(runs, r, O.run)) = Len(runs)
        BY <1>1, <3>1 DEF Placed
      <4> QED
        BY <1>3, <4>1
    <3>2. CASE r \notin DOMAIN runs
      <4>1. Len(Placed(runs, r, O.run)) = Len(runs) + 1
        BY <1>1, <3>2 DEF Placed
      <4> QED
        BY <1>3, <4>1
    <3> QED
      BY <3>1, <3>2
  <2> QED
    BY <1>1, <1>3, <1>4, <2>1 DEF RunIds
<1>22. /\ runs' \in Seq(Runs) /\ OneGoesOn(runs, runs', r, O.run)
       /\ Len(runs') = IF r \in 1 .. Len(runs) THEN Len(runs) ELSE Len(runs) + 1
  BY <1>1, <1>5, <1>14, <1>20, <1>21, PlacedIs
<1>23. q \in Requests /\ q.st = "sent" /\ q.run = r /\ q.cls = cls /\ q.turn = O.run.turn
  <2> DEFINE none == <<>>
             turn == O.run.turn
  <2>1. turn \in Nat /\ r \in Nat /\ none \in Seq(Wires) /\ "sent" \in States
    BY <1>6, <1>9, <1>17 DEF RunIds, States
  <2> HIDE DEF none, turn
  <2> DEFINE p == [agent |-> a, cls |-> cls, run |-> r, turn |-> turn, st |-> "sent", calls |-> none]
  <2>2. p \in Requests /\ p.st = "sent" /\ p.run = r /\ p.cls = cls /\ p.turn = turn
    BY <2>1 DEF Requests
  <2>3. p = q
    BY DEF Sent, none, turn
  <2> QED
    BY <2>2, <2>3 DEF turn
<1> HIDE DEF q
<1>24. requests' \in Seq(Requests) /\ Len(requests') = Len(requests) + 1
  BY <1>1, <1>14, <1>23
<1>25. T2 = Waits(T, q)
  BY <1>17, <1>23 DEF Waits, TurnsAfter, T2
<1>26. Moved(requests, requests', r, T2)
  <2>1. Moved(requests, Append(requests, q), q.run, Waits(TurnsOf(requests, q.run), q))
    BY <1>1, <1>23, ArrivalTurns
  <2> QED
    BY <1>14, <1>23, <1>25, <2>1
<1>27. ASSUME RunsGoOn(runs, runs') PROVE RequestsLinked(requests', runs')
  <2>1. r \in 1 .. Len(runs') /\ runs'[r] = O.run
    BY <1>22 DEF OneGoesOn
  <2>2. q.cls # "auxiliary" => /\ q.turn = runs'[q.run].turn /\ q.turn \in Nat /\ q.turn >= 1
                               /\ q.run \in 1 .. Len(runs) => runs[q.run].turn < q.turn
    BY <1>3, <1>8, <1>9, <1>17, <1>23, <2>1
  <2>3. RequestsLinked(Append(requests, q), runs')
    BY <1>1, <1>23, <1>27, <2>1, <2>2, ArrivalLinked
  <2> QED
    BY <1>14, <2>3
<1>28. asking' \in [Agents -> Nat] /\ \A b \in Agents : asking'[b] <= Len(requests')
  <2>1. \A b \in Agents : asking[b] <= Len(requests) /\ asking[b] \in Nat
    BY <1>1 DEF RecorderTyped
  <2> QED
    BY <1>1, <1>3, <1>14, <1>24, <2>1
<1>29. Len(runs) <= Len(runs') /\ Len(runs') <= Len(requests') /\ Len(requests') <= MaxRequests
  BY <1>1, <1>3, <1>4, <1>22, <1>24
<1>30. stop \in {"no", "aborted"} /\ UNCHANGED <<client, file, lossy, stop>>
  BY <1>2, <1>14
<1>31. r \in 1 .. Len(runs) => R = runs[r]
  BY <1>3, <1>8
<1>32. r \notin lossy => FileFits(R, file[r], chain[r], T, r, writers)
  BY <1>8
<1> HIDE DEF T
<1> QED
  BY <1>6, <1>11, <1>14, <1>15, <1>18, <1>22, <1>24, <1>26, <1>27, <1>28, <1>29, <1>30, <1>31,
     <1>32, OneRunStep

\* What a run goes on with when a request ends: its turn waits no longer.
LEMMA ReplyGoesOn ==
  ASSUME NEW R, RunFits(R), R.open = TRUE, R.active <= tick, NEW q \in Requests, NEW ok \in BOOLEAN,
         NEW T, q.cls # "auxiliary" => q.turn \in T /\ q.turn \in 1 .. R.turn,
         NEW r, NEW ws, R.pending = TRUE <=> r \notin ws, r \notin ws => R.turn = 0
  PROVE  OutGoesOn(R, onReply(R, q, ok), T, Settled(T, q), r, ws, tick)
<1> DEFINE O == onReply(R, q, ok)
<1>0. Answers(R, O, T, q)
  BY AfterReply
<1> HIDE DEF O
<1>1. PICK es : /\ O.events = Numbered(R, es) /\ Replies(R, es, O.run, T, q)
                /\ q.cls = "auxiliary" /\ R.pending = TRUE => O.events = <<>>
  BY <1>0, Zenon DEF Answers
<1>2. r \in ws \/ O.events = <<>>
  <2>1. CASE r \notin ws
    <3>1. R.pending = TRUE /\ R.turn = 0
      BY <2>1
    <3>2. q.cls = "auxiliary"
      BY <3>1
    <3> QED
      BY <1>1, <3>1, <3>2
  <2> QED
    BY <2>1
<1>3. GoesOn(R, O.run, es, O.events, T, Settled(T, q), r, ws, tick)
  BY <1>1, <1>2 DEF GoesOn, Replies
<1> QED
  BY <1>3, Zenon DEF OutGoesOn, O

\* A handler ends, with its reply or without: its run goes on by onReply.
LEMMA EndsKeeps ==
  ASSUME RecorderInv, NEW k \in DOMAIN requests, requests[k].st # "gone", NEW ok \in BOOLEAN, ends(k, ok)
  PROVE  RecorderInv'
<1> DEFINE q == requests[k]
           r == q.run
           R == runs[r]
           O == onReply(R, q, ok)
           T == TurnsOf(requests, r)
           T2 == Settled(T, q)
<1>1. /\ RecorderTyped /\ RecorderLinked /\ runs \in Seq(Runs) /\ tick \in Nat
      /\ requests \in Seq(Requests) /\ Len(runs) <= Len(requests) /\ MaxRequests \in Nat
      /\ Len(requests) <= MaxRequests /\ asking \in [Agents -> Nat] /\ DOMAIN chain = RunIds
      /\ RequestsLinked(requests, runs) /\ RunsTyped(runs, tick, writers)
      /\ FilesFit(runs, file, chain, requests, writers, lossy)
  BY RecorderAssumption DEF RecorderInv, RecorderTyped, RecorderLinked, RunsTyped
<1>2. /\ requests' = [requests EXCEPT ![k] = gone(@)]
      /\ asking' = [asking EXCEPT ![q.agent] = IF @ = k THEN 0 ELSE @]
      /\ runs' = [runs EXCEPT ![r] = O.run]
      /\ record(r, O.events, FALSE)
      /\ client' = client /\ history' = history /\ stop' = stop /\ file' = file /\ lossy' = lossy
      /\ tick' = tick
  BY DEF ends
<1>3. /\ DOMAIN runs = 1 .. Len(runs) /\ Len(runs) \in Nat /\ Len(requests) \in Nat
      /\ k \in 1 .. Len(requests) /\ q \in Requests
  BY <1>1
<1>4. k \in LiveIn(requests)
  BY <1>3 DEF LiveIn
<1>5. stop \in {"no", "aborted"} /\ AllOpen(runs)
  BY <1>1, <1>4 DEF RecorderLinked
<1>6. /\ r \in 1 .. Len(runs)
      /\ q.cls # "auxiliary" => q.turn \in 1 .. R.turn
  BY <1>1, <1>4 DEF RequestsLinked
<1>7. q.cls # "auxiliary" => q.turn \in T
  BY <1>4 DEF TurnsOf, Asks
<1>8. r \in RunIds
  BY <1>1, <1>3, <1>6 DEF RunIds
<1>9. Moved(requests, requests', r, T2) /\ RequestsLinked(requests', runs)
  BY <1>1, <1>2, <1>4, EndLinked
<1>10. requests' \in Seq(Requests) /\ Len(requests') = Len(requests)
  <2>1. gone(q) \in Requests
    BY <1>3, GoneIs
  <2>2. requests' = [requests EXCEPT ![k] = gone(q)]
    BY <1>2
  <2> QED
    BY <1>1, <1>3, <2>1, <2>2
<1>11. asking' \in [Agents -> Nat] /\ \A b \in Agents : asking'[b] <= Len(requests')
  <2>1. \A b \in Agents : asking[b] <= Len(requests) /\ asking[b] \in Nat
    BY <1>1 DEF RecorderTyped
  <2> DEFINE b == q.agent
             v == IF asking[b] = k THEN 0 ELSE asking[b]
  <2>2. b \in Agents
    BY <1>3 DEF Requests
  <2>3. asking' = [asking EXCEPT ![b] = v]
    BY <1>2
  <2> HIDE DEF b
  <2>4. v \in Nat /\ v <= Len(requests)
    BY <1>3, <2>1, <2>2
  <2> HIDE DEF v
  <2> QED
    BY <1>1, <1>10, <2>1, <2>2, <2>3, <2>4
<1> HIDE DEF q, r
<1>12. /\ RunFits(R) /\ R.open = TRUE /\ R.active <= tick /\ (R.pending = TRUE <=> r \notin writers)
       /\ (r \notin writers => R.turn = 0)
  BY <1>1, <1>5, <1>6 DEF RunsTyped, AllOpen
<1>13. r \notin lossy => FileFits(R, file[r], chain[r], T, r, writers)
  BY <1>1, <1>6 DEF FilesFit
<1>14. OutGoesOn(R, O, T, T2, r, writers, tick)
  BY <1>3, <1>6, <1>7, <1>12, ReplyGoesOn
<1> HIDE DEF O, T2
<1>15. PICK es : GoesOn(R, O.run, es, O.events, T, T2, r, writers, tick)
  BY <1>14 DEF OutGoesOn
<1>16. RecordsTo(chain, chain', writers, writers', r, O.events) /\ writers' = writers
  BY <1>1, <1>2, <1>8, RecordIs
<1>17. O.run \in Runs
  BY <1>15 DEF GoesOn, RunFits
<1>18. runs' = Placed(runs, r, O.run)
  BY <1>2, <1>3, <1>6 DEF Placed
<1>19. Len(runs') = Len(runs)
  BY <1>1, <1>2
<1>20. 1 .. Len(Placed(runs, r, O.run)) \subseteq RunIds
  BY <1>1, <1>3, <1>18, <1>19 DEF RunIds
<1>21. runs' \in Seq(Runs) /\ OneGoesOn(runs, runs', r, O.run)
  <2>1. r \in 1 .. Len(runs) + 1
    BY <1>3, <1>6
  <2> QED
    BY <1>1, <1>17, <1>18, <1>20, <2>1, PlacedIs
<1>22. ASSUME RunsGoOn(runs, runs') PROVE RequestsLinked(requests', runs')
  BY <1>9, <1>22, LinkedGoesOn
<1>23. GoesOn(R, O.run, es, O.events, T, T2, r, writers', tick')
  BY <1>2, <1>15, <1>16
<1>24. Len(runs) <= Len(runs') /\ Len(runs') <= Len(requests') /\ Len(requests') <= MaxRequests
  BY <1>1, <1>3, <1>10, <1>19
<1>25. UNCHANGED <<client, file, lossy, stop>> /\ tick' \in Nat /\ tick <= tick'
  BY <1>1, <1>2
<1>26. r \in 1 .. Len(runs) => R = runs[r]
  OBVIOUS
<1> HIDE DEF T, R
<1> QED
  BY <1>2, <1>5, <1>8, <1>9, <1>10, <1>11, <1>13, <1>16, <1>21, <1>22, <1>23, <1>24, <1>25, <1>26,
     OneRunStep

\* A step that leaves the runs and their files as they are.
LEMMA SameRunsStep ==
  ASSUME RecorderInv, stop \in {"no", "aborted"}, stop' \in {"no", "aborted"},
         UNCHANGED <<client, sessions, writers, chain, file, lossy>>,
         SameRequests(requests, requests'), requests' \in Seq(Requests),
         history' \in [Agents -> Histories], asking' \in [Agents -> Nat],
         \A a \in Agents : asking'[a] <= Len(requests)
  PROVE  RecorderInv'
<1>1. /\ client' = client /\ runs' = runs /\ tick' = tick /\ writers' = writers /\ chain' = chain
      /\ file' = file /\ lossy' = lossy /\ Len(requests') = Len(requests)
  BY DEF sessions, SameRequests
<1>2. /\ RequestsLinked(requests', runs) /\ LiveIn(requests') = LiveIn(requests)
      /\ \A r : TurnsOf(requests', r) = TurnsOf(requests, r)
  BY SameKeeps DEF RecorderInv, RecorderLinked
<1>3. RecorderTyped'
  BY <1>1 DEF RecorderInv, RecorderTyped, Stops
<1>4. RecorderLinked'
  BY <1>1, <1>2 DEF RecorderInv, RecorderLinked
<1>5. FilesFit(runs', file', chain', requests', writers', lossy')
  BY <1>1, <1>2 DEF RecorderInv, FilesFit
<1> QED
  BY <1>3, <1>4, <1>5 DEF RecorderInv

\* Request k, of those that are there, becomes q.
LEMMA OneRequest ==
  ASSUME NEW Q \in Seq(Requests), NEW k \in 1 .. Len(Q), NEW q \in Requests, q.run = Q[k].run,
         q.turn = Q[k].turn, q.cls = Q[k].cls, Q[k].st # "gone", q.st # "gone"
  PROVE  [Q EXCEPT ![k] = q] \in Seq(Requests) /\ SameRequests(Q, [Q EXCEPT ![k] = q])
<1> DEFINE Q2 == [Q EXCEPT ![k] = q]
<1>1. Q2 \in Seq(Requests) /\ Len(Q2) = Len(Q) /\ Q2[k] = q /\ \A m \in 1 .. Len(Q) : m # k => Q2[m] = Q[m]
  OBVIOUS
<1> HIDE DEF Q2
<1>2. SameRequests(Q, Q2)
  BY <1>1 DEF SameRequests
<1> QED
  BY <1>1, <1>2 DEF Q2

\* What the invariant says of a request that is live.
LEMMA LiveRequest ==
  ASSUME RecorderInv, NEW k \in DOMAIN requests, requests[k].st # "gone"
  PROVE  /\ requests \in Seq(Requests) /\ k \in 1 .. Len(requests) /\ requests[k] \in Requests
         /\ requests[k].agent \in Agents /\ stop \in {"no", "aborted"}
         /\ asking \in [Agents -> Nat] /\ \A a \in Agents : asking[a] <= Len(requests)
         /\ history \in [Agents -> Histories]
<1>1. /\ requests \in Seq(Requests) /\ asking \in [Agents -> Nat]
      /\ \A a \in Agents : asking[a] <= Len(requests)
      /\ history \in [Agents -> Histories]
  BY DEF RecorderInv, RecorderTyped
<1>2. k \in 1 .. Len(requests) /\ requests[k] \in Requests
  BY <1>1
<1>3. k \in LiveIn(requests)
  BY <1>2 DEF LiveIn
<1>4. stop \in {"no", "aborted"}
  BY <1>3 DEF RecorderInv, RecorderLinked
<1> QED
  BY <1>1, <1>2, <1>4 DEF Requests

\* An agent that asks no more.
LEMMA AskingFreed ==
  ASSUME NEW b \in Agents, asking \in [Agents -> Nat], \A a \in Agents : asking[a] <= Len(requests),
         Len(requests) \in Nat
  PROVE  LET A == [asking EXCEPT ![b] = 0] IN A \in [Agents -> Nat] /\ \A a \in Agents : A[a] <= Len(requests)
OBVIOUS

\* A reply starts: its request goes a step on.
LEMMA ForwardKeeps ==
  ASSUME RecorderInv, NEW k \in DOMAIN requests, NEW n \in 0 .. MaxCalls, Forward(k, n)
  PROVE  RecorderInv'
<1> DEFINE q == requests[k]
           calls == [i \in 1 .. n |-> <<k, i>>]
           p == [q EXCEPT !.st = "forwarded", !.calls = calls]
           h == history[q.agent]
           none == <<>>
           h2 == CASE q.cls = "main"       -> [len |-> h.len + 2, echoed |-> calls]
                   [] q.cls = "compaction" -> [len |-> 1, echoed |-> none]
                   [] OTHER                -> h
<1>1. /\ q.st = "sent" /\ requests' = [requests EXCEPT ![k] = p]
      /\ asking' = [asking EXCEPT ![q.agent] = 0]
      /\ history' = [history EXCEPT ![q.agent] = h2]
      /\ UNCHANGED <<client, sessions, writers, chain, stop, file, lossy>>
  BY DEF Forward
<1>2. /\ requests \in Seq(Requests) /\ k \in 1 .. Len(requests) /\ q \in Requests
      /\ q.agent \in Agents /\ stop \in {"no", "aborted"}
      /\ asking \in [Agents -> Nat] /\ \A a \in Agents : asking[a] <= Len(requests)
      /\ history \in [Agents -> Histories]
  BY <1>1, LiveRequest
<1>3. n \in Nat /\ k \in Nat
  BY <1>2, RecorderAssumption
<1>4. calls \in Seq(Wires)
  <2>1. \A i \in 1 .. n : <<k, i>> \in Wires
    BY <1>3 DEF Wires
  <2>2. calls \in [1 .. n -> Wires]
    BY <2>1, Zenon
  <2> HIDE DEF calls
  <2> QED
    BY <1>3, <2>2
<1> HIDE DEF calls
<1>5. p \in Requests /\ p.st = "forwarded" /\ p.run = q.run /\ p.turn = q.turn /\ p.cls = q.cls
  <2>1. "forwarded" \in States
    BY DEF States
  <2> HIDE DEF q
  <2> QED
    BY <1>2, <1>4, <2>1 DEF Requests
<1>6. h2 \in Histories
  <2>1. h \in Histories
    BY <1>2
  <2>2. h.len \in Nat /\ none \in Seq(Wires)
    BY <2>1 DEF Histories
  <2> HIDE DEF h, none
  <2>3. [len |-> h.len + 2, echoed |-> calls] \in Histories /\ [len |-> 1, echoed |-> none] \in Histories
    BY <1>4, <2>2 DEF Histories
  <2> QED
    BY <2>1, <2>3, Zenon
<1> HIDE DEF p, h2
<1>7. requests' \in Seq(Requests) /\ SameRequests(requests, requests')
  BY <1>1, <1>2, <1>5, OneRequest
<1>8. asking' \in [Agents -> Nat] /\ \A a \in Agents : asking'[a] <= Len(requests)
  BY <1>1, <1>2, AskingFreed
<1>9. history' \in [Agents -> Histories]
  BY <1>1, <1>2, <1>6
<1>10. stop' \in {"no", "aborted"} /\ UNCHANGED <<client, sessions, writers, chain, file, lossy>>
  BY <1>1, <1>2
<1> QED
  BY <1>2, <1>7, <1>8, <1>9, <1>10, SameRunsStep

\* A client leaves: its request goes a step on.
LEMMA LeaveKeeps ==
  ASSUME RecorderInv, NEW k \in DOMAIN requests, Leave(k)
  PROVE  RecorderInv'
<1> DEFINE q == requests[k]
           p == [q EXCEPT !.st = "aborted"]
<1>1. /\ q.st = "sent" /\ requests' = [requests EXCEPT ![k] = p]
      /\ asking' = [asking EXCEPT ![q.agent] = 0]
      /\ UNCHANGED <<client, history, sessions, writers, chain, stop, file, lossy>>
  BY DEF Leave
<1>2. /\ requests \in Seq(Requests) /\ k \in 1 .. Len(requests) /\ q \in Requests
      /\ q.agent \in Agents /\ stop \in {"no", "aborted"}
      /\ asking \in [Agents -> Nat] /\ \A a \in Agents : asking[a] <= Len(requests)
      /\ history \in [Agents -> Histories]
  BY <1>1, LiveRequest
<1>3. p \in Requests /\ p.st = "aborted" /\ p.run = q.run /\ p.turn = q.turn /\ p.cls = q.cls
  <2>1. "aborted" \in States
    BY DEF States
  <2> HIDE DEF q
  <2> QED
    BY <1>2, <2>1 DEF Requests
<1> HIDE DEF p
<1>4. requests' \in Seq(Requests) /\ SameRequests(requests, requests')
  BY <1>1, <1>2, <1>3, OneRequest
<1>5. asking' \in [Agents -> Nat] /\ \A a \in Agents : asking'[a] <= Len(requests)
  BY <1>1, <1>2, AskingFreed
<1>6. /\ stop' \in {"no", "aborted"} /\ history' \in [Agents -> Histories]
      /\ UNCHANGED <<client, sessions, writers, chain, file, lossy>>
  BY <1>1, <1>2
<1> QED
  BY <1>2, <1>4, <1>5, <1>6, SameRunsStep

\* stop() aborts what is in flight, or has nothing to wait for.
LEMMA StopKeeps == ASSUME RecorderInv, Stop PROVE RecorderInv'
<1> DEFINE next(k) == IF requests[k].st = "gone" THEN requests[k] ELSE [requests[k] EXCEPT !.st = "aborted"]
<1>1. /\ stop = "no" /\ stop' = "aborted"
      /\ requests' = [k \in DOMAIN requests |-> next(k)]
      /\ UNCHANGED <<agents, sessions, writers, chain, file, lossy>>
  BY DEF Stop
<1>2. /\ requests \in Seq(Requests) /\ asking \in [Agents -> Nat] /\ history \in [Agents -> Histories]
      /\ \A a \in Agents : asking[a] <= Len(requests)
  BY DEF RecorderInv, RecorderTyped
<1>3. DOMAIN requests = 1 .. Len(requests) /\ Len(requests) \in Nat
  BY <1>2
<1>4. ASSUME NEW k \in 1 .. Len(requests)
      PROVE  /\ next(k) \in Requests /\ next(k).run = requests[k].run
             /\ next(k).turn = requests[k].turn /\ next(k).cls = requests[k].cls
             /\ next(k).st = "gone" <=> requests[k].st = "gone"
  <2> DEFINE q == requests[k]
             p == [q EXCEPT !.st = "aborted"]
  <2>1. q \in Requests /\ "aborted" \in States
    BY <1>2 DEF States
  <2> HIDE DEF q
  <2>2. p \in Requests /\ p.st = "aborted" /\ p.run = q.run /\ p.turn = q.turn /\ p.cls = q.cls
    BY <2>1 DEF Requests
  <2>3. next(k) = IF q.st = "gone" THEN q ELSE p
    BY DEF q
  <2> HIDE DEF p, next
  <2> QED
    BY <2>1, <2>2, <2>3 DEF q
<1> HIDE DEF next
<1>5. requests' \in [1 .. Len(requests) -> Requests] /\ \A k \in 1 .. Len(requests) : requests'[k] = next(k)
  BY <1>1, <1>3, <1>4
<1>6. requests' \in Seq(Requests) /\ Len(requests') = Len(requests)
  BY <1>3, <1>5
<1>7. SameRequests(requests, requests')
  BY <1>4, <1>5, <1>6 DEF SameRequests
<1>8. /\ client' = client /\ history' = history /\ asking' = asking
      /\ stop \in {"no", "aborted"} /\ stop' \in {"no", "aborted"}
      /\ UNCHANGED <<client, sessions, writers, chain, file, lossy>>
  BY <1>1 DEF agents
<1> QED
  BY <1>2, <1>6, <1>7, <1>8, SameRunsStep

\* Only a run that is there has appends that wait.
LEMMA ChainOfRun ==
  ASSUME RecorderInv, NEW r \in RunIds, chain[r] # <<>>
  PROVE  r \in 1 .. Len(runs)
<1>1. Len(runs) \in Nat
  BY DEF RecorderInv, RecorderTyped, RunsTyped
<1>2. ~(r > Len(runs))
  BY DEF RecorderInv, RecorderLinked
<1> QED
  BY <1>1, <1>2 DEF RunIds

\* The next append of a chain is written.
LEMMA WriteKeeps ==
  ASSUME RecorderInv, NEW r \in RunIds, Write(r)
  PROVE  RecorderInv'
<1> DEFINE f == file[r] \o Head(chain[r])
           ch == Tail(chain[r])
<1>1. /\ chain[r] # <<>> /\ file' = [file EXCEPT ![r] = f] /\ chain' = [chain EXCEPT ![r] = ch]
      /\ client' = client /\ history' = history /\ asking' = asking /\ runs' = runs /\ tick' = tick
      /\ requests' = requests /\ writers' = writers /\ stop' = stop /\ lossy' = lossy
  BY DEF Write, agents, sessions
<1>2. /\ DOMAIN chain = RunIds /\ DOMAIN file = RunIds
      /\ FilesFit(runs, file, chain, requests, writers, lossy)
      /\ \A s \in RunIds : s > Len(runs) => file[s] = <<>> /\ chain[s] = <<>>
  BY DEF RecorderInv, RecorderTyped, RecorderLinked
<1>3. r \in 1 .. Len(runs)
  BY <1>1, ChainOfRun
<1>4. Len(runs) \in Nat /\ 1 .. Len(runs) \subseteq RunIds
  <2>1. Len(runs) \in Nat /\ Len(requests) \in Nat /\ Len(runs) <= Len(requests) /\ Len(requests) <= MaxRequests
    BY DEF RecorderInv, RecorderTyped, RunsTyped
  <2> QED
    BY <2>1, RecorderAssumption DEF RunIds
<1>5. r \notin lossy => FileFits(runs[r], f, ch, TurnsOf(requests, r), r, writers)
  BY <1>1, <1>2, <1>3, FileTakes DEF FilesFit
<1> HIDE DEF f, ch
<1>6. /\ DOMAIN chain' = RunIds /\ DOMAIN file' = RunIds /\ chain'[r] = ch /\ file'[r] = f
      /\ \A s \in RunIds : s # r => chain'[s] = chain[s] /\ file'[s] = file[s]
  BY <1>1, <1>2
<1>7. RecorderTyped'
  BY <1>1, <1>6 DEF RecorderInv, RecorderTyped
<1>8. RecorderLinked'
  <2>1. \A s \in RunIds : s > Len(runs) => file'[s] = <<>> /\ chain'[s] = <<>>
    BY <1>2, <1>3, <1>4, <1>6
  <2> QED
    BY <1>1, <2>1 DEF RecorderInv, RecorderLinked
<1>9. FilesFit(runs', file', chain', requests', writers', lossy')
  <2> SUFFICES ASSUME NEW s \in 1 .. Len(runs), s \notin lossy
               PROVE  FileFits(runs[s], file'[s], chain'[s], TurnsOf(requests, s), s, writers)
    BY <1>1 DEF FilesFit
  <2>1. CASE s = r
    BY <1>5, <1>6, <2>1
  <2>2. CASE s # r
    <3>1. file'[s] = file[s] /\ chain'[s] = chain[s]
      BY <1>4, <1>6, <2>2
    <3> QED
      BY <1>2, <3>1 DEF FilesFit
  <2> QED
    BY <2>1, <2>2
<1> QED
  BY <1>7, <1>8, <1>9 DEF RecorderInv

\* An append fails: its run is lossy from then on.
LEMMA WriteFailsKeeps ==
  ASSUME RecorderInv, NEW r \in RunIds, WriteFails(r)
  PROVE  RecorderInv'
<1> DEFINE ch == IF Head(chain[r]) = Open THEN Tail(Tail(chain[r])) ELSE Tail(chain[r])
<1>1. /\ chain[r] # <<>> /\ chain' = [chain EXCEPT ![r] = ch] /\ lossy' = lossy \cup {r}
      /\ client' = client /\ history' = history /\ asking' = asking /\ runs' = runs /\ tick' = tick
      /\ requests' = requests /\ writers' = writers /\ stop' = stop /\ file' = file
  BY DEF WriteFails, agents, sessions
<1>2. /\ DOMAIN chain = RunIds
      /\ FilesFit(runs, file, chain, requests, writers, lossy)
      /\ \A s \in RunIds : s > Len(runs) => file[s] = <<>> /\ chain[s] = <<>>
  BY DEF RecorderInv, RecorderTyped, RecorderLinked
<1>3. r \in 1 .. Len(runs)
  BY <1>1, ChainOfRun
<1>4. Len(runs) \in Nat /\ 1 .. Len(runs) \subseteq RunIds
  <2>1. Len(runs) \in Nat /\ Len(requests) \in Nat /\ Len(runs) <= Len(requests) /\ Len(requests) <= MaxRequests
    BY DEF RecorderInv, RecorderTyped, RunsTyped
  <2> QED
    BY <2>1, RecorderAssumption DEF RunIds
<1> HIDE DEF ch
<1>5. DOMAIN chain' = RunIds /\ \A s \in RunIds : s # r => chain'[s] = chain[s]
  BY <1>1, <1>2
<1>6. RecorderTyped'
  BY <1>1, <1>5 DEF RecorderInv, RecorderTyped
<1>7. RecorderLinked'
  <2>1. \A s \in RunIds : s > Len(runs) => file[s] = <<>> /\ chain'[s] = <<>>
    BY <1>2, <1>3, <1>4, <1>5
  <2> QED
    BY <1>1, <2>1 DEF RecorderInv, RecorderLinked
<1>8. FilesFit(runs', file', chain', requests', writers', lossy')
  <2> SUFFICES ASSUME NEW s \in 1 .. Len(runs), s \notin lossy, s # r
               PROVE  FileFits(runs[s], file[s], chain'[s], TurnsOf(requests, s), s, writers)
    BY <1>1 DEF FilesFit
  <2>1. chain'[s] = chain[s]
    BY <1>4, <1>5
  <2> QED
    BY <1>2, <2>1 DEF FilesFit
<1> QED
  BY <1>6, <1>7, <1>8 DEF RecorderInv

\* stop() ends the runs when no handler records any more.
LEMMA ClosesKeeps ==
  ASSUME RecorderInv, StopCloses
  PROVE  RecorderInv'
<1>1. /\ RunsTyped(runs, tick, writers) /\ requests \in Seq(Requests) /\ DOMAIN chain = RunIds
      /\ Len(runs) <= Len(requests) /\ Len(requests) <= MaxRequests /\ writers \subseteq 1 .. Len(runs)
      /\ RequestsLinked(requests, runs) /\ FilesFit(runs, file, chain, requests, writers, lossy)
      /\ \A s \in RunIds : s > Len(runs) => file[s] = <<>> /\ chain[s] = <<>>
      /\ runs \in Seq(Runs) /\ tick \in Nat
  BY DEF RecorderInv, RecorderTyped, RecorderLinked, RunsTyped
<1>2. /\ stop = "aborted" /\ HandlersGone /\ stop' = "closed"
      /\ runs' = [r \in DOMAIN runs |-> Closed(runs[r])]
      /\ writers' = DOMAIN runs
      /\ client' = client /\ history' = history /\ asking' = asking /\ tick' = tick
      /\ requests' = requests /\ file' = file /\ lossy' = lossy
  BY DEF StopCloses, Closed, agents
<1>3. DOMAIN runs = 1 .. Len(runs) /\ Len(runs) \in Nat /\ Len(requests) \in Nat
      /\ DOMAIN requests = 1 .. Len(requests)
  BY <1>1
<1>4. 1 .. Len(runs) \subseteq RunIds
  BY <1>1, <1>3, RecorderAssumption DEF RunIds
<1>5. AllOpen(runs)
  BY <1>2 DEF RecorderInv, RecorderLinked
<1>6. LiveIn(requests) = {} /\ \A r : TurnsOf(requests, r) = {}
  <2>1. LiveIn(requests) = {}
    BY <1>2, <1>3 DEF HandlersGone, LiveIn
  <2>2. \A r : Asks(requests, r) = {}
    BY <2>1 DEF Asks
  <2> QED
    BY <2>1, <2>2 DEF TurnsOf
<1>7. ASSUME NEW r \in 1 .. Len(runs)
      PROVE  /\ RunFits(runs[r]) /\ runs[r].open = TRUE /\ runs[r].active <= tick
             /\ RunFits(Closed(runs[r])) /\ Closed(runs[r]).pending = FALSE
             /\ Closed(runs[r]).active <= tick
  <2>1. RunFits(runs[r]) /\ runs[r].open = TRUE /\ runs[r].active <= tick
    BY <1>1, <1>5 DEF RunsTyped, AllOpen
  <2>2. /\ RunFits(Closed(runs[r])) /\ Closed(runs[r]).pending = FALSE
        /\ Closed(runs[r]).active = runs[r].active
    BY <2>1, AfterClose
  <2> QED
    BY <2>1, <2>2
<1>8. runs' \in Seq(Runs) /\ Len(runs') = Len(runs) /\ \A r \in 1 .. Len(runs) : runs'[r] = Closed(runs[r])
  <2>1. \A r \in 1 .. Len(runs) : Closed(runs[r]) \in Runs
    BY <1>7 DEF RunFits
  <2>2. runs' \in [1 .. Len(runs) -> Runs] /\ \A r \in 1 .. Len(runs) : runs'[r] = Closed(runs[r])
    BY <1>2, <1>3, <2>1
  <2> QED
    BY <1>3, <2>2
<1>9. RunsTyped(runs', tick, writers')
  <2>1. \A r \in 1 .. Len(runs') : /\ RunFits(runs'[r]) /\ runs'[r].active <= tick
                                   /\ runs'[r].pending = FALSE /\ r \in writers'
    BY <1>2, <1>3, <1>7, <1>8
  <2> QED
    BY <1>8, <2>1 DEF RunsTyped
<1>10. /\ DOMAIN chain' = RunIds
       /\ \A r \in RunIds : r \notin 1 .. Len(runs) => chain'[r] = chain[r]
       /\ \A r \in 1 .. Len(runs) :
            chain'[r] = Recording(chain[r], r, writers, writers', closing(runs[r]))
  <2> DEFINE done(r) == IF r \in writers THEN <<closing(runs[r])>> ELSE <<Open, closing(runs[r])>>
  <2>1. chain' = [r \in RunIds |-> IF r \in DOMAIN runs THEN chain[r] \o done(r) ELSE chain[r]]
    BY DEF StopCloses
  <2>2. \A r \in 1 .. Len(runs) :
          Recording(chain[r], r, writers, writers', closing(runs[r])) = chain[r] \o done(r)
    BY <1>2, <1>3, Zenon DEF Recording
  <2> HIDE DEF done
  <2> QED
    BY <1>3, <1>4, <2>1, <2>2
<1>11. RecorderTyped'
  BY <1>2, <1>3, <1>8, <1>9, <1>10 DEF RecorderInv, RecorderTyped, Stops
<1>12. RecorderLinked'
  <2>1. RequestsLinked(requests, runs')
    BY <1>1, <1>6 DEF RequestsLinked
  <2>2. \A r \in RunIds : r > Len(runs) => file[r] = <<>> /\ chain'[r] = <<>>
    BY <1>1, <1>3, <1>10
  <2> QED
    BY <1>2, <1>6, <1>8, <2>1, <2>2 DEF RecorderLinked
<1>13. FilesFit(runs', file', chain', requests', writers', lossy')
  <2> SUFFICES ASSUME NEW r \in 1 .. Len(runs), r \notin lossy
               PROVE  FileFits(runs'[r], file[r], chain'[r], {}, r, writers')
    BY <1>2, <1>6, <1>8 DEF FilesFit
  <2>1. FileFits(runs[r], file[r], chain[r], {}, r, writers)
    BY <1>1, <1>6 DEF FilesFit
  <2>2. RunFits(runs[r]) /\ runs[r].open = TRUE
    BY <1>7
  <2>3. PICK es \in Seq(Events) : /\ closing(runs[r]) = Numbered(runs[r], es)
                                  /\ EventsFit(runs[r], es, Closed(runs[r]), {}, {})
    BY <2>2, AfterClose
  <2>4. r \in writers' /\ writers \subseteq writers'
    BY <1>1, <1>2, <1>3
  <2>5. FileFits(Closed(runs[r]), file[r], Recording(chain[r], r, writers, writers', Numbered(runs[r], es)),
                 {}, r, writers')
    BY <2>1, <2>2, <2>3, <2>4, RecordFits
  <2> QED
    BY <1>8, <1>10, <2>3, <2>5
<1> QED
  BY <1>11, <1>12, <1>13 DEF RecorderInv

\* A step that leaves the runs, the requests and the files alone.
LEMMA SameKeepsInv ==
  ASSUME RecorderInv, UNCHANGED <<agents, sessions, requests, writers, chain, file, lossy>>,
         stop' = stop \/ (stop = "closed" /\ stop' = "stopped")
  PROVE  RecorderInv'
<1>1. /\ client' = client /\ history' = history /\ asking' = asking /\ runs' = runs /\ tick' = tick
      /\ requests' = requests /\ writers' = writers /\ chain' = chain /\ file' = file /\ lossy' = lossy
  BY DEF agents, sessions
<1>2. RecorderTyped'
  BY <1>1 DEF RecorderInv, RecorderTyped, Stops
<1>3. RecorderLinked'
  BY <1>1 DEF RecorderInv, RecorderLinked
<1> QED
  BY <1>1, <1>2, <1>3 DEF RecorderInv

\* Every step keeps the invariant.
LEMMA InvStep == ASSUME RecorderInv, [RecorderNext]_recorderVars PROVE RecorderInv'
<1>1. CASE \E a \in Agents, cls \in Classes : Arrive(a, cls)
  BY <1>1, ArriveKeeps
<1>2. ASSUME NEW k \in DOMAIN requests, Leave(k) \/ \E n \in 0 .. MaxCalls : Forward(k, n)
      PROVE  RecorderInv'
  BY <1>2, LeaveKeeps, ForwardKeeps
<1>3. ASSUME NEW k \in DOMAIN requests, UpstreamEnds(k) \/ AbortEnds(k) PROVE RecorderInv'
  <2>1. requests[k].st # "gone" /\ (ends(k, FALSE) \/ ends(k, TRUE))
    BY <1>3 DEF UpstreamEnds, AbortEnds
  <2> QED
    BY <2>1, EndsKeeps
<1>4. CASE \E r \in RunIds : Write(r) \/ WriteFails(r)
  BY <1>4, WriteKeeps, WriteFailsKeeps
<1>5. CASE Stop \/ StopCloses
  BY <1>5, StopKeeps, ClosesKeeps
<1>6. CASE StopReturns
  BY <1>6, SameKeepsInv DEF StopReturns
<1>7. CASE UNCHANGED recorderVars
  <2>1. UNCHANGED <<agents, sessions, requests, writers, chain, file, lossy>>
    BY <1>7 DEF recorderVars
  <2>2. stop' = stop \/ (stop = "closed" /\ stop' = "stopped")
    BY <1>7 DEF recorderVars
  <2> QED
    BY <2>1, <2>2, SameKeepsInv, Zenon
<1> QED
  BY <1>1, <1>2, <1>3, <1>4, <1>5, <1>6, <1>7, Zenon DEF RecorderNext

------------------------------------------------------------------------------
\* In every reachable state each file and the appends that wait are together one transcript
\* that is right for its run, and the live requests are the turns that have no outcome yet
\* (Recording: onRequest, onReply, record and close).
THEOREM RecorderInvariant == RecorderSpec => []RecorderInv
<1>1. RecorderInit => RecorderInv
  BY InvInit
<1>2. RecorderInv /\ [RecorderNext]_recorderVars => RecorderInv'
  BY InvStep
<1> QED
  BY <1>1, <1>2, PTL DEF RecorderSpec

\* In every reachable state every transcript that lost no append is sound, in each of its
\* beginnings: lines numbered in order, one outcome at most for a request and after it, one
\* result at most for a call and after it, and nothing after the end.
THEOREM TranscriptsSound == RecorderSpec => []TranscriptSound
<1>1. RecorderInv => TranscriptSound
  BY InvSafe
<1> QED
  BY <1>1, RecorderInvariant, PTL
=============================================================================
