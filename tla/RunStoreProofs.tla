--------------------------- MODULE RunStoreProofs ---------------------------
(****************************************************************************)
(* Proofs about RunStore: Inv is an inductive invariant of serve's runs,    *)
(* files and readers; that a client misses nothing, that repairs agree and  *)
(* that one run is in a directory follow from it.                           *)
(*                                                                          *)
(* Inv says of each run what its file holds at each point of its life       *)
(* (RunInv): events in order, a done only at the end, the run's own next    *)
(* seq above all of them, a torn end only after a failure or a kill.  It    *)
(* says of each reader where its client stands in that file (ReaderInv):    *)
(* the client has been shown all below its position, and what it lacks is   *)
(* in the snapshot of its request, in the buffer, or still to be told it.   *)
(* NothingMissed is not inductive without the second part: a reader between *)
(* its read and its replay is kept right only by what its buffer holds.     *)
(*                                                                          *)
(* The first part says what the operators on files compute for every file:  *)
(* read by what Pick computes, emit and next from it.                       *)
(****************************************************************************)
EXTENDS RunStore, PickProofs, TLAPS

------------------------------------------------------------------------------
\* What Lowest chooses.
LEMMA LowestIs ==
  ASSUME NEW T, T \subseteq Nat, T # {}
  PROVE  Lowest(T) \in T /\ \A y \in T : Lowest(T) <= y
BY LeastNatural, Zenon DEF Lowest

------------------------------------------------------------------------------
\* What the invariant is made of.

\* Of two events of a file the first comes before the second: a done comes
\* last, and every other done repeats its seq.
Before(e, f) ==
  \/ ~IsDone(e) /\ e.seq < f.seq
  \/ IsDone(e) /\ IsDone(f) /\ e.seq = f.seq

Ordered(s) == \A i, j \in Kept(s) : i < j => Before(s[i], s[j])

\* The same of a list that a client is told of: one done at most.
Strict(s) == \A i, j \in 1 .. Len(s) : i < j => ~IsDone(s[i]) /\ s[i].seq < s[j].seq

Rising(s) == \A i, j \in 1 .. Len(s) : i < j => s[i].seq < s[j].seq
AllBelow(s, n) == \A i \in 1 .. Len(s) : s[i].seq < n
Has(s, n) == \E i \in 1 .. Len(s) : s[i].seq = n
Clean(s) == \A i \in 1 .. Len(s) : s[i].type # "garbage"

\* The events of a file.
Elts(s) == {s[i] : i \in Kept(s)}
Evs(r) == Elts(file[r])

------------------------------------------------------------------------------
\* read and emits.

ReadOf(o, s) ==
  /\ o \in Seq(Events) /\ Clean(o)
  /\ \A a \in 1 .. Len(o) : o[a] \in Elts(s)
  /\ \A e \in Elts(s) : \E a \in 1 .. Len(o) : o[a] = e
  /\ Ordered(s) => Ordered(o)

\* read drops the garbage lines and keeps all others, in order.
LEMMA ReadIs ==
  ASSUME NEW s \in Seq(Events)
  PROVE  ReadOf(Pick(s, Kept(s)), s)
<1> DEFINE o == Pick(s, Kept(s))
<1>1. Kept(s) \subseteq 1 .. Len(s)
  BY DEF Kept
<1>2. Filter(o, s, Kept(s), Len(s), Events)
  BY <1>1, PickFilters
<1> HIDE DEF o
<1>3. o \in Seq(Events)
  BY <1>2 DEF Filter
<1>4. \A a \in 1 .. Len(o) : \E i \in Kept(s) : o[a] = s[i]
  BY <1>2 DEF Filter
<1>5. \A a \in 1 .. Len(o) : o[a] \in Elts(s) /\ o[a].type # "garbage"
  BY <1>4 DEF Elts, Kept
<1>6. \A e \in Elts(s) : \E a \in 1 .. Len(o) : o[a] = e
  <2> SUFFICES ASSUME NEW e \in Elts(s) PROVE \E a \in 1 .. Len(o) : o[a] = e
    OBVIOUS
  <2>1. PICK i \in Kept(s) : e = s[i]
    BY DEF Elts
  <2>2. i <= Len(s)
    BY <1>1
  <2> QED
    BY <1>2, <2>1, <2>2 DEF Filter
<1>7. ASSUME Ordered(s) PROVE Ordered(o)
  <2> SUFFICES ASSUME NEW a \in Kept(o), NEW b \in Kept(o), a < b PROVE Before(o[a], o[b])
    BY DEF Ordered
  <2>1. a \in 1 .. Len(o) /\ b \in 1 .. Len(o)
    BY DEF Kept
  <2>2. PICK i \in Kept(s), j \in Kept(s) : i < j /\ o[a] = s[i] /\ o[b] = s[j]
    BY <1>2, <2>1 DEF Filter
  <2> QED
    BY <1>7, <2>2 DEF Ordered
<1> QED
  BY <1>3, <1>5, <1>6, <1>7 DEF ReadOf, Clean, o

\* What a client that has all below n is told of es.
Emitted(o, es, n) ==
  /\ o \in Seq(Events) /\ Strict(o)
  /\ \A a \in 1 .. Len(o) : \E i \in 1 .. Len(es) : o[a] = es[i] /\ es[i].seq >= n
  /\ \A i \in 1 .. Len(es) : es[i].seq >= n => Has(o, es[i].seq)
  /\ (\E i \in 1 .. Len(es) : IsDone(es[i]) /\ es[i].seq >= n) => HasDone(o)

\* emit writes every event from the position on, up to the first done.
LEMMA EmitsIs ==
  ASSUME NEW es \in Seq(Events), Clean(es), Ordered(es), NEW n \in Nat
  PROVE  Emitted(emits(es, n), es, n)
<1> DEFINE lacks == {i \in 1 .. Len(es) : es[i].seq >= n}
           dones == {i \in lacks : IsDone(es[i])}
           o == emits(es, n)
           k == Lowest(lacks)
           m == Lowest(dones \cup {Len(es)})
<1>0. Len(es) \in Nat /\ \A i \in 1 .. Len(es) : es[i].seq \in Nat
  <2>1. \A i \in 1 .. Len(es) : es[i] \in Events
    OBVIOUS
  <2> QED
    BY <2>1 DEF Events
<1>1. CASE lacks = {}
  <2>1. o = <<>>
    BY <1>1, Zenon DEF emits
  <2>2. \A i \in 1 .. Len(es) : ~(es[i].seq >= n)
    BY <1>1
  <2> HIDE DEF o
  <2> QED
    BY <2>1, <2>2 DEF Emitted, Strict, o
<1>2. CASE lacks # {}
  <2>1. o = SubSeq(es, k, m)
    BY <1>2, Zenon DEF emits
  <2>2. k \in lacks /\ \A i \in lacks : k <= i
    <3>1. lacks \subseteq Nat
      BY <1>0
    <3> HIDE DEF lacks
    <3> QED
      BY <1>2, <3>1, LowestIs
  <2>3. m \in dones \cup {Len(es)} /\ \A i \in dones \cup {Len(es)} : m <= i
    <3>1. dones \cup {Len(es)} \subseteq Nat /\ dones \cup {Len(es)} # {}
      BY <1>0
    <3> HIDE DEF dones
    <3> QED
      BY <3>1, LowestIs
  <2> HIDE DEF k, m, o
  <2>4. /\ k \in 1 .. Len(es) /\ es[k].seq >= n
        /\ m \in 1 .. Len(es)
        /\ k <= m
    <3>1. k \in 1 .. Len(es) /\ es[k].seq >= n /\ k <= Len(es)
      BY <2>2
    <3>2. \A i \in dones : k <= i /\ i \in 1 .. Len(es)
      BY <2>2
    <3> HIDE DEF dones
    <3> QED
      BY <3>1, <3>2, <2>3, <1>0
  <2>5. \A i, j \in 1 .. Len(es) : i < j => Before(es[i], es[j])
    BY DEF Clean, Kept, Ordered
  <2>6. \A i \in 1 .. Len(es) : k <= i => i \in lacks
    <3> SUFFICES ASSUME NEW i \in 1 .. Len(es), k <= i PROVE es[i].seq >= n
      OBVIOUS
    <3>1. CASE i = k
      BY <3>1, <2>4
    <3>2. CASE i # k
      <4>1. Before(es[k], es[i])
        BY <3>2, <2>4, <2>5
      <4>2. es[k].seq \in Nat /\ es[i].seq \in Nat
        BY <1>0, <2>4
      <4> QED
        BY <4>1, <4>2, <2>4 DEF Before
    <3> QED
      BY <3>1, <3>2
  <2>7. /\ o \in Seq(Events) /\ Len(o) = m - k + 1
        /\ \A a \in 1 .. Len(o) : o[a] = es[k + a - 1] /\ k + a - 1 \in k .. m
    <3>1. k \in Int /\ m \in Int
      BY <2>4
    <3>2. \A a \in 1 .. m - k + 1 : k + a - 1 \in k .. m /\ k + a - 1 \in 1 .. Len(es)
      BY <2>4, <1>0
    <3>3. Len(o) = m - k + 1 /\ \A a \in 1 .. m - k + 1 : o[a] = es[k + a - 1]
      BY <2>1, <2>4, <3>2
    <3>4. o \in Seq(Events)
      BY <2>1, <2>4
    <3> QED
      BY <3>2, <3>3, <3>4
  <2>8. \A i \in 1 .. Len(es) : k <= i /\ i <= m => i - k + 1 \in 1 .. Len(o) /\ o[i - k + 1] = es[i]
    <3> SUFFICES ASSUME NEW i \in 1 .. Len(es), k <= i, i <= m
                 PROVE  i - k + 1 \in 1 .. Len(o) /\ o[i - k + 1] = es[i]
      OBVIOUS
    <3>1. i - k + 1 \in 1 .. Len(o)
      BY <2>4, <2>7
    <3>2. k + (i - k + 1) - 1 = i
      BY <2>4
    <3> QED
      BY <3>1, <3>2, <2>7
  <2>9. \A i \in 1 .. Len(es) : k <= i /\ i < m => ~IsDone(es[i])
    <3> SUFFICES ASSUME NEW i \in 1 .. Len(es), k <= i, i < m, IsDone(es[i]) PROVE FALSE
      OBVIOUS
    <3>1. i \in dones
      BY <2>6
    <3>2. m <= i
      BY <3>1, <2>3
    <3> QED
      BY <3>2, <2>4
  <2>10. Strict(o)
    <3> SUFFICES ASSUME NEW a \in 1 .. Len(o), NEW b \in 1 .. Len(o), a < b
                 PROVE  ~IsDone(o[a]) /\ o[a].seq < o[b].seq
      BY DEF Strict
    <3> DEFINE i == k + a - 1
               j == k + b - 1
    <3>1. i \in 1 .. Len(es) /\ j \in 1 .. Len(es) /\ k <= i /\ i < j /\ i < m
      BY <2>4, <2>7
    <3>2. o[a] = es[i] /\ o[b] = es[j]
      BY <2>7
    <3> HIDE DEF i, j
    <3>3. ~IsDone(es[i]) /\ Before(es[i], es[j])
      BY <3>1, <2>9, <2>5
    <3> QED
      BY <3>2, <3>3 DEF Before
  <2>11. \A a \in 1 .. Len(o) : \E i \in 1 .. Len(es) : o[a] = es[i] /\ es[i].seq >= n
    <3> SUFFICES ASSUME NEW a \in 1 .. Len(o)
                 PROVE  \E i \in 1 .. Len(es) : o[a] = es[i] /\ es[i].seq >= n
      OBVIOUS
    <3> DEFINE i == k + a - 1
    <3>1. i \in 1 .. Len(es) /\ k <= i /\ o[a] = es[i]
      BY <2>4, <2>7
    <3> HIDE DEF i
    <3>2. i \in lacks
      BY <3>1, <2>6
    <3> QED
      BY <3>1, <3>2
  <2>12. \A i \in 1 .. Len(es) : es[i].seq >= n => Has(o, es[i].seq)
    <3> SUFFICES ASSUME NEW i \in 1 .. Len(es), es[i].seq >= n PROVE Has(o, es[i].seq)
      OBVIOUS
    <3>1. k <= i
      BY <2>2
    <3>2. CASE i <= m
      BY <3>1, <3>2, <2>8 DEF Has
    <3>3. CASE m < i
      <4>1. m # Len(es)
        BY <3>3, <2>4
      <4>2. IsDone(es[m])
        BY <4>1, <2>3
      <4>3. Before(es[m], es[i])
        BY <3>3, <2>4, <2>5
      <4>4. es[m].seq = es[i].seq
        BY <4>2, <4>3 DEF Before
      <4>5. m - k + 1 \in 1 .. Len(o) /\ o[m - k + 1] = es[m]
        BY <2>4, <2>8
      <4> QED
        BY <4>4, <4>5 DEF Has
    <3> QED
      BY <3>2, <3>3, <2>4
  <2>13. ASSUME \E i \in 1 .. Len(es) : IsDone(es[i]) /\ es[i].seq >= n PROVE HasDone(o)
    <3>1. PICK i \in 1 .. Len(es) : IsDone(es[i]) /\ es[i].seq >= n
      BY <2>13
    <3>2. i \in dones
      BY <3>1
    <3>3. m <= i
      BY <2>3, <3>2
    <3>4. IsDone(es[m])
      <4>1. CASE m \in dones
        BY <4>1
      <4>2. CASE m = Len(es)
        <5>1. m = i
          BY <4>2, <3>3, <2>4
        <5> QED
          BY <5>1, <3>1
      <4> QED
        BY <4>1, <4>2, <2>3
    <3>5. m - k + 1 \in 1 .. Len(o) /\ o[m - k + 1] = es[m]
      BY <2>4, <2>8
    <3> QED
      BY <3>4, <3>5 DEF HasDone
  <2> HIDE DEF lacks, dones
  <2>14. Emitted(o, es, n)
    BY <2>7, <2>10, <2>11, <2>12, <2>13 DEF Emitted
  <2> QED
    BY <2>14 DEF o
<1> QED
  BY <1>1, <1>2

\* What a client has that is told o after all below n.
Nexts(m, o, n) ==
  /\ m \in Nat /\ n <= m /\ AllBelow(o, m)
  /\ IF o = <<>> THEN m = n ELSE Len(o) \in 1 .. Len(o) /\ m = o[Len(o)].seq + 1

\* The position after an emit follows the last event written.
LEMMA NextIs ==
  ASSUME NEW o \in Seq(Events), Strict(o), NEW n \in Nat, \A a \in 1 .. Len(o) : o[a].seq >= n
  PROVE  Nexts(next(o, n), o, n)
<1> DEFINE m == next(o, n)
<1>1. \A a \in 1 .. Len(o) : o[a] \in Events
  OBVIOUS
<1>2. \A a \in 1 .. Len(o) : o[a].seq \in Nat
  BY <1>1 DEF Events
<1>3. CASE o = <<>>
  <2>1. m = n
    BY <1>3 DEF next
  <2>2. Len(o) = 0
    BY <1>3
  <2> QED
    BY <1>3, <2>1, <2>2 DEF Nexts, AllBelow
<1>4. CASE o # <<>>
  <2>1. Len(o) \in 1 .. Len(o)
    BY <1>4
  <2>2. m = o[Len(o)].seq + 1
    BY <1>4 DEF next
  <2>3. o[Len(o)].seq \in Nat /\ o[Len(o)].seq >= n
    BY <2>1, <1>2
  <2>4. \A a \in 1 .. Len(o) : o[a].seq <= o[Len(o)].seq
    <3> TAKE a \in 1 .. Len(o)
    <3>1. CASE a = Len(o)
      BY <3>1, <2>3
    <3>2. CASE a # Len(o)
      <4>1. a < Len(o)
        BY <3>2, <2>1
      <4>2. o[a].seq < o[Len(o)].seq /\ o[a].seq \in Nat
        BY <4>1, <2>1, <1>2 DEF Strict
      <4> QED
        BY <4>2, <2>3
    <3> QED
      BY <3>1, <3>2
  <2> HIDE DEF m
  <2>5. m \in Nat /\ n <= m
    BY <2>2, <2>3
  <2>6. \A a \in 1 .. Len(o) : o[a].seq < m
    BY <2>2, <2>3, <2>4, <1>2
  <2>7. Nexts(m, o, n)
    BY <1>4, <2>1, <2>2, <2>5, <2>6 DEF Nexts, AllBelow
  <2> QED
    BY <2>7 DEF m
<1> QED
  BY <1>3, <1>4

------------------------------------------------------------------------------
\* Sets of events.

\* No event of E has a seq from n on, and none is a done.
Open(E, n) == \A e \in E : ~IsDone(e) /\ e.seq < n

\* A done comes last, and its seq is the only one of a done.
Story(E) ==
  \A e, f \in E : IsDone(f) => IF IsDone(e) THEN e.seq = f.seq ELSE e.seq < f.seq

\* A client's position n: it follows an event of the file.
Placed(E, n) == n = 0 \/ \E e \in E : ~IsDone(e) /\ n <= e.seq + 1

\* All events below n have been shown; all have been, but for a done.
Shown(E, n, g) == \A e \in E : e.seq < n => Has(g, e.seq)
Caught(E, n) == \A e \in E : e.seq < n \/ IsDone(e)

\* What came while a request read is in the file, but for an error line that ran
\* into a torn one.
BufferOK(E, b) ==
  /\ Strict(b) /\ Clean(b)
  /\ \A i \in 1 .. Len(b) : b[i] \in E \/ (~IsDone(b[i]) /\ HasDone(b))

\* What a request read is a beginning of the file.
SnapOK(E, s) ==
  /\ Ordered(s) /\ Clean(s)
  /\ \A i \in 1 .. Len(s) : s[i] \in E
  /\ \A e \in E : Has(s, e.seq) \/ AllBelow(s, e.seq)

Both(E, s, b) == \A e \in E : Has(s, e.seq) \/ Has(b, e.seq)
ButDone(E, s) == \A e \in E : Has(s, e.seq) \/ IsDone(e)

\* n is the seq a done of E has or would have.
Last(E, n) ==
  /\ \A e \in E : IF IsDone(e) THEN e.seq = n ELSE e.seq < n
  /\ n = 0 \/ \E e \in E : ~IsDone(e) /\ e.seq = n - 1

DoneAt(E, n) == \E e \in E : IsDone(e) /\ e.seq = n

\* A file in order is a story.
LEMMA StoryOf ==
  ASSUME NEW s \in Seq(Events), Ordered(s)
  PROVE  Elts(s) \subseteq Events /\ Story(Elts(s))
<1>1. \A i \in Kept(s) : i \in Nat /\ s[i] \in Events
  BY DEF Kept
<1>2. \A e \in Events : e.seq \in Nat
  BY DEF Events
<1>3. ASSUME NEW e \in Elts(s), NEW f \in Elts(s), IsDone(f)
      PROVE  IF IsDone(e) THEN e.seq = f.seq ELSE e.seq < f.seq
  <2>1. PICK i \in Kept(s) : e = s[i]
    BY DEF Elts
  <2>2. PICK j \in Kept(s) : f = s[j]
    BY DEF Elts
  <2>3. e.seq \in Nat /\ f.seq \in Nat
    BY <2>1, <2>2, <1>1, <1>2
  <2>4. CASE i = j
    BY <2>1, <2>2, <2>4, <1>3
  <2>5. CASE i < j
    BY <2>1, <2>2, <2>3, <2>5, <1>3 DEF Ordered, Before
  <2>6. CASE j < i
    BY <2>1, <2>2, <2>3, <2>6, <1>3 DEF Ordered, Before
  <2> QED
    BY <2>4, <2>5, <2>6, <1>1
<1> QED
  BY <1>1, <1>3 DEF Story, Elts

LEMMA PlacedBelow ==
  ASSUME NEW E, E \subseteq Events, NEW n \in Nat, Placed(E, n), NEW b \in Nat, Open(E, b)
  PROVE  n <= b
<1>1. \A e \in E : e.seq \in Nat
  BY DEF Events
<1> QED
  BY <1>1 DEF Placed, Open

LEMMA PlacedBefore ==
  ASSUME NEW E, E \subseteq Events, NEW n \in Nat, Placed(E, n), Story(E),
         NEW f \in E, IsDone(f)
  PROVE  n <= f.seq
<1>1. \A e \in E : e.seq \in Nat
  BY DEF Events
<1> QED
  BY <1>1 DEF Placed, Story

LEMMA PlacedLast ==
  ASSUME NEW E, E \subseteq Events, NEW n \in Nat, Placed(E, n), NEW k \in Nat, Last(E, k)
  PROVE  n <= k
<1>1. \A e \in E : e.seq \in Nat
  BY DEF Events
<1> QED
  BY <1>1 DEF Placed, Last

\* There is one seq that a done has or would have.
LEMMA LastUnique ==
  ASSUME NEW E, E \subseteq Events, NEW n \in Nat, NEW k \in Nat, Last(E, n),
         Last(E, k) \/ DoneAt(E, k)
  PROVE  n = k
<1>1. \A e \in E : e.seq \in Nat
  BY DEF Events
<1>2. CASE DoneAt(E, k)
  BY <1>2 DEF Last, DoneAt
<1>3. CASE Last(E, k)
  <2>1. ~(n < k)
    <3> SUFFICES ASSUME n < k PROVE FALSE
      OBVIOUS
    <3>1. PICK e \in E : ~IsDone(e) /\ e.seq = k - 1
      BY <1>3 DEF Last
    <3> QED
      BY <3>1 DEF Last
  <2>2. ~(k < n)
    <3> SUFFICES ASSUME k < n PROVE FALSE
      OBVIOUS
    <3>1. PICK e \in E : ~IsDone(e) /\ e.seq = n - 1
      BY DEF Last
    <3> QED
      BY <3>1, <1>3 DEF Last
  <2> QED
    BY <2>1, <2>2
<1> QED
  BY <1>2, <1>3

LEMMA PlacedGrows ==
  ASSUME NEW E, NEW E2, E \subseteq E2, NEW n, Placed(E, n)
  PROVE  Placed(E2, n)
BY DEF Placed

\* An append or a repair under a client that is not told.
LEMMA BufferGrows ==
  ASSUME NEW E, NEW E2, E \subseteq E2, NEW b, BufferOK(E, b)
  PROVE  BufferOK(E2, b)
BY DEF BufferOK

------------------------------------------------------------------------------
\* A run tells of es, and its file goes from E to E2.

Tells(es, E, E2, b) ==
  /\ es \in Seq(Events) /\ Clean(es) /\ Strict(es)
  /\ \A i \in 1 .. Len(es) : es[i].seq >= b
  /\ \A i \in 1 .. Len(es) : es[i] \in E2 \/ (~IsDone(es[i]) /\ HasDone(es))
  /\ E \subseteq E2 /\ E2 \subseteq Events
  /\ \A f \in E2 : f \in E \/ \E i \in 1 .. Len(es) : f = es[i]
  /\ Open(E, b)

\* The same of the file alone, told or not.
Grows(E, E2, b) ==
  /\ E \subseteq E2 /\ E2 \subseteq Events /\ Open(E, b)
  /\ \A f \in E2 : f \in E \/ f.seq >= b

LEMMA TellsGrows ==
  ASSUME NEW es, NEW E, NEW E2, NEW b, Tells(es, E, E2, b)
  PROVE  Grows(E, E2, b)
BY DEF Tells, Grows

LEMMA ShownGrows ==
  ASSUME NEW E, NEW E2, NEW b \in Nat, Grows(E, E2, b), NEW n \in Nat, n <= b, NEW g,
         Shown(E, n, g)
  PROVE  Shown(E2, n, g)
<1>1. \A e \in E2 : e.seq \in Nat
  BY DEF Events, Grows
<1> QED
  BY <1>1 DEF Shown, Grows

LEMMA SnapGrows ==
  ASSUME NEW E, NEW E2, NEW b \in Nat, Grows(E, E2, b), NEW s, SnapOK(E, s)
  PROVE  SnapOK(E2, s)
<1>1. \A e \in E2 : e.seq \in Nat
  BY DEF Events, Grows
<1>2. \A i \in 1 .. Len(s) : s[i] \in E /\ s[i] \in E2 /\ s[i].seq < b /\ s[i].seq \in Nat
  BY <1>1 DEF SnapOK, Grows, Open
<1>3. ASSUME NEW e \in E2 PROVE Has(s, e.seq) \/ AllBelow(s, e.seq)
  <2>1. CASE e \in E
    BY <2>1 DEF SnapOK
  <2>2. CASE e.seq >= b
    BY <2>2, <1>1, <1>2 DEF AllBelow
  <2> QED
    BY <2>1, <2>2 DEF Grows
<1> QED
  BY <1>2, <1>3 DEF SnapOK

\* What a concatenation holds.
LEMMA ConcatIs ==
  ASSUME NEW S, NEW p \in Seq(S), NEW q \in Seq(S)
  PROVE  /\ p \o q \in Seq(S) /\ Len(p \o q) = Len(p) + Len(q)
         /\ Len(p) \in Nat /\ Len(q) \in Nat
         /\ \A i \in 1 .. Len(p) : (p \o q)[i] = p[i] /\ i \in 1 .. Len(p \o q)
         /\ \A i \in 1 .. Len(q) : (p \o q)[Len(p) + i] = q[i] /\ Len(p) + i \in 1 .. Len(p \o q)
         /\ \A i \in 1 .. Len(p \o q) : i \in 1 .. Len(p) \/ i - Len(p) \in 1 .. Len(q)
OBVIOUS

\* A reader that replays buffers what its run appends, and lacks nothing then.
LEMMA BufferTells ==
  ASSUME NEW es, NEW E, NEW E2, NEW b \in Nat, Tells(es, E, E2, b),
         NEW p \in Seq(Events), BufferOK(E, p)
  PROVE  BufferOK(E2, p \o es)
<1> DEFINE q == p \o es
<1>1. es \in Seq(Events)
  BY DEF Tells
<1>2. /\ q \in Seq(Events) /\ Len(q) = Len(p) + Len(es) /\ Len(p) \in Nat /\ Len(es) \in Nat
      /\ \A i \in 1 .. Len(p) : q[i] = p[i] /\ i \in 1 .. Len(q)
      /\ \A i \in 1 .. Len(es) : q[Len(p) + i] = es[i] /\ Len(p) + i \in 1 .. Len(q)
      /\ \A i \in 1 .. Len(q) : i \in 1 .. Len(p) \/ i - Len(p) \in 1 .. Len(es)
  BY <1>1, ConcatIs
<1> HIDE DEF q
<1>3. \A i \in 1 .. Len(p) : ~IsDone(p[i]) /\ p[i] \in E /\ p[i].seq < b /\ p[i].seq \in Nat
  <2>1. \A i \in 1 .. Len(p) : IsDone(p[i]) => p[i] \in E
    BY DEF BufferOK
  <2>2. \A i \in 1 .. Len(p) : ~IsDone(p[i])
    BY <2>1 DEF Tells, Open
  <2>3. ~HasDone(p)
    BY <2>2 DEF HasDone
  <2>4. \A i \in 1 .. Len(p) : p[i] \in E /\ p[i] \in Events
    BY <2>3 DEF BufferOK, Tells
  <2>5. \A i \in 1 .. Len(p) : p[i].seq \in Nat
    BY <2>4 DEF Events
  <2> QED
    BY <2>2, <2>4, <2>5 DEF Tells, Open
<1>4. \A i \in 1 .. Len(es) : es[i].seq >= b /\ es[i].seq \in Nat /\ es[i].type # "garbage"
  <2>1. \A i \in 1 .. Len(es) : es[i] \in Events
    BY <1>1
  <2>2. \A i \in 1 .. Len(es) : es[i].seq \in Nat
    BY <2>1 DEF Events
  <2> QED
    BY <2>2 DEF Tells, Clean
<1>5. HasDone(es) => HasDone(q)
  BY <1>2 DEF HasDone
<1>6. \A i \in 1 .. Len(q) : q[i] \in E2 \/ (~IsDone(q[i]) /\ HasDone(q))
  <2> TAKE i \in 1 .. Len(q)
  <2>1. CASE i \in 1 .. Len(p)
    BY <2>1, <1>2, <1>3 DEF Tells
  <2>2. CASE i - Len(p) \in 1 .. Len(es)
    <3>1. q[i] = es[i - Len(p)]
      <4>1. Len(p) + (i - Len(p)) = i
        BY <1>2
      <4> QED
        BY <4>1, <2>2, <1>2
    <3> QED
      BY <2>2, <3>1, <1>5 DEF Tells
  <2> QED
    BY <2>1, <2>2, <1>2
<1>7. Clean(q)
  <2> SUFFICES ASSUME NEW i \in 1 .. Len(q) PROVE q[i].type # "garbage"
    BY DEF Clean
  <2>1. CASE i \in 1 .. Len(p)
    BY <2>1, <1>2 DEF BufferOK, Clean
  <2>2. CASE i - Len(p) \in 1 .. Len(es)
    <3> DEFINE l == i - Len(p)
    <3>1. l \in 1 .. Len(es) /\ Len(p) + l = i
      BY <2>2, <1>2
    <3> HIDE DEF l
    <3>2. q[i] = es[l] /\ es[l].type # "garbage"
      BY <3>1, <1>2, <1>4
    <3> QED
      BY <3>2
  <2> QED
    BY <2>1, <2>2, <1>2
<1>8. Strict(q)
  <2> SUFFICES ASSUME NEW i \in 1 .. Len(q), NEW j \in 1 .. Len(q), i < j
               PROVE  ~IsDone(q[i]) /\ q[i].seq < q[j].seq
    BY DEF Strict
  <2>1. CASE i \in 1 .. Len(p) /\ j \in 1 .. Len(p)
    BY <2>1, <1>2 DEF BufferOK, Strict
  <2>2. CASE i \in 1 .. Len(p) /\ j - Len(p) \in 1 .. Len(es)
    <3> DEFINE l == j - Len(p)
    <3>1. l \in 1 .. Len(es) /\ Len(p) + l = j
      BY <2>2, <1>2
    <3> HIDE DEF l
    <3>2. q[j] = es[l] /\ es[l].seq >= b /\ es[l].seq \in Nat
      BY <3>1, <1>2, <1>4
    <3>3. q[i] = p[i] /\ ~IsDone(p[i]) /\ p[i].seq < b /\ p[i].seq \in Nat
      BY <2>2, <1>2, <1>3
    <3> QED
      BY <3>2, <3>3
  <2>3. CASE i - Len(p) \in 1 .. Len(es)
    <3> DEFINE k == i - Len(p)
               l == j - Len(p)
    <3>1. k \in 1 .. Len(es) /\ l \in 1 .. Len(es) /\ k < l /\ Len(p) + k = i /\ Len(p) + l = j
      BY <2>3, <1>2
    <3> HIDE DEF k, l
    <3>2. q[i] = es[k] /\ q[j] = es[l]
      BY <3>1, <1>2
    <3> QED
      BY <3>1, <3>2 DEF Tells, Strict
  <2> QED
    BY <2>1, <2>2, <2>3, <1>2
<1>9. BufferOK(E2, q)
  BY <1>6, <1>7, <1>8 DEF BufferOK
<1> QED
  BY <1>9 DEF q

LEMMA BothTells ==
  ASSUME NEW es, NEW E, NEW E2, NEW b \in Nat, Tells(es, E, E2, b),
         NEW p \in Seq(Events), NEW s, Both(E, s, p)
  PROVE  Both(E2, s, p \o es)
<1> DEFINE q == p \o es
<1>1. es \in Seq(Events)
  BY DEF Tells
<1>2. /\ \A i \in 1 .. Len(p) : q[i] = p[i] /\ i \in 1 .. Len(q)
      /\ \A i \in 1 .. Len(es) : q[Len(p) + i] = es[i] /\ Len(p) + i \in 1 .. Len(q)
  BY <1>1, ConcatIs
<1> HIDE DEF q
<1>3. ASSUME NEW f \in E2 PROVE Has(s, f.seq) \/ Has(q, f.seq)
  <2>1. CASE f \in E
    BY <2>1, <1>2 DEF Both, Has
  <2>2. CASE \E i \in 1 .. Len(es) : f = es[i]
    BY <2>2, <1>2 DEF Has
  <2> QED
    BY <2>1, <2>2 DEF Tells
<1> QED
  BY <1>3 DEF Both, q

------------------------------------------------------------------------------
\* A client that has g, all below n, is told o of es: it has g2, all below m.

Told(o, g2, m, g, es, n) ==
  /\ o \in Seq(Events) /\ g2 = g \o o /\ g2 \in Seq(Events) /\ Rising(g2) /\ AllBelow(g2, m)
  /\ m \in Nat /\ n <= m
  /\ \A k \in Nat : Has(g, k) => Has(g2, k)
  /\ \A i \in 1 .. Len(es) : es[i].seq >= n => Has(g2, es[i].seq) /\ es[i].seq < m
  /\ \/ m = n /\ ~HasDone(o)
     \/ \E i \in 1 .. Len(es) :
          /\ m = es[i].seq + 1 /\ Has(g2, es[i].seq) /\ es[i].seq >= n
          /\ HasDone(o) <=> IsDone(es[i])
  /\ (\E i \in 1 .. Len(es) : IsDone(es[i]) /\ es[i].seq >= n) => HasDone(o)

\* A client that is told es has all of it below its new position.
LEMMA EmitsTells ==
  ASSUME NEW es \in Seq(Events), Clean(es), Ordered(es), NEW n \in Nat,
         NEW g \in Seq(Events), Rising(g), AllBelow(g, n)
  PROVE  Told(emits(es, n), g \o emits(es, n), next(emits(es, n), n), g, es, n)
<1> DEFINE o == emits(es, n)
           m == next(o, n)
           g2 == g \o o
<1>1. Emitted(o, es, n)
  BY EmitsIs
<1> HIDE DEF o
<1>2. o \in Seq(Events) /\ Strict(o)
  BY <1>1 DEF Emitted
<1>3. \A a \in 1 .. Len(o) : \E i \in 1 .. Len(es) : o[a] = es[i] /\ es[i].seq >= n
  BY <1>1 DEF Emitted
<1>4. Nexts(m, o, n)
  BY <1>2, <1>3, NextIs
<1>5. /\ g2 \in Seq(Events) /\ Len(g2) = Len(g) + Len(o) /\ Len(g) \in Nat /\ Len(o) \in Nat
      /\ \A i \in 1 .. Len(g) : g2[i] = g[i] /\ i \in 1 .. Len(g2)
      /\ \A i \in 1 .. Len(o) : g2[Len(g) + i] = o[i] /\ Len(g) + i \in 1 .. Len(g2)
      /\ \A i \in 1 .. Len(g2) : i \in 1 .. Len(g) \/ i - Len(g) \in 1 .. Len(o)
  BY <1>2, ConcatIs
<1> HIDE DEF m, g2
<1>6. m \in Nat /\ n <= m
  BY <1>4 DEF Nexts
<1>7. \A i \in 1 .. Len(g) : g[i].seq < n /\ g[i].seq \in Nat
  <2>1. \A i \in 1 .. Len(g) : g[i] \in Events
    OBVIOUS
  <2>2. \A i \in 1 .. Len(g) : g[i].seq \in Nat
    BY <2>1 DEF Events
  <2> QED
    BY <2>2 DEF AllBelow
<1>8. \A i \in 1 .. Len(o) : o[i].seq >= n /\ o[i].seq \in Nat /\ o[i].seq < m
  <2>1. \A i \in 1 .. Len(o) : o[i] \in Events
    BY <1>2
  <2>2. \A i \in 1 .. Len(o) : o[i].seq \in Nat
    BY <2>1 DEF Events
  <2> QED
    BY <2>2, <1>3, <1>4 DEF Nexts, AllBelow
<1>9. \A i \in 1 .. Len(g2) : i \notin 1 .. Len(g) => g2[i] = o[i - Len(g)] /\ i - Len(g) \in 1 .. Len(o)
  <2> SUFFICES ASSUME NEW i \in 1 .. Len(g2), i \notin 1 .. Len(g)
               PROVE  g2[i] = o[i - Len(g)] /\ i - Len(g) \in 1 .. Len(o)
    OBVIOUS
  <2> DEFINE l == i - Len(g)
  <2>1. l \in 1 .. Len(o) /\ Len(g) + l = i
    BY <1>5
  <2> HIDE DEF l
  <2>2. g2[i] = o[l]
    BY <2>1, <1>5
  <2> QED
    BY <2>1, <2>2 DEF l
<1>10. Rising(g2)
  <2> SUFFICES ASSUME NEW i \in 1 .. Len(g2), NEW j \in 1 .. Len(g2), i < j
               PROVE  g2[i].seq < g2[j].seq
    BY DEF Rising
  <2>1. CASE i \in 1 .. Len(g) /\ j \in 1 .. Len(g)
    BY <2>1, <1>5 DEF Rising
  <2>2. CASE i \in 1 .. Len(g) /\ j \notin 1 .. Len(g)
    <3>1. g2[i] = g[i] /\ g[i].seq < n /\ g[i].seq \in Nat
      BY <2>2, <1>5, <1>7
    <3>2. g2[j].seq >= n /\ g2[j].seq \in Nat
      BY <2>2, <1>8, <1>9
    <3> QED
      BY <3>1, <3>2
  <2>3. CASE i \notin 1 .. Len(g)
    <3> DEFINE k == i - Len(g)
               l == j - Len(g)
    <3>1. j \notin 1 .. Len(g) /\ k < l
      BY <2>3, <1>5
    <3>2. g2[i] = o[k] /\ g2[j] = o[l] /\ k \in 1 .. Len(o) /\ l \in 1 .. Len(o)
      BY <2>3, <3>1, <1>9
    <3> HIDE DEF k, l
    <3> QED
      BY <3>1, <3>2, <1>2 DEF Strict
  <2> QED
    BY <2>1, <2>2, <2>3
<1>11. AllBelow(g2, m)
  <2> SUFFICES ASSUME NEW i \in 1 .. Len(g2) PROVE g2[i].seq < m
    BY DEF AllBelow
  <2>1. CASE i \in 1 .. Len(g)
    BY <2>1, <1>5, <1>6, <1>7
  <2>2. CASE i \notin 1 .. Len(g)
    BY <2>2, <1>8, <1>9
  <2> QED
    BY <2>1, <2>2
<1>12. \A k \in Nat : Has(g, k) => Has(g2, k)
  BY <1>5 DEF Has
<1>13. \A i \in 1 .. Len(o) : Has(g2, o[i].seq)
  BY <1>5 DEF Has
<1>14. ASSUME NEW i \in 1 .. Len(es), es[i].seq >= n PROVE Has(g2, es[i].seq) /\ es[i].seq < m
  <2>1. Has(o, es[i].seq)
    BY <1>1, <1>14 DEF Emitted
  <2>2. PICK a \in 1 .. Len(o) : o[a].seq = es[i].seq
    BY <2>1 DEF Has
  <2>3. Has(g2, o[a].seq) /\ o[a].seq < m
    BY <1>8, <1>13
  <2> QED
    BY <2>2, <2>3
<1>15. \/ m = n /\ ~HasDone(o)
       \/ \E i \in 1 .. Len(es) :
            /\ m = es[i].seq + 1 /\ Has(g2, es[i].seq) /\ es[i].seq >= n
            /\ HasDone(o) <=> IsDone(es[i])
  <2>1. CASE o = <<>>
    <3>1. m = n
      BY <2>1, <1>4 DEF Nexts
    <3>2. ~HasDone(o)
      <4>1. Len(o) = 0
        BY <2>1
      <4> QED
        BY <4>1 DEF HasDone
    <3> QED
      BY <3>1, <3>2
  <2>2. CASE o # <<>>
    <3>1. Len(o) \in 1 .. Len(o) /\ m = o[Len(o)].seq + 1
      BY <2>2, <1>4 DEF Nexts
    <3>2. PICK i \in 1 .. Len(es) : o[Len(o)] = es[i] /\ es[i].seq >= n
      BY <3>1, <1>3
    <3>3. HasDone(o) <=> IsDone(es[i])
      <4>1. ASSUME IsDone(es[i]) PROVE HasDone(o)
        BY <4>1, <3>1, <3>2 DEF HasDone
      <4>2. ASSUME HasDone(o) PROVE IsDone(es[i])
        <5>1. PICK a \in 1 .. Len(o) : IsDone(o[a])
          BY <4>2 DEF HasDone
        <5>2. ~(a < Len(o))
          BY <5>1, <3>1, <1>2 DEF Strict
        <5>3. a = Len(o)
          BY <5>2, <3>1
        <5> QED
          BY <5>1, <5>3, <3>2
      <4> QED
        BY <4>1, <4>2
    <3> QED
      BY <3>1, <3>2, <3>3, <1>13
  <2> QED
    BY <2>1, <2>2
<1>16. (\E i \in 1 .. Len(es) : IsDone(es[i]) /\ es[i].seq >= n) => HasDone(o)
  BY <1>1 DEF Emitted
<1>17. Told(o, g2, m, g, es, n)
  <2>1. g2 = g \o o
    BY DEF g2
  <2>2. g2 \in Seq(Events)
    BY <1>5
  <2> QED
    BY <2>1, <2>2, <1>2, <1>6, <1>10, <1>11, <1>12, <1>14, <1>15, <1>16 DEF Told
<1> QED
  BY <1>17 DEF g2, m, o

LEMMA StrictOrdered ==
  ASSUME NEW s, Strict(s)
  PROVE  Ordered(s)
BY DEF Strict, Ordered, Kept, Before

\* A done of a concatenation is one of its parts'.
LEMMA DoneOfEither ==
  ASSUME NEW p \in Seq(Events), NEW q \in Seq(Events)
  PROVE  HasDone(p \o q) <=> HasDone(p) \/ HasDone(q)
<1> DEFINE c == p \o q
<1>1. /\ Len(p) \in Nat /\ Len(q) \in Nat
      /\ \A i \in 1 .. Len(p) : c[i] = p[i] /\ i \in 1 .. Len(c)
      /\ \A i \in 1 .. Len(q) : c[Len(p) + i] = q[i] /\ Len(p) + i \in 1 .. Len(c)
      /\ \A i \in 1 .. Len(c) : i \in 1 .. Len(p) \/ i - Len(p) \in 1 .. Len(q)
  BY ConcatIs
<1> HIDE DEF c
<1>2. HasDone(p) \/ HasDone(q) => HasDone(c)
  BY <1>1 DEF HasDone
<1>3. ASSUME NEW i \in 1 .. Len(c), IsDone(c[i]) PROVE HasDone(p) \/ HasDone(q)
  <2>1. CASE i \in 1 .. Len(p)
    BY <2>1, <1>1, <1>3 DEF HasDone
  <2>2. CASE i - Len(p) \in 1 .. Len(q)
    <3> DEFINE l == i - Len(p)
    <3>1. l \in 1 .. Len(q) /\ Len(p) + l = i
      BY <2>2, <1>1
    <3> HIDE DEF l
    <3>2. IsDone(q[l])
      BY <3>1, <1>1, <1>3
    <3> QED
      BY <3>1, <3>2 DEF HasDone
  <2> QED
    BY <2>1, <2>2, <1>1
<1>4. HasDone(c) <=> HasDone(p) \/ HasDone(q)
  BY <1>2, <1>3 DEF HasDone
<1> QED
  BY <1>4 DEF c

\* The replay of s, then of b where s had no done, to a client that has g, all
\* below n.
Replayed(old, late, g2, m, g, s, b, n) ==
  \E g1, mid :
    /\ Told(old, g1, mid, g, s, n)
    /\ \/ HasDone(old) /\ late = <<>> /\ m = mid /\ g2 = g1
       \/ ~HasDone(old) /\ Told(late, g2, m, g1, b, mid)

Covers(E, s, b) == Both(E, s, b) \/ (ButDone(E, s) /\ b = <<>>)

EndAt(E, m, g) == \E k \in Nat : m = k + 1 /\ Has(g, k) /\ DoneAt(E, k)

\* The snapshot and then the buffer: the client has all of the file but perhaps a done.
LEMMA ReplayIs ==
  ASSUME NEW E, E \subseteq Events, Story(E), NEW n \in Nat, Placed(E, n),
         NEW s \in Seq(Events), SnapOK(E, s), NEW b \in Seq(Events), BufferOK(E, b),
         NEW g, NEW old, NEW late, NEW g2, NEW m, Replayed(old, late, g2, m, g, s, b, n)
  PROVE  /\ m \in Nat /\ g2 \in Seq(Events) /\ Rising(g2) /\ AllBelow(g2, m)
         /\ HasDone(old \o late) => EndAt(E, m, g2)
         /\ HasDone(old \o late) \/ Placed(E, m)
         /\ Covers(E, s, b) /\ Shown(E, n, g) => Shown(E, m, g2)
         /\ Covers(E, s, b) /\ Shown(E, n, g) => HasDone(old \o late) \/ Caught(E, m)
<1>1. PICK g1, mid :
        /\ Told(old, g1, mid, g, s, n)
        /\ \/ HasDone(old) /\ late = <<>> /\ m = mid /\ g2 = g1
           \/ ~HasDone(old) /\ Told(late, g2, m, g1, b, mid)
  BY Zenon DEF Replayed
<1>2. /\ old \in Seq(Events) /\ g1 \in Seq(Events) /\ Rising(g1) /\ AllBelow(g1, mid)
      /\ mid \in Nat /\ n <= mid
      /\ \A k \in Nat : Has(g, k) => Has(g1, k)
      /\ \A i \in 1 .. Len(s) : s[i].seq >= n => Has(g1, s[i].seq) /\ s[i].seq < mid
  BY <1>1 DEF Told
<1>3. \/ mid = n /\ ~HasDone(old)
      \/ \E i \in 1 .. Len(s) :
           /\ mid = s[i].seq + 1 /\ Has(g1, s[i].seq) /\ s[i].seq >= n
           /\ HasDone(old) <=> IsDone(s[i])
  BY <1>1 DEF Told
<1>4. ~HasDone(old) =>
        /\ late \in Seq(Events) /\ g2 \in Seq(Events) /\ Rising(g2) /\ AllBelow(g2, m)
        /\ m \in Nat /\ mid <= m
        /\ \A k \in Nat : Has(g1, k) => Has(g2, k)
        /\ \A i \in 1 .. Len(b) : b[i].seq >= mid => Has(g2, b[i].seq) /\ b[i].seq < m
        /\ \/ m = mid /\ ~HasDone(late)
           \/ \E i \in 1 .. Len(b) :
                /\ m = b[i].seq + 1 /\ Has(g2, b[i].seq) /\ b[i].seq >= mid
                /\ HasDone(late) <=> IsDone(b[i])
        /\ (\E i \in 1 .. Len(b) : IsDone(b[i]) /\ b[i].seq >= mid) => HasDone(late)
  BY <1>1 DEF Told
<1>5. HasDone(old) => late = <<>> /\ m = mid /\ g2 = g1
  BY <1>1
<1>6. late \in Seq(Events)
  <2>1. <<>> \in Seq(Events)
    OBVIOUS
  <2>2. CASE HasDone(old)
    BY <2>1, <2>2, <1>5, Zenon
  <2>3. CASE ~HasDone(old)
    BY <2>3, <1>4
  <2> QED
    BY <2>2, <2>3
<1>7. HasDone(old \o late) <=> HasDone(old) \/ HasDone(late)
  BY <1>2, <1>6, DoneOfEither
<1>8. HasDone(old) => ~HasDone(late)
  <2>1. Len(<<>>) = 0
    OBVIOUS
  <2> QED
    BY <1>5, <2>1 DEF HasDone
<1>9. \A e \in E : e.seq \in Nat
  BY DEF Events
<1>10. \A i \in 1 .. Len(s) : s[i] \in E /\ s[i].seq \in Nat
  BY <1>9 DEF SnapOK
<1>11. \A i \in 1 .. Len(b) : b[i].seq \in Nat
  <2>1. \A i \in 1 .. Len(b) : b[i] \in Events
    OBVIOUS
  <2> QED
    BY <2>1 DEF Events
<1>12. m \in Nat /\ mid <= m /\ g2 \in Seq(Events) /\ Rising(g2) /\ AllBelow(g2, m)
       /\ \A k \in Nat : Has(g1, k) => Has(g2, k)
  BY <1>2, <1>4, <1>5
<1>13. HasDone(old) \/ Placed(E, mid)
  <2> SUFFICES ASSUME ~HasDone(old) PROVE Placed(E, mid)
    OBVIOUS
  <2>1. CASE mid = n
    BY <2>1
  <2>2. CASE \E i \in 1 .. Len(s) : mid = s[i].seq + 1 /\ ~IsDone(s[i])
    BY <2>2, <1>10, <1>2 DEF Placed
  <2> QED
    BY <2>1, <2>2, <1>3
<1>14. HasDone(old \o late) \/ Placed(E, m)
  <2> SUFFICES ASSUME ~HasDone(old), ~HasDone(late) PROVE Placed(E, m)
    BY <1>7
  <2>1. Placed(E, mid)
    BY <1>13
  <2>2. ~HasDone(b)
    <3> SUFFICES ASSUME HasDone(b) PROVE FALSE
      OBVIOUS
    <3>1. PICK j \in 1 .. Len(b) : IsDone(b[j])
      BY DEF HasDone
    <3>2. b[j] \in E
      BY <3>1 DEF BufferOK
    <3>3. mid <= b[j].seq
      BY <1>2, <2>1, <3>1, <3>2, PlacedBefore
    <3>4. b[j].seq >= mid
      BY <3>3, <1>2, <1>11
    <3> QED
      BY <3>1, <3>4, <1>4
  <2>3. CASE m = mid
    BY <2>1, <2>3
  <2>4. CASE \E i \in 1 .. Len(b) : m = b[i].seq + 1 /\ ~IsDone(b[i])
    <3>1. PICK i \in 1 .. Len(b) : m = b[i].seq + 1 /\ ~IsDone(b[i])
      BY <2>4
    <3>2. b[i] \in E
      BY <2>2 DEF BufferOK
    <3>3. m <= b[i].seq + 1
      BY <3>1, <1>11
    <3> QED
      BY <3>1, <3>2, <3>3 DEF Placed
  <2> QED
    BY <2>3, <2>4, <1>4
<1>15. ASSUME HasDone(old \o late) PROVE EndAt(E, m, g2)
  <2>1. CASE HasDone(old)
    <3>1. PICK i \in 1 .. Len(s) : mid = s[i].seq + 1 /\ Has(g1, s[i].seq) /\ IsDone(s[i])
      BY <2>1, <1>3
    <3> QED
      BY <3>1, <2>1, <1>5, <1>10 DEF EndAt, DoneAt
  <2>2. CASE ~HasDone(old) /\ HasDone(late)
    <3>1. PICK i \in 1 .. Len(b) : m = b[i].seq + 1 /\ Has(g2, b[i].seq) /\ IsDone(b[i])
      BY <2>2, <1>4
    <3>2. b[i] \in E
      BY <3>1 DEF BufferOK
    <3> QED
      BY <3>1, <3>2, <1>11 DEF EndAt, DoneAt
  <2> QED
    BY <2>1, <2>2, <1>7, <1>15
\* Of an event that s lacks the position after s is not past it.
<1>16. ASSUME NEW e \in E, e.seq < mid, Shown(E, n, g) PROVE Has(g1, e.seq)
  <2>0. e.seq \in Nat
    BY <1>9
  <2>1. CASE e.seq < n
    BY <2>0, <2>1, <1>2, <1>16 DEF Shown
  <2>2. CASE ~(e.seq < n) /\ Has(s, e.seq)
    <3>1. PICK i \in 1 .. Len(s) : s[i].seq = e.seq
      BY <2>2 DEF Has
    <3>2. s[i].seq >= n
      BY <2>2, <3>1, <1>10
    <3> QED
      BY <3>1, <3>2, <1>2
  <2>3. CASE ~(e.seq < n) /\ ~Has(s, e.seq)
    <3>1. AllBelow(s, e.seq)
      BY <2>3 DEF SnapOK
    <3>2. PICK i \in 1 .. Len(s) : mid = s[i].seq + 1
      BY <2>3, <1>3, <1>16
    <3>3. s[i].seq < e.seq
      BY <3>1 DEF AllBelow
    <3> QED
      BY <3>2, <3>3, <2>0, <1>10, <1>16
  <2> QED
    BY <2>1, <2>2, <2>3
<1>17. ASSUME NEW e \in E, HasDone(old) PROVE e.seq < mid
  <2>1. PICK i \in 1 .. Len(s) : mid = s[i].seq + 1 /\ IsDone(s[i])
    BY <1>3, <1>17
  <2>2. e.seq <= s[i].seq
    BY <2>1, <1>9, <1>10 DEF Story
  <2> QED
    BY <2>1, <2>2, <1>9, <1>10
<1>18. ASSUME NEW e \in E, ~HasDone(old), Has(b, e.seq), e.seq >= mid
       PROVE  Has(g2, e.seq) /\ e.seq < m
  <2>1. PICK i \in 1 .. Len(b) : b[i].seq = e.seq
    BY <1>18 DEF Has
  <2>2. b[i].seq >= mid
    BY <2>1, <1>18
  <2> QED
    BY <2>1, <2>2, <1>4, <1>18
<1>19. ASSUME NEW e \in E, Has(s, e.seq) PROVE e.seq < mid
  <2>1. PICK i \in 1 .. Len(s) : s[i].seq = e.seq
    BY <1>19 DEF Has
  <2>2. CASE s[i].seq >= n
    BY <2>1, <2>2, <1>2
  <2>3. CASE ~(s[i].seq >= n)
    BY <2>1, <2>3, <1>2, <1>10
  <2> QED
    BY <2>2, <2>3
<1>20. ASSUME Covers(E, s, b), Shown(E, n, g) PROVE Shown(E, m, g2)
  <2> SUFFICES ASSUME NEW e \in E, e.seq < m PROVE Has(g2, e.seq)
    BY DEF Shown
  <2>0. e.seq \in Nat
    BY <1>9
  <2>1. CASE e.seq < mid
    <3>1. Has(g1, e.seq)
      BY <2>1, <1>16, <1>20
    <3> QED
      BY <3>1, <2>0, <1>12
  <2>2. CASE ~(e.seq < mid)
    <3>1. ~HasDone(old) /\ ~Has(s, e.seq) /\ e.seq >= mid
      BY <2>2, <2>0, <1>2, <1>17, <1>19
    <3>2. CASE Has(b, e.seq)
      BY <3>1, <3>2, <1>18
    <3>3. CASE b = <<>>
      <4>1. Len(b) = 0
        BY <3>3
      <4>2. m = mid
        BY <3>1, <4>1, <1>4
      <4> QED
        BY <4>2, <2>2
    <3> QED
      BY <3>1, <3>2, <3>3, <1>20 DEF Covers, Both
  <2> QED
    BY <2>1, <2>2
<1>21. ASSUME Covers(E, s, b), ~HasDone(old) PROVE Caught(E, m)
  <2> SUFFICES ASSUME NEW e \in E, ~IsDone(e) PROVE e.seq < m
    BY DEF Caught
  <2>0. e.seq \in Nat
    BY <1>9
  <2>1. CASE e.seq < mid
    BY <2>0, <2>1, <1>2, <1>12
  <2>2. CASE ~(e.seq < mid)
    <3>1. ~Has(s, e.seq) /\ e.seq >= mid
      BY <2>2, <2>0, <1>2, <1>19
    <3>2. Has(b, e.seq)
      BY <3>1, <1>21 DEF Covers, Both, ButDone
    <3> QED
      BY <3>1, <3>2, <1>18, <1>21
  <2> QED
    BY <2>1, <2>2
<1> QED
  BY <1>7, <1>12, <1>14, <1>15, <1>20, <1>21

------------------------------------------------------------------------------
\* A file gets a done of the repair.

Repairs(E, E2, n) ==
  /\ E \subseteq E2 /\ E2 \subseteq Events /\ Last(E, n)
  /\ \A f \in E2 : f \in E \/ (IsDone(f) /\ f.seq = n)

\* A repair adds a done at the end, or one more where there is one.
LEMMA LastRepaired ==
  ASSUME NEW E, NEW E2, NEW n \in Nat, Repairs(E, E2, n)
  PROVE  Last(E2, n)
BY DEF Repairs, Last

LEMMA ShownRepaired ==
  ASSUME NEW E, NEW E2, NEW n \in Nat, Repairs(E, E2, n), NEW k \in Nat, NEW g,
         k <= n \/ Has(g, n), Shown(E, k, g)
  PROVE  Shown(E2, k, g)
BY DEF Repairs, Shown

LEMMA SnapRepaired ==
  ASSUME NEW E, NEW E2, NEW n \in Nat, Repairs(E, E2, n), NEW s, SnapOK(E, s)
  PROVE  SnapOK(E2, s)
<1>1. \A i \in 1 .. Len(s) : s[i] \in E /\ s[i] \in E2
  BY DEF SnapOK, Repairs
<1>2. ASSUME NEW e \in E2 PROVE Has(s, e.seq) \/ AllBelow(s, e.seq)
  <2>1. CASE e \in E
    BY <2>1 DEF SnapOK
  <2>2. CASE e.seq = n
    <3>1. \A i \in 1 .. Len(s) : s[i].seq < n \/ s[i].seq = n
      BY <1>1 DEF Repairs, Last
    <3> QED
      BY <3>1, <2>2 DEF Has, AllBelow
  <2> QED
    BY <2>1, <2>2 DEF Repairs
<1> QED
  BY <1>1, <1>2 DEF SnapOK

LEMMA CaughtRepaired ==
  ASSUME NEW E, NEW E2, NEW n \in Nat, Repairs(E, E2, n), NEW k
  PROVE  /\ Caught(E, k) => Caught(E2, k)
         /\ \A s : ButDone(E, s) => ButDone(E2, s)
BY DEF Repairs, Caught, ButDone

------------------------------------------------------------------------------
\* lines.

\* The file becomes new when es is appended to it: all of es, or all but the
\* first, which ran into a torn line.
Grown(new, old, es, isTorn) ==
  /\ new \in Seq(Events)
  /\ Elts(old) \subseteq Elts(new)
  /\ \A f \in Elts(new) : f \in Elts(old) \/ \E i \in 1 .. Len(es) : f = es[i]
  /\ \A i \in 1 .. Len(es) : es[i] \in Elts(new) \/ (isTorn /\ i = 1)
  /\ Ordered(new)

\* An append to a file in order: the new lines follow, but a torn first one.
LEMMA LinesIs ==
  ASSUME NEW r, file[r] \in Seq(Events), Ordered(file[r]), torn[r] \in BOOLEAN,
         NEW es \in Seq(Events), Clean(es), Strict(es),
         \A e \in Evs(r) : \A i \in 1 .. Len(es) : Before(e, es[i])
  PROVE  Grown(lines(r, es), file[r], es, torn[r])
<1> DEFINE s == file[r]
           new == lines(r, es)
           g == Ev(0, "garbage")
<1>1. Len(s) \in Nat /\ Len(es) \in Nat
  OBVIOUS
<1>2. g \in Events /\ g.type = "garbage" /\ <<g>> \in Seq(Events) /\ Len(<<g>>) = 1 /\ <<g>>[1] = g
  BY DEF Ev, Events, Types
<1>3. /\ new \in Seq(Events) /\ Len(new) = Len(s) + Len(es)
      /\ \A i \in 1 .. Len(s) : new[i] = s[i] /\ i \in 1 .. Len(new)
      /\ \A i \in 1 .. Len(es) :
           /\ Len(s) + i \in 1 .. Len(new)
           /\ new[Len(s) + i] = IF torn[r] /\ i = 1 THEN g ELSE es[i]
      /\ \A i \in 1 .. Len(new) : i \in 1 .. Len(s) \/ i - Len(s) \in 1 .. Len(es)
  <2>1. CASE torn[r] /\ es # <<>>
    <3> DEFINE h == s \o <<g>>
               t == Tail(es)
    <3>1. new = h \o t
      BY <2>1 DEF lines
    <3>2. t \in Seq(Events) /\ Len(t) = Len(es) - 1 /\ \A i \in 1 .. Len(t) : t[i] = es[i + 1]
      BY <2>1
    <3>3. h \in Seq(Events) /\ Len(h) = Len(s) + 1 /\ h[Len(s) + 1] = g
          /\ \A i \in 1 .. Len(s) : h[i] = s[i]
      BY <1>2
    <3> HIDE DEF h, t, g, new
    <3>4. /\ new \in Seq(Events) /\ Len(new) = Len(h) + Len(t)
          /\ \A i \in 1 .. Len(h) : new[i] = h[i] /\ i \in 1 .. Len(new)
          /\ \A i \in 1 .. Len(t) : new[Len(h) + i] = t[i] /\ Len(h) + i \in 1 .. Len(new)
      <4>1. /\ h \o t \in Seq(Events) /\ Len(h \o t) = Len(h) + Len(t)
            /\ \A i \in 1 .. Len(h) : (h \o t)[i] = h[i] /\ i \in 1 .. Len(h \o t)
            /\ \A i \in 1 .. Len(t) : (h \o t)[Len(h) + i] = t[i] /\ Len(h) + i \in 1 .. Len(h \o t)
        <5>1. h \in Seq(Events) /\ t \in Seq(Events)
          BY <3>2, <3>3
        <5> QED
          BY <5>1, ConcatIs, Zenon
      <4> QED
        BY <3>1, <4>1
    <3>5. Len(new) = Len(s) + Len(es)
      BY <3>2, <3>3, <3>4, <1>1
    <3>6. \A i \in 1 .. Len(s) : new[i] = s[i] /\ i \in 1 .. Len(new)
      BY <3>3, <3>4, <1>1
    <3>7. \A i \in 1 .. Len(new) : i \in 1 .. Len(s) \/ i - Len(s) \in 1 .. Len(es)
      BY <3>5, <1>1
    <3>8. ASSUME NEW i \in 1 .. Len(es)
          PROVE  /\ Len(s) + i \in 1 .. Len(new)
                 /\ new[Len(s) + i] = IF torn[r] /\ i = 1 THEN g ELSE es[i]
      <4>1. CASE i = 1
        BY SMTT(20), <4>1, <2>1, <3>3, <3>4, <1>1
      <4>2. CASE i # 1
        <5> DEFINE j == i - 1
        <5>1. j \in 1 .. Len(t) /\ j + 1 = i /\ Len(h) + j = Len(s) + i
          BY <4>2, <3>2, <3>3, <1>1
        <5> HIDE DEF j
        <5>2. new[Len(h) + j] = t[j] /\ t[j] = es[j + 1] /\ Len(h) + j \in 1 .. Len(new)
          BY <5>1, <3>2, <3>4
        <5> QED
          BY <5>1, <5>2, <4>2
      <4> QED
        BY <4>1, <4>2
    <3> QED
      BY <3>4, <3>5, <3>6, <3>7, <3>8
  <2>2. CASE ~(torn[r] /\ es # <<>>)
    <3>1. new = s \o es
      BY <2>2 DEF lines
    <3>2. ~torn[r] \/ Len(es) = 0
      BY <2>2
    <3> HIDE DEF g, new, s
    <3>3. s \in Seq(Events)
      BY DEF s
    <3> QED
      BY <3>1, <3>2, <3>3, ConcatIs
  <2> QED
    BY <2>1, <2>2
<1> HIDE DEF new, g, s
<1>4. \A i \in Kept(new) : i \in Kept(s) \/ (i - Len(s) \in 1 .. Len(es) /\ new[i] = es[i - Len(s)])
  <2> SUFFICES ASSUME NEW i \in Kept(new), i \notin Kept(s)
               PROVE  i - Len(s) \in 1 .. Len(es) /\ new[i] = es[i - Len(s)]
    OBVIOUS
  <2>1. i \in 1 .. Len(new) /\ new[i].type # "garbage"
    BY DEF Kept
  <2>2. i \notin 1 .. Len(s)
    BY <2>1, <1>3 DEF Kept
  <2> DEFINE l == i - Len(s)
  <2>3. l \in 1 .. Len(es) /\ Len(s) + l = i
    BY <2>1, <2>2, <1>1, <1>3
  <2> HIDE DEF l
  <2>4. new[i] = IF torn[r] /\ l = 1 THEN g ELSE es[l]
    BY <2>3, <1>3
  <2>5. new[i] = es[l]
    BY <2>1, <2>4, <1>2
  <2> QED
    BY <2>3, <2>5 DEF l
<1>5. \A i \in Kept(s) : i \in Kept(new) /\ new[i] = s[i] /\ i \in 1 .. Len(s)
  BY <1>3 DEF Kept
<1>6. \A i \in Kept(new) : i \in Kept(s) => new[i] = s[i]
  BY <1>5
<1>7. Elts(s) \subseteq Elts(new)
  BY <1>5 DEF Elts
<1>8. \A f \in Elts(new) : f \in Elts(s) \/ \E i \in 1 .. Len(es) : f = es[i]
  BY <1>4, <1>5 DEF Elts
<1>9. ASSUME NEW i \in 1 .. Len(es), ~(torn[r] /\ i = 1) PROVE es[i] \in Elts(new)
  <2>1. new[Len(s) + i] = es[i] /\ Len(s) + i \in 1 .. Len(new)
    BY <1>3, <1>9
  <2>2. Len(s) + i \in Kept(new)
    BY <2>1 DEF Kept, Clean
  <2> QED
    BY <2>1, <2>2 DEF Elts
<1>10. Ordered(new)
  <2> SUFFICES ASSUME NEW i \in Kept(new), NEW j \in Kept(new), i < j
               PROVE  Before(new[i], new[j])
    BY DEF Ordered
  <2>1. CASE i \in Kept(s) /\ j \in Kept(s)
    BY <2>1, <1>5 DEF Ordered, s
  <2>2. CASE i \in Kept(s) /\ j \notin Kept(s)
    <3>1. new[i] = s[i] /\ s[i] \in Evs(r)
      BY <2>2, <1>5 DEF Evs, Elts, s
    <3>2. j - Len(s) \in 1 .. Len(es) /\ new[j] = es[j - Len(s)]
      BY <2>2, <1>4
    <3> QED
      BY <3>1, <3>2
  <2>3. CASE i \notin Kept(s)
    <3> DEFINE k == i - Len(s)
               l == j - Len(s)
    <3>1. k \in 1 .. Len(es) /\ new[i] = es[k]
      BY <2>3, <1>4
    <3>2. i \in Nat /\ j \in Nat /\ j \notin 1 .. Len(s)
      BY <3>1, <1>1 DEF Kept
    <3>3. j \notin Kept(s)
      BY <3>2, <1>5
    <3>4. l \in 1 .. Len(es) /\ new[j] = es[l] /\ k < l
      BY <3>2, <3>3, <1>1, <1>4
    <3> HIDE DEF k, l
    <3>5. ~IsDone(es[k]) /\ es[k].seq < es[l].seq
      BY <3>1, <3>4 DEF Strict
    <3> QED
      BY <3>1, <3>4, <3>5 DEF Before
  <2> QED
    BY <2>1, <2>2, <2>3
<1>11. Grown(new, s, es, torn[r])
  BY <1>3, <1>7, <1>8, <1>9, <1>10 DEF Grown
<1> QED
  BY <1>11 DEF new, s

------------------------------------------------------------------------------
\* The invariant.

Going == {"running", "appending", "parked", "failing"}
Bound(r) == IF pc[r] = "appending" THEN event[r].seq ELSE seq[r]

\* A run and its file.
RunInv(r) ==
  /\ Ordered(file[r])
  /\ pc[r] \in {"none", "opening"} => Evs(r) = {}
  /\ pc[r] \in Going => Open(Evs(r), Bound(r))
  /\ pc[r] = "appending" => seq[r] = event[r].seq + 1 /\ event[r].type \in {"event", "ask", "done"}
  /\ pc[r] \in {"none", "opening", "running", "appending", "parked"} => ~torn[r]
  /\ pc[r] \in {"closing", "over"} => r \in unsaved \/ \E e \in Evs(r) : IsDone(e)
  /\ pc[r] = "dead" <=> r \in killed
  /\ r \in unsaved => pc[r] \in {"closing", "over", "dead"}
  /\ (\E e \in Evs(r) : e.type = "synthetic") => r \in killed \/ r \in unsaved

\* A reader whose client has got, all below sent, of the events E of its run r.
ReaderInv(d) ==
  LET r == Watched[d]
      E == Evs(r)
      s == snap[d]
      b == buffered[d]
  IN /\ Rising(got[d]) /\ AllBelow(got[d], sent[d])
     /\ conn[d] # "off" => HasFile(r)
     /\ conn[d] \in {"repairing", "appending"} => r \notin active
     /\ conn[d] \in {"reading", "replaying"} /\ r \in active => d \in subs
     /\ conn[d] = "live" => d \in subs
     /\ d \in subs => r \notin killed
     /\ conn[d] \notin {"reading", "replaying"} \/ d \notin subs => b = <<>>
     /\ BufferOK(E, b)
     /\ conn[d] # "ended" => Placed(E, sent[d])
     /\ r \notin unsaved => Shown(E, sent[d], got[d])
     /\ conn[d] \in {"live", "repairing", "appending"} /\ r \notin unsaved => Caught(E, sent[d])
     /\ conn[d] = "replaying" => SnapOK(E, s)
     /\ conn[d] = "replaying" /\ d \in subs /\ r \notin unsaved => Both(E, s, b)
     /\ conn[d] = "replaying" /\ d \notin subs => ButDone(E, s)
     /\ conn[d] = "appending" => (r \in killed \/ r \in unsaved) /\ next(s, 0) \in Nat /\ Last(E, next(s, 0))
     /\ conn[d] = "ended" =>
          \E k \in Nat :
            /\ sent[d] = k + 1 /\ Has(got[d], k)
            /\ DoneAt(E, k) \/ (r \notin active /\ HasFile(r) /\ Last(E, k))

Inv ==
  /\ TypeOK
  /\ \A r \in Runs : RunInv(r)
  /\ \A d \in Readers : ReaderInv(d)

LEMMA InitInv == Init => Inv
<1> SUFFICES ASSUME Init PROVE Inv
  OBVIOUS
<1>0. <<>> \in Seq(Events) /\ Len(<<>>) = 0 /\ NoEvent \in Events
  BY DEF NoEvent, Ev, Events, Types
<1>1. TypeOK
  <2>1. {snap, buffered, got} \subseteq [Readers -> Seq(Events)]
    BY <1>0 DEF Init
  <2>2. active = {r \in Runs : pc[r] \notin {"none", "over", "unopened", "dead"}}
    BY DEF Init
  <2> QED
    BY <1>0, <2>1, <2>2, RunStoreAssumption DEF Init, TypeOK
<1>2. \A r \in Runs : Evs(r) = {} /\ Ordered(file[r])
  BY <1>0 DEF Init, Evs, Elts, Kept, Ordered
<1>3. ASSUME NEW r \in Runs PROVE RunInv(r)
  BY <1>2 DEF RunInv, Init, Going
<1>4. ASSUME NEW d \in Readers PROVE ReaderInv(d)
  <2>1. Watched[d] \in Runs
    BY RunStoreAssumption
  <2>2. Evs(Watched[d]) = {}
    BY <1>2, <2>1
  <2>3. got[d] = <<>> /\ buffered[d] = <<>> /\ sent[d] = 0 /\ conn[d] = "off" /\ d \notin subs
    BY DEF Init
  <2>4. Rising(<<>>) /\ AllBelow(<<>>, 0) /\ BufferOK({}, <<>>) /\ Placed({}, 0) /\ Shown({}, 0, <<>>)
    BY <1>0 DEF Rising, AllBelow, BufferOK, Strict, Clean, Placed, Shown
  <2> QED
    BY <2>2, <2>3, <2>4 DEF ReaderInv
<1> QED
  BY <1>1, <1>3, <1>4 DEF Inv

------------------------------------------------------------------------------
\* Types.

RunStates == {"none", "opening", "running", "appending", "parked", "failing",
              "closing", "over", "unopened", "dead"}
ReaderStates == {"off", "reading", "replaying", "live", "repairing", "appending", "ended"}

FilesTyped == file \in [Runs -> Seq(Events)] /\ torn \in [Runs -> BOOLEAN]
RunsTyped ==
  /\ pc \in [Runs -> RunStates] /\ aborted \in [Runs -> BOOLEAN]
  /\ event \in [Runs -> Events] /\ seq \in [Runs -> Nat]
  /\ active = {r \in Runs : pc[r] \notin {"none", "over", "unopened", "dead"}}
ReadersTyped ==
  /\ conn \in [Readers -> ReaderStates] /\ sent \in [Readers -> Nat]
  /\ subs \subseteq {d \in Readers : conn[d] # "off"}
  /\ snap \in [Readers -> Seq(Events)] /\ buffered \in [Readers -> Seq(Events)]
  /\ got \in [Readers -> Seq(Events)]
PastTyped == killed \subseteq Runs /\ unsaved \subseteq Runs /\ drops \in Nat

LEMMA TypeParts == TypeOK <=> FilesTyped /\ RunsTyped /\ ReadersTyped /\ PastTyped
<1>1. {snap, buffered, got} \subseteq [Readers -> Seq(Events)] <=>
        /\ snap \in [Readers -> Seq(Events)] /\ buffered \in [Readers -> Seq(Events)]
        /\ got \in [Readers -> Seq(Events)]
  OBVIOUS
<1> QED
  BY <1>1 DEF TypeOK, FilesTyped, RunsTyped, ReadersTyped, PastTyped, RunStates, ReaderStates

LEMMA EventTyped ==
  ASSUME NEW n \in Nat, NEW type \in Types
  PROVE  /\ Ev(n, type) \in Events /\ <<Ev(n, type)>> \in Seq(Events)
         /\ Ev(n, type).seq = n /\ Ev(n, type).type = type
BY DEF Ev, Events

LEMMA LinesTyped ==
  ASSUME FilesTyped, NEW r \in Runs, NEW es \in Seq(Events)
  PROVE  lines(r, es) \in Seq(Events)
<1>1. file[r] \in Seq(Events) /\ <<Ev(0, "garbage")>> \in Seq(Events)
  BY EventTyped DEF FilesTyped, Types
<1>2. CASE torn[r] /\ es # <<>>
  <2>1. Tail(es) \in Seq(Events)
    BY <1>2
  <2>2. file[r] \o <<Ev(0, "garbage")>> \in Seq(Events)
    BY <1>1, ConcatIs, Zenon
  <2>3. (file[r] \o <<Ev(0, "garbage")>>) \o Tail(es) \in Seq(Events)
    BY <2>1, <2>2, ConcatIs, Zenon
  <2> QED
    BY <1>2, <2>3, Zenon DEF lines
<1>3. CASE ~(torn[r] /\ es # <<>>)
  <2>1. file[r] \o es \in Seq(Events)
    BY <1>1
  <2> QED
    BY <1>3, <2>1 DEF lines
<1> QED
  BY <1>2, <1>3

LEMMA SubSeqTyped ==
  ASSUME NEW es \in Seq(Events), NEW i \in 1 .. Len(es), NEW j \in 1 .. Len(es)
  PROVE  SubSeq(es, i, j) \in Seq(Events)
OBVIOUS

LEMMA EmitsTyped ==
  ASSUME NEW es \in Seq(Events), NEW n \in Nat
  PROVE  emits(es, n) \in Seq(Events) /\ next(emits(es, n), n) \in Nat
<1> DEFINE lacks == {i \in 1 .. Len(es) : es[i].seq >= n}
           dones == {i \in lacks : IsDone(es[i])}
           o == emits(es, n)
<1>1. o \in Seq(Events)
  <2>1. CASE lacks = {}
    BY <2>1 DEF emits
  <2>2. CASE lacks # {}
    <3>1. lacks \subseteq Nat /\ lacks \subseteq 1 .. Len(es) /\ dones \subseteq 1 .. Len(es)
          /\ dones \subseteq Nat /\ Len(es) \in 1 .. Len(es) /\ Len(es) \in Nat
      BY <2>2
    <3>2. o = SubSeq(es, Lowest(lacks), Lowest(dones \cup {Len(es)}))
      BY <2>2, Zenon DEF emits
    <3> HIDE DEF lacks, dones, o
    <3>3. Lowest(lacks) \in 1 .. Len(es)
      BY <2>2, <3>1, LowestIs
    <3>4. dones \cup {Len(es)} \subseteq Nat /\ dones \cup {Len(es)} # {}
      BY <3>1
    <3>5. Lowest(dones \cup {Len(es)}) \in 1 .. Len(es)
      BY <3>1, <3>4, LowestIs
    <3> QED
      BY <3>2, <3>3, <3>5, SubSeqTyped
  <2> QED
    BY <2>1, <2>2
<1> HIDE DEF o
<1>2. next(o, n) \in Nat
  <2>1. CASE o = <<>>
    BY <2>1 DEF next
  <2>2. CASE o # <<>>
    <3>1. o[Len(o)] \in Events
      BY <1>1, <2>2
    <3> QED
      BY <3>1, <2>2 DEF next, Events
  <2> QED
    BY <2>1, <2>2
<1> QED
  BY <1>1, <1>2 DEF o

LEMMA NotifyTyped ==
  ASSUME ReadersTyped, NEW r \in Runs, NEW es \in Seq(Events), Notify(r, es)
  PROVE  ReadersTyped'
<1> DEFINE new(d) == emits(es, sent[d])
<1>1. \A d \in Readers :
        /\ conn[d] \in ReaderStates /\ sent[d] \in Nat
        /\ snap[d] \in Seq(Events) /\ buffered[d] \in Seq(Events) /\ got[d] \in Seq(Events)
  BY DEF ReadersTyped
<1>2. \A d \in Readers :
        /\ new(d) \in Seq(Events) /\ next(new(d), sent[d]) \in Nat
        /\ got[d] \o new(d) \in Seq(Events) /\ buffered[d] \o es \in Seq(Events)
  <2> TAKE d \in Readers
  <2>1. new(d) \in Seq(Events) /\ next(new(d), sent[d]) \in Nat
    BY <1>1, EmitsTyped
  <2> HIDE DEF new
  <2> QED
    BY <1>1, <2>1
<1>3. /\ buffered' = [d \in Readers |-> IF d \in Replaying(r) THEN buffered[d] \o es ELSE buffered[d]]
      /\ got' = [d \in Readers |-> IF d \in Live(r) THEN got[d] \o new(d) ELSE got[d]]
      /\ sent' = [d \in Readers |-> IF d \in Live(r) THEN next(new(d), sent[d]) ELSE sent[d]]
      /\ conn' = [d \in Readers |-> IF d \in Live(r) /\ HasDone(new(d)) THEN "ended" ELSE conn[d]]
      /\ subs' = subs /\ snap' = snap
  BY DEF Notify
<1> HIDE DEF new
<1>4. /\ buffered' \in [Readers -> Seq(Events)] /\ got' \in [Readers -> Seq(Events)]
      /\ sent' \in [Readers -> Nat]
  BY <1>1, <1>2, <1>3
<1>5. conn' \in [Readers -> ReaderStates] /\ \A d \in Readers : conn[d] # "off" => conn'[d] # "off"
  BY <1>1, <1>3 DEF ReaderStates
<1> QED
  BY <1>3, <1>4, <1>5 DEF ReadersTyped

LEMMA TailTyped ==
  ASSUME NEW es \in Seq(Events), NEW n \in Nat, n <= Len(es)
  PROVE  SubSeq(es, 1, n) \in Seq(Events) /\ Len(SubSeq(es, 1, n)) = n
         /\ \A i \in 1 .. n : SubSeq(es, 1, n)[i] = es[i] /\ i \in 1 .. Len(es)
OBVIOUS

LEMMA LastLines ==
  ASSUME NEW r, seq[r] \in Nat
  PROVE  /\ lastLines(r) \in Seq(Events) /\ Len(lastLines(r)) = 2
         /\ lastLines(r)[1] = Ev(seq[r], "error") /\ lastLines(r)[2] = Ev(seq[r] + 1, "done")
<1>1. Ev(seq[r], "error") \in Events /\ Ev(seq[r] + 1, "done") \in Events
  BY EventTyped DEF Types
<1> QED
  BY <1>1 DEF lastLines

Typing == FilesTyped /\ RunsTyped /\ ReadersTyped /\ PastTyped

\* Types, step by step: a run, serve's end, a reader.
LEMMA RunTyped ==
  ASSUME Typing, NEW r \in Runs, Start(r) \/ RunStep(r) \/ RunThrows(r) \/ Approve(r) \/ Abort(r)
  PROVE  Typing'
<1> USE DEF Typing
<1>0. /\ file[r] \in Seq(Events) /\ torn[r] \in BOOLEAN /\ seq[r] \in Nat /\ event[r] \in Events
      /\ <<event[r]>> \in Seq(Events) /\ lastLines(r) \in Seq(Events)
      /\ NoEvent \in Events
      /\ \A es \in Seq(Events) : lines(r, es) \in Seq(Events)
  <2>1. file[r] \in Seq(Events) /\ torn[r] \in BOOLEAN /\ seq[r] \in Nat /\ event[r] \in Events
    BY DEF FilesTyped, RunsTyped
  <2> QED
    BY <2>1, LastLines, LinesTyped, EventTyped DEF NoEvent, Types
<1>1. ASSUME NEW p \in RunStates, At(r, p), UNCHANGED active,
             pc[r] \in {"none", "over", "unopened", "dead"} <=> p \in {"none", "over", "unopened", "dead"}
      PROVE  active' = {x \in Runs : pc'[x] \notin {"none", "over", "unopened", "dead"}}
  BY <1>1 DEF RunsTyped, At
<1>2. ASSUME NEW es \in Seq(Events), appendLines(r, es) PROVE FilesTyped'
  <2>1. lines(r, es) \in Seq(Events)
    BY <1>0
  <2> QED
    BY <1>2, <2>1 DEF FilesTyped, appendLines
<1>3. ASSUME NEW es \in Seq(Events), appendBreaks(r, es) PROVE FilesTyped'
  <2>1. PICK n \in 0 .. Len(es) - 1, part \in BOOLEAN :
          /\ file' = [file EXCEPT ![r] = lines(r, SubSeq(es, 1, n))]
          /\ torn' = [torn EXCEPT ![r] = part \/ (n = 0 /\ @)]
    BY <1>3 DEF appendBreaks
  <2>2. lines(r, SubSeq(es, 1, n)) \in Seq(Events)
    <3>1. n \in Nat /\ n <= Len(es)
      BY <2>1
    <3> QED
      BY <3>1, TailTyped, <1>0
  <2>3. torn' \in [Runs -> BOOLEAN]
    BY <2>1 DEF FilesTyped
  <2> QED
    BY <2>1, <2>2, <2>3 DEF FilesTyped
<1>4. CASE Start(r)
  <2>1. RunsTyped'
    BY <1>4 DEF Start, At, RunsTyped, RunStates
  <2> QED
    BY <1>4, <2>1 DEF Start, disk, reader, FilesTyped, ReadersTyped, PastTyped, unchangedPast
<1>5. ASSUME NEW ok \in BOOLEAN, Opened(r, ok) PROVE Typing'
  <2>1. RunsTyped'
    BY <1>5 DEF Opened, At, RunsTyped, RunStates
  <2> QED
    BY <1>5, <2>1 DEF Opened, disk, reader, FilesTyped, ReadersTyped, PastTyped, unchangedPast
<1>6. ASSUME NEW type \in {"event", "ask", "done"}, Yields(r, type) PROVE Typing'
  <2>1. Ev(seq[r], type) \in Events
    BY <1>0, EventTyped DEF Types
  <2>2. RunsTyped'
    BY <1>0, <1>6, <2>1 DEF Yields, At, RunsTyped, RunStates
  <2> QED
    BY <1>6, <2>2 DEF Yields, disk, reader, FilesTyped, ReadersTyped, PastTyped, unchangedPast
<1>7. CASE Appended(r)
  <2>1. Resumes(event[r]) \in {"parked", "closing", "running"}
    BY DEF Resumes
  <2>2. RunsTyped'
    BY <1>0, <1>7, <2>1 DEF Appended, At, RunsTyped, RunStates
  <2>3. FilesTyped'
    BY <1>0, <1>2, <1>7 DEF Appended
  <2>4. ReadersTyped'
    BY <1>0, <1>7, NotifyTyped DEF Appended
  <2> QED
    BY <1>7, <2>2, <2>3, <2>4 DEF Appended, PastTyped, unchangedPast
<1>8. CASE AppendFails(r)
  <2>1. RunsTyped'
    BY <1>0, <1>8 DEF AppendFails, At, RunsTyped, RunStates
  <2>2. FilesTyped'
    BY <1>0, <1>3, <1>8 DEF AppendFails
  <2> QED
    BY <1>8, <2>1, <2>2 DEF AppendFails, reader, ReadersTyped, PastTyped, unchangedPast
<1>9. CASE CatchAppends(r)
  <2>1. RunsTyped'
    BY <1>9 DEF CatchAppends, At, RunsTyped, RunStates
  <2>2. FilesTyped'
    BY <1>0, <1>2, <1>9 DEF CatchAppends
  <2>3. ReadersTyped'
    BY <1>0, <1>9, NotifyTyped DEF CatchAppends
  <2> QED
    BY <1>9, <2>1, <2>2, <2>3 DEF CatchAppends, PastTyped, unchangedPast
<1>10. CASE CatchFails(r)
  <2>1. RunsTyped'
    BY <1>10 DEF CatchFails, At, RunsTyped, RunStates
  <2>2. FilesTyped'
    BY <1>0, <1>3, <1>10 DEF CatchFails
  <2> QED
    BY <1>10, <2>1, <2>2 DEF CatchFails, reader, ReadersTyped, PastTyped
<1>11. CASE Closes(r)
  <2>1. RunsTyped'
    BY <1>11 DEF Closes, At, RunsTyped, RunStates
  <2> QED
    BY <1>11, <2>1 DEF Closes, disk, reader, FilesTyped, ReadersTyped, PastTyped, unchangedPast
<1>12. CASE Approve(r)
  <2>1. RunsTyped'
    BY <1>12 DEF Approve, At, RunsTyped, RunStates
  <2> QED
    BY <1>12, <2>1 DEF Approve, disk, reader, FilesTyped, ReadersTyped, PastTyped, unchangedPast
<1>13. CASE Abort(r)
  <2>1. RunsTyped'
    BY <1>13 DEF Abort, RunsTyped, RunStates
  <2> QED
    BY <1>13, <2>1 DEF Abort, disk, reader, FilesTyped, ReadersTyped, PastTyped, unchangedPast
<1>14. CASE RunThrows(r)
  <2>1. RunsTyped'
    BY <1>14 DEF RunThrows, At, RunsTyped, RunStates
  <2> QED
    BY <1>14, <2>1 DEF RunThrows, disk, reader, FilesTyped, ReadersTyped, PastTyped, unchangedPast
<1> QED
  BY <1>4, <1>5, <1>6, <1>7, <1>8, <1>9, <1>10, <1>11, <1>12, <1>13, <1>14 DEF RunStep, StoreStep, GoesOn, ApprovalTimeout

LEMMA UnderWay ==
  ASSUME Typing, NEW r \in Runs
  PROVE  underWay(r) \in Seq(Events)
<1>1. event[r] \in Events /\ seq[r] \in Nat
  BY DEF Typing, RunsTyped
<1>2. <<event[r]>> \in Seq(Events) /\ lastLines(r) \in Seq(Events) /\ <<>> \in Seq(Events)
  BY <1>1, LastLines
<1> QED
  BY <1>2, Zenon DEF underWay

LEMMA KillTyped ==
  ASSUME Typing, Kill
  PROVE  Typing'
<1> USE DEF Typing
<1>1. PICK n \in [Runs -> 0 .. 2], part \in SUBSET Runs :
        /\ \A r \in Runs : n[r] <= Len(underWay(r))
        /\ file' = [r \in Runs |-> lines(r, SubSeq(underWay(r), 1, n[r]))]
        /\ torn' = [r \in Runs |-> r \in part \/ (torn[r] /\ n[r] = 0)]
  BY DEF Kill
<1>2. \A r \in Runs : lines(r, SubSeq(underWay(r), 1, n[r])) \in Seq(Events)
  <2> TAKE r \in Runs
  <2>1. n[r] \in Nat /\ n[r] <= Len(underWay(r)) /\ underWay(r) \in Seq(Events)
    BY <1>1, UnderWay
  <2>2. SubSeq(underWay(r), 1, n[r]) \in Seq(Events)
    BY <2>1, TailTyped
  <2> QED
    BY <2>2, LinesTyped
<1>3. FilesTyped'
  BY <1>1, <1>2 DEF FilesTyped
<1>4. RunsTyped'
  <2>1. NoEvent \in Events
    BY EventTyped DEF NoEvent, Types
  <2>2. /\ pc' = [r \in Runs |-> IF r \in active THEN "dead" ELSE pc[r]]
        /\ active' = {} /\ seq' = [r \in Runs |-> 0] /\ event' = [r \in Runs |-> NoEvent]
        /\ aborted' = [r \in Runs |-> FALSE]
    BY DEF Kill
  <2> QED
    BY <2>1, <2>2 DEF RunsTyped, RunStates
<1>5. ReadersTyped'
  <2>1. <<>> \in Seq(Events)
    OBVIOUS
  <2>2. /\ conn' = [d \in Readers |-> IF conn[d] = "ended" THEN "ended" ELSE "off"]
        /\ subs' = {} /\ snap' = [d \in Readers |-> <<>>] /\ buffered' = [d \in Readers |-> <<>>]
        /\ sent' = sent /\ got' = got
    BY DEF Kill
  <2> QED
    BY <2>1, <2>2 DEF ReadersTyped, ReaderStates
<1>6. PastTyped'
  BY DEF Kill, PastTyped, RunsTyped
<1> QED
  BY <1>3, <1>4, <1>5, <1>6

LEMMA ReaderTyped ==
  ASSUME Typing, NEW d \in Readers, Connect(d) \/ ReaderStep(d) \/ Drop(d)
  PROVE  Typing'
<1> USE DEF Typing
<1>0. /\ Watched[d] \in Runs /\ snap[d] \in Seq(Events) /\ buffered[d] \in Seq(Events)
      /\ got[d] \in Seq(Events) /\ sent[d] \in Nat /\ <<>> \in Seq(Events)
  BY RunStoreAssumption DEF ReadersTyped
<1>1. read(Watched[d]) \in Seq(Events)
  <2>1. file[Watched[d]] \in Seq(Events)
    BY <1>0 DEF FilesTyped
  <2> QED
    BY <2>1, ReadIs DEF read, ReadOf
<1>2. ASSUME unchangedRun PROVE FilesTyped' /\ RunsTyped' /\ PastTyped'
  BY <1>2 DEF unchangedRun, disk, run, unchangedPast, FilesTyped, RunsTyped, PastTyped
<1>3. CASE Connect(d)
  <2>1. ReadersTyped'
    BY <1>3 DEF Connect, Move, ReadersTyped, ReaderStates
  <2> QED
    BY <1>3, <1>2, <2>1 DEF Connect
<1>4. CASE ReadFile(d)
  <2>1. ReadersTyped'
    BY <1>1, <1>4 DEF ReadFile, Move, ReadersTyped, ReaderStates
  <2> QED
    BY <1>4, <1>2, <2>1 DEF ReadFile
<1>5. CASE Replay(d)
  <2> DEFINE old == emits(snap[d], sent[d])
             mid == next(old, sent[d])
             late == IF HasDone(old) THEN <<>> ELSE emits(buffered[d], mid)
             p == IF HasDone(old \o late) THEN "ended" ELSE onward(d)
  <2>1. old \in Seq(Events) /\ mid \in Nat
    BY <1>0, EmitsTyped
  <2>2. /\ got' = [got EXCEPT ![d] = @ \o old \o late]
        /\ sent' = [sent EXCEPT ![d] = next(late, mid)]
        /\ conn' = [conn EXCEPT ![d] = p]
        /\ snap' = [snap EXCEPT ![d] = <<>>] /\ buffered' = [buffered EXCEPT ![d] = <<>>]
        /\ subs' = subs /\ conn[d] # "off"
    BY <1>5, Zenon DEF Replay, replays, Move
  <2> HIDE DEF old, mid
  <2>3. late \in Seq(Events) /\ next(late, mid) \in Nat
    <3>1. CASE HasDone(old)
      <4>1. late = <<>>
        BY <3>1
      <4> QED
        BY <4>1, <2>1, <1>0 DEF next
    <3>2. CASE ~HasDone(old)
      <4>1. late = emits(buffered[d], mid)
        BY <3>2
      <4> HIDE DEF late
      <4> QED
        BY <4>1, <2>1, <1>0, EmitsTyped
    <3> QED
      BY <3>1, <3>2
  <2>4. p \in {"ended", "live", "repairing"}
    BY DEF onward
  <2> HIDE DEF late, p
  <2>5. got[d] \o old \o late \in Seq(Events)
    <3>1. got[d] \o old \in Seq(Events)
      BY <1>0, <2>1
    <3> QED
      BY <3>1, <2>3, ConcatIs, Zenon
  <2>6. ReadersTyped'
    <3>1. conn' \in [Readers -> ReaderStates]
      BY <2>2, <2>4 DEF ReadersTyped, ReaderStates
    <3>2. \A x \in Readers : conn[x] # "off" => conn'[x] # "off"
      BY <2>2, <2>4 DEF ReadersTyped
    <3>3. sent' \in [Readers -> Nat]
      BY <2>2, <2>3 DEF ReadersTyped
    <3>4. got' \in [Readers -> Seq(Events)]
      BY <2>2, <2>5, Zenon DEF ReadersTyped
    <3>5. snap' \in [Readers -> Seq(Events)] /\ buffered' \in [Readers -> Seq(Events)]
      BY <1>0, <2>2 DEF ReadersTyped
    <3> QED
      BY <2>2, <3>1, <3>2, <3>3, <3>4, <3>5 DEF ReadersTyped
  <2> QED
    BY <1>5, <1>2, <2>6 DEF Replay, replays
<1>6. CASE RepairReads(d)
  <2> DEFINE es == read(Watched[d])
  <2>1. /\ conn' = [conn EXCEPT ![d] = IF HasDone(es) THEN "off" ELSE "appending"]
        /\ snap' = [snap EXCEPT ![d] = IF HasDone(es) THEN <<>> ELSE es]
        /\ subs' = IF HasDone(es) THEN subs \ {d} ELSE subs
        /\ sent' = sent /\ buffered' = buffered /\ got' = got
    BY <1>6 DEF RepairReads, Move
  <2>2. es \in Seq(Events)
    BY <1>1
  <2> HIDE DEF es
  <2>3. ReadersTyped'
    <3>1. snap' \in [Readers -> Seq(Events)]
      BY <1>0, <2>1, <2>2 DEF ReadersTyped
    <3>2. conn' \in [Readers -> ReaderStates]
      BY <2>1 DEF ReadersTyped, ReaderStates
    <3>3. subs' \subseteq {x \in Readers : conn'[x] # "off"}
      BY <2>1 DEF ReadersTyped
    <3> QED
      BY <2>1, <3>1, <3>2, <3>3 DEF ReadersTyped
  <2> QED
    BY <1>6, <1>2, <2>3 DEF RepairReads
<1>7. CASE RepairAppends(d)
  <2> DEFINE es == <<Ev(next(snap[d], 0), "synthetic")>>
             o == emits(es, sent[d])
  <2>1. next(snap[d], 0) \in Nat
    <3>1. CASE snap[d] = <<>>
      BY <3>1 DEF next
    <3>2. CASE snap[d] # <<>>
      <4>1. snap[d][Len(snap[d])] \in Events
        BY <1>0, <3>2
      <4> QED
        BY <4>1, <3>2 DEF next, Events
    <3> QED
      BY <3>1, <3>2
  <2>2. es \in Seq(Events)
    BY <2>1, EventTyped DEF Types
  <2>3. /\ conn' = [conn EXCEPT ![d] = "ended"]
        /\ got' = [got EXCEPT ![d] = @ \o o]
        /\ sent' = [sent EXCEPT ![d] = next(o, sent[d])]
        /\ snap' = [snap EXCEPT ![d] = <<>>]
        /\ subs' = subs /\ buffered' = buffered
        /\ appendLines(Watched[d], es)
    <3>1. sent' = [sent EXCEPT ![d] = next(emits(es, @), @)]
      BY <1>7 DEF RepairAppends
    <3>2. sent' = [sent EXCEPT ![d] = next(o, sent[d])]
      BY <3>1
    <3> QED
      BY <1>7, <3>2 DEF RepairAppends, Move
  <2> HIDE DEF es
  <2>4. o \in Seq(Events) /\ next(o, sent[d]) \in Nat
    BY <1>0, <2>2, EmitsTyped
  <2> HIDE DEF o
  <2>5. got[d] \o o \in Seq(Events)
    BY <1>0, <2>4, ConcatIs, Zenon
  <2>6. ReadersTyped'
    <3>1. got' \in [Readers -> Seq(Events)]
      BY <2>3, <2>5, Zenon DEF ReadersTyped
    <3>2. sent' \in [Readers -> Nat]
      BY <2>3, <2>4 DEF ReadersTyped
    <3>3. conn' \in [Readers -> ReaderStates] /\ subs' \subseteq {x \in Readers : conn'[x] # "off"}
      BY <2>3 DEF ReadersTyped, ReaderStates
    <3>4. snap' \in [Readers -> Seq(Events)] /\ buffered' \in [Readers -> Seq(Events)]
      BY <2>3, <1>0 DEF ReadersTyped
    <3> QED
      BY <3>1, <3>2, <3>3, <3>4 DEF ReadersTyped
  <2>7. FilesTyped'
    <3>1. lines(Watched[d], es) \in Seq(Events)
      BY <1>0, <2>2, LinesTyped
    <3> QED
      BY <2>3, <3>1 DEF FilesTyped, appendLines
  <2> QED
    BY <1>7, <2>6, <2>7 DEF RepairAppends, run, unchangedPast, RunsTyped, PastTyped
<1>8. CASE Drop(d)
  <2>1. ReadersTyped'
    BY <1>0, <1>8 DEF Drop, Move, ReadersTyped, ReaderStates
  <2> QED
    BY <1>8, <2>1 DEF Drop, disk, run, FilesTyped, RunsTyped, PastTyped
<1> QED
  BY <1>3, <1>4, <1>5, <1>6, <1>7, <1>8 DEF ReaderStep

LEMMA NextTyped == Typing /\ [Next]_vars => Typing'
<1> SUFFICES ASSUME Typing, [Next]_vars PROVE Typing'
  OBVIOUS
<1>1. CASE UNCHANGED vars
  BY <1>1 DEF vars, disk, run, reader, Typing, FilesTyped, RunsTyped, ReadersTyped, PastTyped
<1>2. CASE Next
  BY <1>2, RunTyped, ReaderTyped, KillTyped DEF Next
<1> QED
  BY <1>1, <1>2

------------------------------------------------------------------------------
\* What a run writes.

\* A list of new events, of seqs from b on; none is the repair's.
Fresh(es, b) ==
  /\ es \in Seq(Events) /\ Clean(es) /\ Strict(es)
  /\ \A i \in 1 .. Len(es) : es[i].seq >= b /\ es[i].type # "synthetic"

\* What a run appends lies above all it has appended.
LEMMA FreshEvent ==
  ASSUME Typing, NEW r \in Runs, RunInv(r), pc[r] = "appending"
  PROVE  /\ Fresh(<<event[r]>>, event[r].seq) /\ event[r].seq \in Nat /\ Bound(r) = event[r].seq
         /\ seq[r] = event[r].seq + 1 /\ Open(Evs(r), event[r].seq) /\ ~torn[r]
<1>1. event[r] \in Events /\ event[r].type \in {"event", "ask", "done"}
  BY DEF Typing, RunsTyped, RunInv
<1>2. event[r].seq \in Nat
  BY <1>1 DEF Events
<1>3. Fresh(<<event[r]>>, event[r].seq)
  BY <1>1, <1>2 DEF Fresh, Clean, Strict
<1> QED
  BY <1>2, <1>3 DEF RunInv, Bound, Going

LEMMA FreshLast ==
  ASSUME Typing, NEW r \in Runs, RunInv(r), pc[r] = "failing"
  PROVE  /\ Fresh(lastLines(r), seq[r]) /\ seq[r] \in Nat /\ Bound(r) = seq[r]
         /\ Open(Evs(r), seq[r])
<1> DEFINE es == lastLines(r)
<1>1. seq[r] \in Nat
  BY DEF Typing, RunsTyped
<1>2. /\ es \in Seq(Events) /\ Len(es) = 2
      /\ es[1] = Ev(seq[r], "error") /\ es[2] = Ev(seq[r] + 1, "done")
  BY <1>1, LastLines
<1>3. /\ es[1].seq = seq[r] /\ es[1].type = "error"
      /\ es[2].seq = seq[r] + 1 /\ es[2].type = "done"
  BY <1>2 DEF Ev
<1> HIDE DEF es
<1>4. \A i \in 1 .. Len(es) : i = 1 \/ i = 2
  BY <1>2
<1>5. Clean(es)
  BY <1>3, <1>4 DEF Clean
<1>6. Strict(es)
  <2>1. ~IsDone(es[1]) /\ es[1].seq < es[2].seq
    BY <1>1, <1>3 DEF IsDone
  <2> QED
    BY <1>4, <2>1 DEF Strict
<1>7. \A i \in 1 .. Len(es) : es[i].seq >= seq[r] /\ es[i].type # "synthetic"
  BY <1>1, <1>3, <1>4
<1>8. Fresh(es, seq[r])
  BY <1>2, <1>5, <1>6, <1>7 DEF Fresh
<1> QED
  BY <1>1, <1>8 DEF RunInv, Bound, Going, es

LEMMA FreshPart ==
  ASSUME NEW es, NEW b, Fresh(es, b), NEW n \in Nat, n <= Len(es)
  PROVE  Fresh(SubSeq(es, 1, n), b)
<1> DEFINE p == SubSeq(es, 1, n)
<1>1. es \in Seq(Events)
  BY DEF Fresh
<1>2. p \in Seq(Events) /\ Len(p) = n /\ \A i \in 1 .. n : p[i] = es[i] /\ i \in 1 .. Len(es)
  BY <1>1, TailTyped
<1> HIDE DEF p
<1>3. Fresh(p, b)
  BY <1>2 DEF Fresh, Clean, Strict
<1> QED
  BY <1>3 DEF p

\* After E, the events of a run's file, came es from b on.
Wrote(r, es, b, E2, s2) ==
  /\ Ordered(s2) /\ Grows(Evs(r), E2, b)
  /\ \A f \in E2 : f \in Evs(r) \/ (f.type # "synthetic" /\ \E i \in 1 .. Len(es) : f = es[i])
  /\ \A i \in 1 .. Len(es) : es[i] \in E2 \/ (torn[r] /\ i = 1)

\* A run's append, whole or broken off, leaves its file in order.
LEMMA WroteIs ==
  ASSUME Typing, NEW r \in Runs, RunInv(r), NEW es, NEW b \in Nat, Fresh(es, b), Open(Evs(r), b)
  PROVE  Wrote(r, es, b, Elts(lines(r, es)), lines(r, es))
<1> DEFINE s2 == lines(r, es)
<1>1. file[r] \in Seq(Events) /\ torn[r] \in BOOLEAN /\ Ordered(file[r])
  BY DEF Typing, FilesTyped, RunInv
<1>2. es \in Seq(Events) /\ Clean(es) /\ Strict(es)
  BY DEF Fresh
<1>3. \A i \in 1 .. Len(es) : es[i].seq \in Nat /\ es[i].seq >= b
  <2>1. \A i \in 1 .. Len(es) : es[i] \in Events
    BY <1>2
  <2> QED
    BY <2>1 DEF Events, Fresh
<1>4. Evs(r) \subseteq Events
  BY <1>1, StoryOf DEF Evs
<1>5. \A e \in Evs(r) : \A i \in 1 .. Len(es) : Before(e, es[i])
  <2> SUFFICES ASSUME NEW e \in Evs(r), NEW i \in 1 .. Len(es) PROVE Before(e, es[i])
    OBVIOUS
  <2>1. e.seq \in Nat /\ e.seq < b /\ ~IsDone(e)
    BY <1>4 DEF Open, Events
  <2> QED
    BY <2>1, <1>3 DEF Before
<1>6. Grown(s2, file[r], es, torn[r])
  BY <1>1, <1>2, <1>5, LinesIs
<1> HIDE DEF s2
<1>7. Elts(s2) \subseteq Events
  BY <1>6, StoryOf DEF Grown
<1>8. Grows(Evs(r), Elts(s2), b)
  BY <1>3, <1>6, <1>7 DEF Grows, Grown, Evs
<1>9. Wrote(r, es, b, Elts(s2), s2)
  BY <1>6, <1>8 DEF Wrote, Grown, Evs, Fresh
<1> QED
  BY <1>9 DEF s2

\* What is told is on disk, but for an error line that ran into a torn one.
LEMMA WroteTells ==
  ASSUME NEW r, NEW es, NEW b, NEW E2, NEW s2, Wrote(r, es, b, E2, s2), Fresh(es, b),
         ~torn[r] \/ (Len(es) = 2 /\ ~IsDone(es[1]) /\ IsDone(es[2]))
  PROVE  Tells(es, Evs(r), E2, b)
<1>1. \A i \in 1 .. Len(es) : es[i] \in E2 \/ (~IsDone(es[i]) /\ HasDone(es))
  <2>1. CASE ~torn[r]
    BY <2>1 DEF Wrote
  <2>2. CASE Len(es) = 2 /\ ~IsDone(es[1]) /\ IsDone(es[2])
    <3>1. HasDone(es)
      BY <2>2 DEF HasDone
    <3> QED
      BY <3>1, <2>2 DEF Wrote
  <2> QED
    BY <2>1, <2>2
<1> QED
  BY <1>1 DEF Wrote, Grows, Fresh, Tells

------------------------------------------------------------------------------
\* The invariant of the runs.

\* A step that changes nothing of a run keeps its invariant.
LEMMA RunKeeps ==
  ASSUME NEW r, RunInv(r), file'[r] = file[r], torn'[r] = torn[r], pc'[r] = pc[r],
         event'[r] = event[r], seq'[r] = seq[r],
         r \in killed' <=> r \in killed, r \in unsaved' <=> r \in unsaved
  PROVE  RunInv(r)'
<1>1. Evs(r)' = Evs(r) /\ Bound(r)' = Bound(r)
  BY DEF Evs, Bound
<1> QED
  BY <1>1 DEF RunInv

\* A step of run r leaves the other runs alone.
LEMMA OthersKeep ==
  ASSUME Typing, NEW r \in Runs, Start(r) \/ RunStep(r) \/ RunThrows(r) \/ Approve(r) \/ Abort(r),
         NEW x \in Runs, x # r, RunInv(x)
  PROVE  RunInv(x)'
<1>1. pc \in [Runs -> RunStates] /\ file \in [Runs -> Seq(Events)] /\ torn \in [Runs -> BOOLEAN]
      /\ seq \in [Runs -> Nat] /\ event \in [Runs -> Events]
  BY DEF Typing, FilesTyped, RunsTyped
<1>2. file'[x] = file[x] /\ torn'[x] = torn[x]
  BY <1>1 DEF Start, RunStep, StoreStep, GoesOn, RunThrows, Approve, Abort, ApprovalTimeout, Opened, Yields, Appended,
              AppendFails, CatchAppends, CatchFails, Closes, appendLines, appendBreaks, disk
<1>3. pc'[x] = pc[x]
  BY <1>1 DEF Start, RunStep, StoreStep, GoesOn, RunThrows, Approve, Abort, ApprovalTimeout, Opened, Yields, Appended,
              AppendFails, CatchAppends, CatchFails, Closes, At
<1>4. event'[x] = event[x] /\ seq'[x] = seq[x]
  BY <1>1 DEF Start, RunStep, StoreStep, GoesOn, RunThrows, Approve, Abort, ApprovalTimeout, Opened, Yields, Appended,
              AppendFails, CatchAppends, CatchFails, Closes
<1>5. killed' = killed /\ (x \in unsaved' <=> x \in unsaved)
  BY DEF Start, RunStep, StoreStep, GoesOn, RunThrows, Approve, Abort, ApprovalTimeout, Opened, Yields, Appended,
         AppendFails, CatchAppends, CatchFails, Closes, unchangedPast
<1> QED
  BY <1>2, <1>3, <1>4, <1>5, RunKeeps

\* An append that came through, and one that broke.
LEMMA AppendWrites ==
  ASSUME Typing, NEW r \in Runs, RunInv(r), NEW es, NEW b \in Nat, Fresh(es, b), Open(Evs(r), b),
         appendLines(r, es)
  PROVE  Wrote(r, es, b, Evs(r)', file'[r]) /\ ~torn'[r]
<1>1. file'[r] = lines(r, es) /\ ~torn'[r]
  BY DEF Typing, FilesTyped, appendLines
<1>2. Evs(r)' = Elts(lines(r, es))
  BY <1>1 DEF Evs
<1> QED
  BY <1>1, <1>2, WroteIs

LEMMA BreakWrites ==
  ASSUME Typing, NEW r \in Runs, RunInv(r), NEW es, NEW b \in Nat, Fresh(es, b), Open(Evs(r), b),
         appendBreaks(r, es)
  PROVE  \E n \in 0 .. Len(es) - 1 : Wrote(r, SubSeq(es, 1, n), b, Evs(r)', file'[r])
<1>1. PICK n \in 0 .. Len(es) - 1 : file' = [file EXCEPT ![r] = lines(r, SubSeq(es, 1, n))]
  BY DEF appendBreaks
<1>2. file'[r] = lines(r, SubSeq(es, 1, n))
  BY <1>1 DEF Typing, FilesTyped
<1>3. Evs(r)' = Elts(lines(r, SubSeq(es, 1, n)))
  BY <1>2 DEF Evs
<1>4. es \in Seq(Events) /\ n \in Nat /\ n <= Len(es)
  BY <1>1 DEF Fresh
<1>5. Fresh(SubSeq(es, 1, n), b)
  BY <1>4, FreshPart
<1> QED
  BY <1>2, <1>3, <1>5, WroteIs

\* Nothing of es is a done below m.
LEMMA OpenAfter ==
  ASSUME NEW r, NEW es, NEW b \in Nat, NEW E2, NEW s2, Wrote(r, es, b, E2, s2),
         NEW m \in Nat, b <= m, \A i \in 1 .. Len(es) : ~IsDone(es[i]) /\ es[i].seq < m
  PROVE  Open(E2, m)
<1>1. ASSUME NEW f \in E2 PROVE ~IsDone(f) /\ f.seq < m
  <2>1. CASE f \in Evs(r)
    <3>1. ~IsDone(f) /\ f.seq < b /\ f.seq \in Nat
      BY <2>1 DEF Wrote, Grows, Open, Events
    <3> QED
      BY <3>1
  <2>2. CASE \E i \in 1 .. Len(es) : f = es[i]
    BY <2>2
  <2> QED
    BY <2>1, <2>2 DEF Wrote
<1> QED
  BY <1>1 DEF Open

LEMMA NoSynthetic ==
  ASSUME NEW r, RunInv(r), NEW es, NEW b, NEW E2, NEW s2, Wrote(r, es, b, E2, s2)
  PROVE  (\E e \in E2 : e.type = "synthetic") => r \in killed \/ r \in unsaved
BY DEF Wrote, RunInv

\* A step of a run keeps its own invariant.
LEMMA ActorKeeps ==
  ASSUME Typing, NEW r \in Runs, RunInv(r),
         Start(r) \/ RunStep(r) \/ RunThrows(r) \/ Approve(r) \/ Abort(r)
  PROVE  RunInv(r)'
<1>0. /\ pc[r] \in RunStates /\ torn[r] \in BOOLEAN /\ event[r] \in Events /\ seq[r] \in Nat
      /\ pc \in [Runs -> RunStates] /\ event \in [Runs -> Events] /\ seq \in [Runs -> Nat]
  BY DEF Typing, FilesTyped, RunsTyped
<1>1. pc[r] \notin {"closing", "over", "dead"} => r \notin unsaved /\ r \notin killed
  BY DEF RunInv
\* Steps that leave the files alone.
<1>2. ASSUME UNCHANGED disk, UNCHANGED <<killed, unsaved>>
      PROVE  /\ Evs(r)' = Evs(r) /\ file'[r] = file[r] /\ torn'[r] = torn[r]
             /\ (r \in killed' <=> r \in killed) /\ (r \in unsaved' <=> r \in unsaved)
  BY <1>2 DEF Evs, disk
<1>3. CASE Start(r)
  <2>1. pc[r] = "none" /\ pc'[r] = "opening"
    BY <1>0, <1>3 DEF Start, At
  <2> QED
    BY <1>0, <1>1, <1>2, <1>3, <2>1 DEF Start, unchangedPast, RunInv, Going
<1>4. ASSUME NEW ok \in BOOLEAN, Opened(r, ok) PROVE RunInv(r)'
  <2>1. pc[r] = "opening" /\ pc'[r] \in {"running", "unopened"} /\ Evs(r) = {}
    BY <1>0, <1>4 DEF Opened, At, RunInv
  <2>2. Open(Evs(r)', Bound(r)')
    BY <1>2, <1>4, <2>1 DEF Opened, unchangedPast, Open
  <2> QED
    BY <1>0, <1>1, <1>2, <1>4, <2>1, <2>2 DEF Opened, unchangedPast, RunInv, Going
<1>5. ASSUME NEW type \in {"event", "ask", "done"}, Yields(r, type) PROVE RunInv(r)'
  <2>1. /\ pc[r] = "running" /\ pc'[r] = "appending" /\ event'[r] = Ev(seq[r], type)
        /\ seq'[r] = seq[r] + 1
    BY <1>0, <1>5 DEF Yields, At
  <2>2. event'[r].seq = seq[r] /\ event'[r].type = type
    BY <2>1 DEF Ev
  <2>3. Bound(r)' = Bound(r)
    BY <2>1, <2>2 DEF Bound
  <2> QED
    BY <1>0, <1>1, <1>2, <1>5, <2>1, <2>2, <2>3 DEF Yields, unchangedPast, RunInv, Going
<1>6. CASE Appended(r)
  <2> DEFINE es == <<event[r]>>
             b == event[r].seq
  <2>1. pc[r] = "appending" /\ appendLines(r, es) /\ pc'[r] = Resumes(event[r]) /\ UNCHANGED seq
        /\ killed' = killed /\ unsaved' = unsaved
    BY <1>0, <1>6 DEF Appended, At, unchangedPast
  <2>2. Fresh(es, b) /\ b \in Nat /\ seq[r] = b + 1 /\ Open(Evs(r), b) /\ ~torn[r]
    BY <2>1, FreshEvent
  <2>3. Wrote(r, es, b, Evs(r)', file'[r]) /\ ~torn'[r]
    BY <2>1, <2>2, AppendWrites
  <2>4. Len(es) = 1 /\ es[1] = event[r]
    OBVIOUS
  <2>5. event[r].type \in {"event", "ask", "done"}
    BY <2>1 DEF RunInv
  <2> HIDE DEF es
  <2>6. CASE event[r].type = "done"
    <3>1. pc'[r] = "closing"
      BY <2>1, <2>6 DEF Resumes
    <3>2. event[r] \in Evs(r)' /\ IsDone(event[r])
      BY <2>2, <2>3, <2>4, <2>6 DEF Wrote, IsDone
    <3>3. Ordered(file'[r])
      BY <2>3 DEF Wrote
    <3> QED
      BY <1>1, <2>1, <2>3, <3>1, <3>2, <3>3, NoSynthetic DEF RunInv, Going
  <2>7. CASE event[r].type # "done"
    <3>1. pc'[r] \in {"parked", "running"}
      BY <2>1, <2>7 DEF Resumes
    <3>2. \A i \in 1 .. Len(es) : ~IsDone(es[i]) /\ es[i].seq < seq[r]
      <4>1. ~IsDone(event[r]) /\ event[r].seq < seq[r]
        BY <2>2, <2>5, <2>7 DEF IsDone
      <4> QED
        BY <2>4, <4>1
    <3>3. Open(Evs(r)', seq[r])
      <4>1. b <= seq[r] /\ b \in Nat
        BY <2>2
      <4> HIDE DEF b
      <4> QED
        BY <1>0, <2>3, <3>2, <4>1, OpenAfter
    <3>4. Bound(r)' = seq[r]
      BY <2>1, <3>1 DEF Bound
    <3>5. Ordered(file'[r])
      BY <2>3 DEF Wrote
    <3> QED
      BY <1>1, <2>1, <2>3, <3>1, <3>3, <3>4, <3>5, NoSynthetic DEF RunInv, Going
  <2> QED
    BY <2>6, <2>7
<1>7. CASE AppendFails(r)
  <2> DEFINE es == <<event[r]>>
             b == event[r].seq
  <2>1. pc[r] = "appending" /\ appendBreaks(r, es) /\ pc'[r] = "failing" /\ UNCHANGED seq
        /\ killed' = killed /\ unsaved' = unsaved
    BY <1>0, <1>7 DEF AppendFails, At, unchangedPast
  <2>2. Fresh(es, b) /\ b \in Nat /\ seq[r] = b + 1 /\ Open(Evs(r), b)
    BY <2>1, FreshEvent
  <2>3. PICK n \in 0 .. Len(es) - 1 : Wrote(r, SubSeq(es, 1, n), b, Evs(r)', file'[r])
    BY <2>1, <2>2, BreakWrites
  <2>5. Open(Evs(r)', seq[r])
    <3> DEFINE p == SubSeq(es, 1, n)
    <3>1. Len(p) = 0
      BY <2>3
    <3>2. b <= seq[r] /\ b \in Nat
      BY <2>2
    <3> HIDE DEF b, p
    <3>3. \A i \in 1 .. Len(p) : ~IsDone(p[i]) /\ p[i].seq < seq[r]
      BY <3>1
    <3>4. Wrote(r, p, b, Evs(r)', file'[r])
      BY <2>3 DEF p, b
    <3> QED
      BY <1>0, <3>2, <3>3, <3>4, OpenAfter
  <2>6. Bound(r)' = seq[r]
    BY <2>1 DEF Bound
  <2>7. Ordered(file'[r])
    BY <2>3 DEF Wrote
  <2> QED
    BY <1>1, <2>1, <2>3, <2>5, <2>6, <2>7, NoSynthetic DEF RunInv, Going
<1>8. CASE CatchAppends(r)
  <2> DEFINE es == lastLines(r)
  <2>1. pc[r] = "failing" /\ appendLines(r, es) /\ pc'[r] = "closing"
        /\ killed' = killed /\ unsaved' = unsaved
    BY <1>0, <1>8 DEF CatchAppends, At, unchangedPast
  <2>2. Fresh(es, seq[r]) /\ Open(Evs(r), seq[r])
    BY <2>1, FreshLast
  <2>3. Wrote(r, es, seq[r], Evs(r)', file'[r])
    BY <1>0, <2>1, <2>2, AppendWrites
  <2>4. Len(es) = 2 /\ es[2] = Ev(seq[r] + 1, "done")
    BY <1>0, LastLines
  <2> HIDE DEF es
  <2>5. es[2] \in Evs(r)'
    BY <2>3, <2>4 DEF Wrote
  <2>6. IsDone(es[2])
    BY <2>4 DEF IsDone, Ev
  <2>7. Ordered(file'[r])
    BY <2>3 DEF Wrote
  <2> QED
    BY <1>1, <2>1, <2>3, <2>5, <2>6, <2>7, NoSynthetic DEF RunInv, Going
<1>9. CASE CatchFails(r)
  <2>1. pc[r] = "failing" /\ appendBreaks(r, lastLines(r)) /\ pc'[r] = "closing"
        /\ killed' = killed /\ r \in unsaved'
    BY <1>0, <1>9 DEF CatchFails, At
  <2>2. Fresh(lastLines(r), seq[r]) /\ Open(Evs(r), seq[r])
    BY <2>1, FreshLast
  <2>3. PICK n \in 0 .. Len(lastLines(r)) - 1 :
          Wrote(r, SubSeq(lastLines(r), 1, n), seq[r], Evs(r)', file'[r])
    BY <1>0, <2>1, <2>2, BreakWrites
  <2>4. Ordered(file'[r])
    BY <2>3 DEF Wrote
  <2> QED
    BY <1>1, <2>1, <2>4 DEF RunInv, Going
<1>10. CASE Closes(r)
  <2>1. pc[r] = "closing" /\ pc'[r] = "over"
    BY <1>0, <1>10 DEF Closes, At
  <2> QED
    BY <1>0, <1>2, <1>10, <2>1 DEF Closes, unchangedPast, RunInv, Going
<1>11. CASE Approve(r)
  <2>1. pc[r] = "parked" /\ pc'[r] = "running"
    BY <1>0, <1>11 DEF Approve, At
  <2>2. Bound(r)' = Bound(r)
    BY <1>11, <2>1 DEF Approve, Bound
  <2> QED
    BY <1>0, <1>2, <1>11, <2>1, <2>2 DEF Approve, unchangedPast, RunInv, Going
<1>12. CASE Abort(r)
  <2>1. CASE pc[r] = "parked"
    <3>1. pc'[r] = "running"
      BY <1>0, <1>12, <2>1 DEF Abort
    <3>2. Bound(r)' = Bound(r)
      BY <1>12, <2>1, <3>1 DEF Abort, Bound
    <3> QED
      BY <1>0, <1>2, <1>12, <2>1, <3>1, <3>2 DEF Abort, unchangedPast, RunInv, Going
  <2>2. CASE pc[r] # "parked"
    BY <1>2, <1>12, <2>2, RunKeeps DEF Abort, unchangedPast
  <2> QED
    BY <2>1, <2>2
<1>13. CASE RunThrows(r)
  <2>1. pc[r] = "running" /\ pc'[r] = "failing"
    BY <1>0, <1>13 DEF RunThrows, At
  <2>2. Bound(r)' = Bound(r)
    BY <1>13, <2>1 DEF RunThrows, Bound
  <2> QED
    BY <1>0, <1>2, <1>13, <2>1, <2>2 DEF RunThrows, unchangedPast, RunInv, Going
<1> QED
  BY <1>3, <1>4, <1>5, <1>6, <1>7, <1>8, <1>9, <1>10, <1>11, <1>12, <1>13 DEF RunStep, StoreStep, GoesOn, ApprovalTimeout

\* Where runs stand: in the map or not, with a file or without.
LEMMA Standing ==
  ASSUME Typing, NEW r \in Runs
  PROVE  /\ r \in active <=> pc[r] \notin {"none", "over", "unopened", "dead"}
         /\ HasFile(r) /\ r \notin active => pc[r] \in {"over", "dead"}
BY DEF Typing, RunsTyped, RunStates, HasFile

\* A repair writes the one done that the file has or lacks.
LEMMA RepairWrites ==
  ASSUME Typing, NEW d \in Readers, ReaderInv(d), RunInv(Watched[d]), RepairAppends(d)
  PROVE  /\ next(snap[d], 0) \in Nat
         /\ Repairs(Evs(Watched[d]), Evs(Watched[d])', next(snap[d], 0))
         /\ Ordered(file'[Watched[d]])
         /\ \A x \in Runs : x # Watched[d] => file'[x] = file[x] /\ torn'[x] = torn[x]
<1> DEFINE r == Watched[d]
           n == next(snap[d], 0)
           e == Ev(n, "synthetic")
           es == <<e>>
           s2 == lines(r, es)
<1>1. r \in Runs /\ conn[d] = "appending" /\ appendLines(r, es)
  BY RunStoreAssumption DEF RepairAppends
<1>2. n \in Nat /\ Last(Evs(r), n)
  BY <1>1 DEF ReaderInv
<1>3. file[r] \in Seq(Events) /\ torn[r] \in BOOLEAN /\ Ordered(file[r])
  BY <1>1 DEF Typing, FilesTyped, RunInv
<1>4. Evs(r) \subseteq Events
  BY <1>3, StoryOf DEF Evs
<1> HIDE DEF n
<1>5. /\ e \in Events /\ es \in Seq(Events) /\ e.seq = n /\ e.type = "synthetic"
      /\ Len(es) = 1 /\ es[1] = e
  BY <1>2, EventTyped DEF Types
<1>6. IsDone(e)
  BY <1>5 DEF IsDone
<1> HIDE DEF e, r
<1>7. Clean(es) /\ Strict(es)
  BY <1>5 DEF Clean, Strict
<1> HIDE DEF es
<1>8. \A f \in Evs(r) : \A i \in 1 .. Len(es) : Before(f, es[i])
  <2> SUFFICES ASSUME NEW f \in Evs(r) PROVE Before(f, e)
    BY <1>5
  <2> QED
    BY <1>2, <1>5, <1>6 DEF Last, Before
<1>9. Grown(s2, file[r], es, torn[r])
  BY <1>1, <1>3, <1>5, <1>7, <1>8, LinesIs
<1>10. file'[r] = s2 /\ Evs(r)' = Elts(s2) /\ \A x \in Runs : x # r => file'[x] = file[x] /\ torn'[x] = torn[x]
  <2>1. file'[r] = s2 /\ \A x \in Runs : x # r => file'[x] = file[x] /\ torn'[x] = torn[x]
    BY <1>1 DEF appendLines, Typing, FilesTyped
  <2>2. Evs(r)' = Elts(file'[r])
    BY DEF Evs, r
  <2> QED
    BY <2>1, <2>2
<1> HIDE DEF s2
<1>11. Ordered(s2) /\ Elts(s2) \subseteq Events
  BY <1>9, StoryOf DEF Grown
<1>12. Repairs(Evs(r), Elts(s2), n)
  <2>1. Evs(r) \subseteq Elts(s2) /\ \A f \in Elts(s2) : f \in Evs(r) \/ f = e
    BY <1>5, <1>9 DEF Grown, Evs
  <2> QED
    BY <2>1, <1>2, <1>5, <1>6, <1>11 DEF Repairs
<1> QED
  BY <1>2, <1>10, <1>11, <1>12 DEF r, n

LEMMA RepairKeepsRuns ==
  ASSUME Typing, NEW d \in Readers, ReaderInv(d), \A r \in Runs : RunInv(r), RepairAppends(d)
  PROVE  \A r \in Runs : RunInv(r)'
<1>1. Watched[d] \in Runs
  BY RunStoreAssumption
<1>2. /\ pc' = pc /\ event' = event /\ seq' = seq /\ killed' = killed /\ unsaved' = unsaved
  BY DEF RepairAppends, run, unchangedPast
<1>3. ASSUME NEW r \in Runs, r # Watched[d] PROVE RunInv(r)'
  BY <1>1, <1>2, <1>3, RepairWrites, RunKeeps
<1>4. ASSUME NEW r, r = Watched[d] PROVE RunInv(r)'
  <2>1. conn[d] = "appending"
    BY DEF RepairAppends
  <2>2. r \notin active /\ HasFile(r) /\ (r \in killed \/ r \in unsaved)
    BY <1>4, <2>1 DEF ReaderInv
  <2>3. pc[r] \in {"over", "dead"}
    BY <1>1, <1>4, <2>2, Standing
  <2>4. Evs(r) \subseteq Evs(r)' /\ Ordered(file'[r])
    BY <1>1, <1>4, RepairWrites DEF Repairs
  <2>5. RunInv(r)
    BY <1>1, <1>4
  <2> QED
    BY <1>2, <2>2, <2>3, <2>4, <2>5 DEF RunInv, Going
<1> QED
  BY <1>3, <1>4

\* A kill leaves of an append under way some lines and a part of one.
LEMMA KillWrites ==
  ASSUME Typing, NEW r \in Runs, RunInv(r), Kill
  PROVE  /\ Ordered(file'[r])
         /\ \/ Evs(r)' = Evs(r)
            \/ /\ pc[r] \in {"appending", "failing"}
               /\ Bound(r) \in Nat /\ Grows(Evs(r), Evs(r)', Bound(r))
<1>1. PICK n \in [Runs -> 0 .. 2] :
        /\ n[r] <= Len(underWay(r))
        /\ file'[r] = lines(r, SubSeq(underWay(r), 1, n[r]))
  BY DEF Kill
<1>2. Evs(r)' = Elts(file'[r])
  BY DEF Evs
<1>3. n[r] \in Nat
  BY <1>1
<1>4. CASE pc[r] = "appending"
  <2>1. underWay(r) = <<event[r]>>
    BY <1>4 DEF underWay
  <2>2. Fresh(underWay(r), Bound(r)) /\ Bound(r) \in Nat /\ Open(Evs(r), Bound(r))
    BY <1>4, <2>1, FreshEvent
  <2>3. Fresh(SubSeq(underWay(r), 1, n[r]), Bound(r))
    BY <1>1, <1>3, <2>2, FreshPart
  <2>4. Wrote(r, SubSeq(underWay(r), 1, n[r]), Bound(r), Evs(r)', file'[r])
    BY <1>1, <1>2, <2>2, <2>3, WroteIs
  <2> QED
    BY <1>4, <2>2, <2>4 DEF Wrote
<1>5. CASE pc[r] = "failing"
  <2>1. underWay(r) = lastLines(r)
    BY <1>5 DEF underWay
  <2>2. Fresh(underWay(r), Bound(r)) /\ Bound(r) \in Nat /\ Open(Evs(r), Bound(r))
    BY <1>5, <2>1, FreshLast
  <2>3. Fresh(SubSeq(underWay(r), 1, n[r]), Bound(r))
    BY <1>1, <1>3, <2>2, FreshPart
  <2>4. Wrote(r, SubSeq(underWay(r), 1, n[r]), Bound(r), Evs(r)', file'[r])
    BY <1>1, <1>2, <2>2, <2>3, WroteIs
  <2> QED
    BY <1>5, <2>2, <2>4 DEF Wrote
<1>6. CASE pc[r] \notin {"appending", "failing"}
  <2>1. underWay(r) = <<>>
    BY <1>6 DEF underWay
  <2>2. n[r] = 0
    <3>1. Len(<<>>) = 0
      OBVIOUS
    <3> QED
      BY <1>1, <1>3, <2>1, <3>1
  <2>3. SubSeq(underWay(r), 1, n[r]) = <<>>
    BY <2>1, <2>2
  <2>4. file[r] \in Seq(Events)
    BY DEF Typing, FilesTyped
  <2>5. lines(r, <<>>) = file[r] \o <<>>
    BY DEF lines
  <2>6. file[r] \o <<>> = file[r]
    BY <2>4
  <2>7. file'[r] = file[r]
    BY <1>1, <2>3, <2>5, <2>6, Zenon
  <2> QED
    BY <1>2, <2>7 DEF RunInv, Evs
<1> QED
  BY <1>4, <1>5, <1>6

LEMMA KillKeepsRuns ==
  ASSUME Typing, \A d \in Readers : ReaderInv(d), NEW r \in Runs, RunInv(r), Kill
  PROVE  RunInv(r)'
<1>1. /\ killed = {} /\ killed' = active /\ unsaved' = unsaved
      /\ pc'[r] = IF r \in active THEN "dead" ELSE pc[r]
  BY DEF Kill
<1>2. Ordered(file'[r])
  BY KillWrites
<1>3. CASE r \in active
  BY <1>1, <1>2, <1>3 DEF RunInv, Going
<1>4. CASE r \notin active
  <2>1. pc[r] \in {"none", "over", "unopened"}
    BY <1>1, <1>4, Standing DEF RunInv
  <2>2. Evs(r)' = Evs(r)
    BY <2>1, KillWrites
  <2>3. pc[r] = "none" => ~torn'[r]
    <3> SUFFICES ASSUME pc[r] = "none" PROVE ~torn'[r]
      OBVIOUS
    <3>1. PICK n \in [Runs -> 0 .. 2], part \in SUBSET Runs :
            /\ r \in part => n[r] < Len(underWay(r)) \/ r \in Repaired
            /\ torn'[r] = (r \in part \/ (torn[r] /\ n[r] = 0))
      BY DEF Kill
    <3>2. r \notin Repaired
      BY Standing DEF Repaired, ReaderInv, HasFile
    <3>3. Len(underWay(r)) = 0
      BY DEF underWay
    <3>4. ~(n[r] < Len(underWay(r)))
      <4>1. n[r] \in 0 .. 2
        BY <3>1
      <4> QED
        BY <3>3, <4>1
    <3>5. ~torn[r]
      BY DEF RunInv
    <3> QED
      BY <3>1, <3>2, <3>4, <3>5
  <2> QED
    BY <1>1, <1>2, <1>4, <2>1, <2>2, <2>3 DEF RunInv, Going
<1> QED
  BY <1>3, <1>4

------------------------------------------------------------------------------
\* The invariant of the readers.

\* Of a reader whose run's file is the same.
LEMMA ReaderKeeps ==
  ASSUME NEW d, ReaderInv(d), NEW r, r = Watched[d],
         conn'[d] = conn[d], sent'[d] = sent[d], got'[d] = got[d], snap'[d] = snap[d],
         buffered'[d] = buffered[d], d \in subs' <=> d \in subs, Evs(r)' = Evs(r),
         HasFile(r) => HasFile(r)', HasFile(r) /\ r \in active' => r \in active,
         r \in unsaved => r \in unsaved', r \in killed' <=> r \in killed
  PROVE  ReaderInv(d)'
BY DEF ReaderInv

\* Steps of a run that write nothing leave the readers right.
LEMMA QuietKeeps ==
  ASSUME Typing, NEW r \in Runs, NEW d \in Readers, ReaderInv(d),
         \/ Start(r) \/ (\E ok \in BOOLEAN : Opened(r, ok))
         \/ (\E type \in {"event", "ask", "done"} : Yields(r, type))
         \/ RunThrows(r) \/ Closes(r) \/ Approve(r) \/ Abort(r)
  PROVE  ReaderInv(d)'
<1> DEFINE w == Watched[d]
<1>1. w \in Runs
  BY RunStoreAssumption
<1>2. UNCHANGED disk /\ UNCHANGED reader /\ unchangedPast
  BY DEF Start, Opened, Yields, RunThrows, Closes, Approve, Abort
<1>3. Evs(w)' = Evs(w)
  BY <1>2 DEF Evs, disk
<1>4. pc \in [Runs -> RunStates]
  BY DEF Typing, RunsTyped
<1>5. HasFile(w) => HasFile(w)'
  BY <1>1, <1>4 DEF Start, Opened, Yields, RunThrows, Closes, Approve, Abort, At, HasFile
<1>6. HasFile(w) /\ w \in active' => w \in active
  BY <1>1, <1>4 DEF Start, Opened, Yields, RunThrows, Closes, Approve, Abort, HasFile
<1> HIDE DEF w
<1>7. /\ conn'[d] = conn[d] /\ sent'[d] = sent[d] /\ got'[d] = got[d] /\ snap'[d] = snap[d]
      /\ buffered'[d] = buffered[d] /\ subs' = subs /\ unsaved' = unsaved /\ killed' = killed
  BY <1>2 DEF reader, unchangedPast
<1>8. w = Watched[d]
  BY DEF w
<1> QED
  BY <1>3, <1>5, <1>6, <1>7, <1>8, ReaderKeeps

\* A live client that has g, all below n and all of E, is told of es.
LEMMA LiveTold ==
  ASSUME NEW es, NEW E, NEW E2, NEW b \in Nat, Tells(es, E, E2, b),
         NEW n \in Nat, Placed(E, n), NEW g, Shown(E, n, g), Caught(E, n),
         NEW o, NEW g2, NEW m, Told(o, g2, m, g, es, n)
  PROVE  /\ Shown(E2, m, g2) /\ Caught(E2, m)
         /\ HasDone(o) => EndAt(E2, m, g2)
         /\ HasDone(o) \/ Placed(E2, m)
<1>1. E \subseteq Events /\ es \in Seq(Events) /\ E \subseteq E2 /\ Open(E, b)
  BY DEF Tells
<1>2. n <= b
  BY <1>1, PlacedBelow
<1>3. \A i \in 1 .. Len(es) : es[i].seq \in Nat /\ es[i].seq >= n
  <2>1. \A i \in 1 .. Len(es) : es[i] \in Events
    BY <1>1
  <2>2. \A i \in 1 .. Len(es) : es[i].seq \in Nat /\ es[i].seq >= b
    BY <2>1 DEF Tells, Events
  <2> QED
    BY <1>2, <2>2
<1>4. /\ m \in Nat /\ n <= m
      /\ \A k \in Nat : Has(g, k) => Has(g2, k)
      /\ \A i \in 1 .. Len(es) : Has(g2, es[i].seq) /\ es[i].seq < m
      /\ \/ m = n /\ ~HasDone(o)
         \/ \E i \in 1 .. Len(es) : m = es[i].seq + 1 /\ (HasDone(o) <=> IsDone(es[i]))
      /\ (\E i \in 1 .. Len(es) : IsDone(es[i])) => HasDone(o)
  BY <1>3 DEF Told
<1>5. \A e \in E : e.seq \in Nat /\ e.seq < n /\ Has(g, e.seq)
  BY <1>1 DEF Caught, Shown, Open, Events
<1>6. ASSUME NEW f \in E2 PROVE f.seq < m /\ Has(g2, f.seq)
  <2>1. CASE f \in E
    BY <2>1, <1>4, <1>5
  <2>2. CASE \E i \in 1 .. Len(es) : f = es[i]
    BY <2>2, <1>4
  <2> QED
    BY <2>1, <2>2 DEF Tells
<1>7. ASSUME HasDone(o) PROVE EndAt(E2, m, g2)
  <2>1. PICK i \in 1 .. Len(es) : m = es[i].seq + 1 /\ IsDone(es[i])
    BY <1>4, <1>7
  <2>2. es[i] \in E2
    BY <2>1 DEF Tells
  <2> QED
    BY <2>1, <2>2, <1>3, <1>4 DEF EndAt, DoneAt
<1>8. ASSUME ~HasDone(o) PROVE Placed(E2, m)
  <2>1. CASE m = n
    BY <2>1, <1>1, PlacedGrows
  <2>2. CASE \E i \in 1 .. Len(es) : m = es[i].seq + 1 /\ ~IsDone(es[i])
    <3>1. PICK i \in 1 .. Len(es) : m = es[i].seq + 1 /\ ~IsDone(es[i])
      BY <2>2
    <3>2. es[i] \in E2
      BY <3>1, <1>4, <1>8 DEF Tells, HasDone
    <3>3. m <= es[i].seq + 1
      BY <3>1, <1>3
    <3> QED
      BY <3>1, <3>2, <3>3 DEF Placed
  <2> QED
    BY <2>1, <2>2, <1>4, <1>8
<1> QED
  BY <1>6, <1>7, <1>8 DEF Shown, Caught

\* The listeners of r are told of es.
LEMMA ToldKeeps ==
  ASSUME Typing, NEW r \in Runs, NEW es, NEW b \in Nat, Tells(es, Evs(r), Evs(r)', b),
         Notify(r, es), r \in active, r \notin unsaved, HasFile(r)',
         UNCHANGED <<active, killed, unsaved>>, \A x \in Runs : x # r => file'[x] = file[x] /\ pc'[x] = pc[x],
         NEW d \in Readers, ReaderInv(d)
  PROVE  ReaderInv(d)'
<1> DEFINE E == Evs(r)
           E2 == Evs(r)'
           n == sent[d]
           o == emits(es, n)
<1>1. /\ conn[d] \in ReaderStates /\ n \in Nat /\ got[d] \in Seq(Events) /\ snap[d] \in Seq(Events)
      /\ buffered[d] \in Seq(Events) /\ Watched[d] \in Runs
  BY RunStoreAssumption DEF Typing, ReadersTyped
<1>2. /\ buffered'[d] = IF d \in Replaying(r) THEN buffered[d] \o es ELSE buffered[d]
      /\ got'[d] = IF d \in Live(r) THEN got[d] \o o ELSE got[d]
      /\ sent'[d] = IF d \in Live(r) THEN next(o, n) ELSE n
      /\ conn'[d] = IF d \in Live(r) /\ HasDone(o) THEN "ended" ELSE conn[d]
      /\ subs' = subs /\ snap'[d] = snap[d]
  BY DEF Notify
<1>3. E \subseteq E2 /\ E \subseteq Events /\ Open(E, b) /\ es \in Seq(Events) /\ Clean(es) /\ Ordered(es)
  BY StrictOrdered DEF Tells
<1>4. Grows(E, E2, b)
  BY TellsGrows
<1>5. CASE Watched[d] # r
  <2>1. d \notin Live(r) /\ d \notin Replaying(r)
    BY <1>5 DEF Live, Replaying
  <2>2. Evs(Watched[d])' = Evs(Watched[d])
    BY <1>1, <1>5 DEF Evs
  <2>3. HasFile(Watched[d])' <=> HasFile(Watched[d])
    BY <1>1, <1>5 DEF HasFile
  <2> QED
    BY <1>2, <2>1, <2>2, <2>3, ReaderKeeps
<1>6. CASE Watched[d] = r /\ d \in Live(r)
  <2>1. conn[d] = "live" /\ d \in subs
    BY <1>6 DEF Live
  <2>2. /\ Rising(got[d]) /\ AllBelow(got[d], n) /\ Placed(E, n) /\ Shown(E, n, got[d]) /\ Caught(E, n)
        /\ r \notin killed /\ buffered[d] = <<>> /\ BufferOK(E, buffered[d])
    BY <1>6, <2>1 DEF ReaderInv
  <2> DEFINE g2 == got[d] \o o
             m == next(o, n)
  <2>3. Told(o, g2, m, got[d], es, n)
    BY <1>1, <1>3, <2>2, EmitsTells
  <2>4. /\ got'[d] = g2 /\ sent'[d] = m /\ buffered'[d] = buffered[d]
        /\ conn'[d] = IF HasDone(o) THEN "ended" ELSE "live"
    BY <1>2, <1>6, <2>1 DEF Replaying
  <2> HIDE DEF g2, m, o
  <2>5. /\ Shown(E2, m, g2) /\ Caught(E2, m)
        /\ HasDone(o) => EndAt(E2, m, g2)
        /\ HasDone(o) \/ Placed(E2, m)
    BY <1>1, <2>2, <2>3, LiveTold
  <2>6. Rising(g2) /\ AllBelow(g2, m)
    BY <2>3 DEF Told
  <2>7. BufferOK(E2, buffered[d])
    BY <1>3, <2>2, BufferGrows
  <2> HIDE DEF E, E2
  <2>8. E2 = Evs(Watched[d])'
    BY <1>6 DEF E2
  <2> QED
    BY <1>2, <1>6, <2>1, <2>2, <2>4, <2>5, <2>6, <2>7, <2>8 DEF ReaderInv, EndAt
<1>7. CASE Watched[d] = r /\ d \in Replaying(r)
  <2>1. conn[d] \in {"reading", "replaying"} /\ d \in subs /\ d \notin Live(r)
    BY <1>7 DEF Live, Replaying
  <2>2. /\ Rising(got[d]) /\ AllBelow(got[d], n) /\ Placed(E, n) /\ Shown(E, n, got[d])
        /\ BufferOK(E, buffered[d]) /\ r \notin killed
        /\ conn[d] = "replaying" => SnapOK(E, snap[d]) /\ Both(E, snap[d], buffered[d])
    BY <1>7, <2>1 DEF ReaderInv
  <2>3. /\ got'[d] = got[d] /\ sent'[d] = n /\ buffered'[d] = buffered[d] \o es /\ conn'[d] = conn[d]
    BY <1>2, <1>7, <2>1
  <2>4. Placed(E2, n)
    BY <1>3, <2>2, PlacedGrows
  <2>5. Shown(E2, n, got[d])
    <3>1. n <= b
      BY <1>1, <1>3, <2>2, PlacedBelow
    <3> QED
      BY <1>1, <1>4, <2>2, <3>1, ShownGrows
  <2>6. BufferOK(E2, buffered[d] \o es)
    BY <1>1, <2>2, BufferTells
  <2>7. conn[d] = "replaying" => SnapOK(E2, snap[d]) /\ Both(E2, snap[d], buffered[d] \o es)
    BY <1>1, <1>4, <2>2, SnapGrows, BothTells
  <2> HIDE DEF E, E2
  <2>8. E2 = Evs(Watched[d])'
    BY <1>7 DEF E2
  <2> QED
    BY <1>2, <1>7, <2>1, <2>2, <2>3, <2>4, <2>5, <2>6, <2>7, <2>8 DEF ReaderInv
<1>8. CASE Watched[d] = r /\ d \notin Live(r) /\ d \notin Replaying(r)
  <2>1. conn[d] = "off"
    <3>1. conn[d] \notin {"reading", "replaying", "live"}
      BY <1>8 DEF Live, Replaying, ReaderInv
    <3>2. conn[d] \notin {"repairing", "appending"}
      BY <1>8 DEF ReaderInv
    <3>3. conn[d] # "ended"
      <4>1. \A k : ~DoneAt(E, k)
        BY <1>3 DEF DoneAt, Open
      <4> QED
        BY <1>8, <4>1 DEF ReaderInv
    <3> QED
      BY <1>1, <3>1, <3>2, <3>3 DEF ReaderStates
  <2>2. /\ Rising(got[d]) /\ AllBelow(got[d], n) /\ Placed(E, n) /\ Shown(E, n, got[d])
        /\ BufferOK(E, buffered[d]) /\ buffered[d] = <<>> /\ (d \in subs => r \notin killed)
    BY <1>8, <2>1 DEF ReaderInv
  <2>3. got'[d] = got[d] /\ sent'[d] = n /\ buffered'[d] = buffered[d] /\ conn'[d] = "off"
    BY <1>2, <1>8, <2>1
  <2>4. Placed(E2, n) /\ BufferOK(E2, buffered[d])
    <3>1. Placed(E2, n)
      BY <1>3, <2>2, PlacedGrows
    <3>2. BufferOK(E2, buffered[d])
      BY <1>3, <2>2, BufferGrows
    <3> QED
      BY <3>1, <3>2
  <2>5. Shown(E2, n, got[d])
    <3>1. n <= b
      BY <1>1, <1>3, <2>2, PlacedBelow
    <3> QED
      BY <1>1, <1>4, <2>2, <3>1, ShownGrows
  <2> HIDE DEF E, E2
  <2>6. E2 = Evs(Watched[d])'
    BY <1>8 DEF E2
  <2> QED
    BY <1>2, <1>8, <2>2, <2>3, <2>4, <2>5, <2>6 DEF ReaderInv
<1> QED
  BY <1>5, <1>6, <1>7, <1>8

\* The file of run r grows and nobody is told: its last error was written in part.
LEMMA UntoldKeeps ==
  ASSUME Typing, NEW r \in Runs, NEW b \in Nat, Grows(Evs(r), Evs(r)', b),
         r \in active, r \in unsaved', HasFile(r)', UNCHANGED <<active, killed, reader>>,
         unsaved \subseteq unsaved',
         \A x \in Runs : x # r => file'[x] = file[x] /\ pc'[x] = pc[x],
         NEW d \in Readers, ReaderInv(d)
  PROVE  ReaderInv(d)'
<1> DEFINE E == Evs(r)
           E2 == Evs(r)'
<1>1. /\ conn'[d] = conn[d] /\ sent'[d] = sent[d] /\ got'[d] = got[d] /\ snap'[d] = snap[d]
      /\ buffered'[d] = buffered[d] /\ subs' = subs
  BY DEF reader
<1>2. Watched[d] \in Runs
  BY RunStoreAssumption
<1>3. CASE Watched[d] # r
  <2>1. Evs(Watched[d])' = Evs(Watched[d]) /\ (HasFile(Watched[d])' <=> HasFile(Watched[d]))
    BY <1>2, <1>3 DEF Evs, HasFile
  <2> QED
    BY <1>1, <2>1, ReaderKeeps
<1>4. CASE Watched[d] = r
  <2>1. E \subseteq E2 /\ Open(E, b)
    BY DEF Grows
  <2>2. conn[d] \notin {"repairing", "appending"}
    BY <1>4 DEF ReaderInv
  <2>3. conn[d] # "ended"
    <3>1. \A k : ~DoneAt(E, k)
      BY <2>1 DEF DoneAt, Open
    <3> QED
      BY <1>4, <3>1 DEF ReaderInv
  <2>4. /\ Rising(got[d]) /\ AllBelow(got[d], sent[d]) /\ Placed(E, sent[d]) /\ BufferOK(E, buffered[d])
        /\ conn[d] = "replaying" => SnapOK(E, snap[d]) /\ d \in subs
    BY <1>4, <2>3 DEF ReaderInv
  <2>5. Placed(E2, sent[d])
    BY <2>1, <2>4, PlacedGrows
  <2>6. BufferOK(E2, buffered[d])
    BY <2>1, <2>4, BufferGrows
  <2>7. conn[d] = "replaying" => SnapOK(E2, snap[d])
    BY <2>4, SnapGrows
  <2> HIDE DEF E, E2
  <2>8. E2 = Evs(Watched[d])'
    BY <1>4 DEF E2
  <2> QED
    BY <1>1, <1>4, <2>2, <2>3, <2>4, <2>5, <2>6, <2>7, <2>8 DEF ReaderInv
<1> QED
  BY <1>3, <1>4

\* A step of a run.
LEMMA RunKeepsReader ==
  ASSUME Typing, NEW r \in Runs, RunInv(r), NEW d \in Readers, ReaderInv(d),
         Start(r) \/ RunStep(r) \/ RunThrows(r) \/ Approve(r) \/ Abort(r)
  PROVE  ReaderInv(d)'
<1>0. /\ pc \in [Runs -> RunStates] /\ torn[r] \in BOOLEAN /\ seq[r] \in Nat
      /\ file \in [Runs -> Seq(Events)] /\ Watched[d] \in Runs
  BY RunStoreAssumption DEF Typing, FilesTyped, RunsTyped
<1>1. CASE Appended(r)
  <2> DEFINE es == <<event[r]>>
             b == event[r].seq
  <2>1. /\ pc[r] = "appending" /\ appendLines(r, es) /\ Notify(r, es)
        /\ pc'[r] = Resumes(event[r]) /\ \A x \in Runs : x # r => pc'[x] = pc[x]
        /\ UNCHANGED <<active, killed, unsaved>>
    BY <1>0, <1>1 DEF Appended, At, unchangedPast
  <2>2. Fresh(es, b) /\ b \in Nat /\ Open(Evs(r), b) /\ ~torn[r]
    BY <2>1, FreshEvent
  <2> HIDE DEF es, b
  <2>3. Wrote(r, es, b, Evs(r)', file'[r])
    BY <2>1, <2>2, AppendWrites
  <2>4. Tells(es, Evs(r), Evs(r)', b)
    BY <2>2, <2>3, WroteTells
  <2>5. r \in active /\ r \notin unsaved
    BY <2>1, Standing DEF RunInv
  <2>6. HasFile(r)'
    BY <2>1 DEF HasFile, Resumes
  <2>7. \A x \in Runs : x # r => file'[x] = file[x]
    BY <1>0, <2>1 DEF appendLines
  <2> QED
    BY <2>1, <2>2, <2>4, <2>5, <2>6, <2>7, ToldKeeps
<1>2. CASE CatchAppends(r)
  <2> DEFINE es == lastLines(r)
  <2>1. /\ pc[r] = "failing" /\ appendLines(r, es) /\ Notify(r, es)
        /\ pc'[r] = "closing" /\ \A x \in Runs : x # r => pc'[x] = pc[x]
        /\ UNCHANGED <<active, killed, unsaved>>
    BY <1>0, <1>2 DEF CatchAppends, At, unchangedPast
  <2>2. Fresh(es, seq[r]) /\ Open(Evs(r), seq[r])
    BY <2>1, FreshLast
  <2>3. Wrote(r, es, seq[r], Evs(r)', file'[r])
    BY <1>0, <2>1, <2>2, AppendWrites
  <2>4. Len(es) = 2 /\ ~IsDone(es[1]) /\ IsDone(es[2])
    <3>1. Len(es) = 2 /\ es[1] = Ev(seq[r], "error") /\ es[2] = Ev(seq[r] + 1, "done")
      BY <1>0, LastLines
    <3> HIDE DEF es
    <3> QED
      BY <3>1 DEF Ev, IsDone
  <2> HIDE DEF es
  <2>5. Tells(es, Evs(r), Evs(r)', seq[r])
    BY <2>2, <2>3, <2>4, WroteTells
  <2>6. r \in active /\ r \notin unsaved
    BY <2>1, Standing DEF RunInv
  <2>7. HasFile(r)'
    BY <2>1 DEF HasFile
  <2>8. \A x \in Runs : x # r => file'[x] = file[x]
    BY <1>0, <2>1 DEF appendLines
  <2> QED
    BY <1>0, <2>1, <2>5, <2>6, <2>7, <2>8, ToldKeeps
<1>3. CASE AppendFails(r)
  <2>1. /\ pc[r] = "appending" /\ appendBreaks(r, <<event[r]>>)
        /\ pc'[r] = "failing" /\ \A x \in Runs : x # r => pc'[x] = pc[x]
        /\ UNCHANGED <<active, killed, unsaved, reader>>
    BY <1>0, <1>3 DEF AppendFails, At, unchangedPast
  <2>2. Fresh(<<event[r]>>, event[r].seq) /\ event[r].seq \in Nat /\ Open(Evs(r), event[r].seq)
    BY <2>1, FreshEvent
  <2>3. PICK n \in 0 .. Len(<<event[r]>>) - 1 :
          Wrote(r, SubSeq(<<event[r]>>, 1, n), event[r].seq, Evs(r)', file'[r])
    BY <2>1, <2>2, BreakWrites
  <2>4. Evs(r)' = Evs(r)
    <3> DEFINE p == SubSeq(<<event[r]>>, 1, n)
    <3>1. Len(p) = 0
      BY <2>3
    <3>2. Wrote(r, p, event[r].seq, Evs(r)', file'[r])
      BY <2>3
    <3> HIDE DEF p
    <3>3. Evs(r) \subseteq Evs(r)' /\ \A f \in Evs(r)' : f \in Evs(r)
      BY <3>1, <3>2 DEF Wrote, Grows
    <3> QED
      BY <3>3
  <2>5. \A x \in Runs : x # r => file'[x] = file[x]
    BY <1>0, <2>1 DEF appendBreaks
  <2>6. Evs(Watched[d])' = Evs(Watched[d])
    BY <1>0, <2>4, <2>5 DEF Evs
  <2>7. HasFile(Watched[d])' <=> HasFile(Watched[d])
    BY <1>0, <2>1 DEF HasFile
  <2> QED
    BY <2>1, <2>6, <2>7, ReaderKeeps DEF reader
<1>4. CASE CatchFails(r)
  <2>1. /\ pc[r] = "failing" /\ appendBreaks(r, lastLines(r))
        /\ pc'[r] = "closing" /\ \A x \in Runs : x # r => pc'[x] = pc[x]
        /\ UNCHANGED <<active, killed, reader>> /\ unsaved \subseteq unsaved' /\ r \in unsaved'
    BY <1>0, <1>4 DEF CatchFails, At
  <2>2. Fresh(lastLines(r), seq[r]) /\ Open(Evs(r), seq[r])
    BY <2>1, FreshLast
  <2>3. Grows(Evs(r), Evs(r)', seq[r])
    BY <1>0, <2>1, <2>2, BreakWrites DEF Wrote
  <2>4. \A x \in Runs : x # r => file'[x] = file[x]
    BY <1>0, <2>1 DEF appendBreaks
  <2>5. r \in active
    BY <2>1, Standing
  <2>6. HasFile(r)'
    BY <2>1 DEF HasFile
  <2> QED
    BY <1>0, <2>1, <2>3, <2>4, <2>5, <2>6, UntoldKeeps
<1> QED
  BY <1>1, <1>2, <1>3, <1>4, QuietKeeps DEF RunStep, StoreStep, GoesOn, ApprovalTimeout

\* serve is killed.
LEMMA KillKeepsReader ==
  ASSUME Typing, \A r \in Runs : RunInv(r), Kill, NEW d \in Readers, ReaderInv(d)
  PROVE  ReaderInv(d)'
<1> DEFINE r == Watched[d]
           E == Evs(r)
           E2 == Evs(r)'
<1>1. r \in Runs /\ RunInv(r) /\ sent[d] \in Nat
  BY RunStoreAssumption DEF Typing, ReadersTyped
<1>2. /\ conn'[d] = IF conn[d] = "ended" THEN "ended" ELSE "off"
      /\ subs' = {} /\ buffered'[d] = <<>> /\ sent'[d] = sent[d] /\ got'[d] = got[d]
      /\ unsaved' = unsaved /\ active' = {} /\ pc'[r] = IF r \in active THEN "dead" ELSE pc[r]
  BY <1>1 DEF Kill
<1>3. HasFile(r) => HasFile(r)'
  BY <1>2 DEF HasFile
<1>4. Rising(got[d]) /\ AllBelow(got[d], sent[d])
  BY DEF ReaderInv
<1>5. BufferOK(E2, <<>>)
  <2>1. Len(<<>>) = 0
    OBVIOUS
  <2> QED
    BY <2>1 DEF BufferOK, Strict, Clean
<1>6. E2 = Evs(Watched[d])' /\ E = Evs(Watched[d])
  OBVIOUS
<1>7. CASE E2 = E
  <2>1. /\ conn[d] # "ended" => Placed(E2, sent[d])
        /\ r \notin unsaved => Shown(E2, sent[d], got[d])
        /\ conn[d] = "ended" =>
             /\ HasFile(r)
             /\ \E k \in Nat : sent[d] = k + 1 /\ Has(got[d], k) /\ (DoneAt(E2, k) \/ (HasFile(r) /\ Last(E2, k)))
    BY <1>7 DEF ReaderInv
  <2> HIDE DEF E, E2
  <2> QED
    BY <1>2, <1>3, <1>4, <1>5, <1>6, <2>1 DEF ReaderInv
<1>8. CASE /\ pc[r] \in {"appending", "failing"}
           /\ Bound(r) \in Nat /\ Grows(E, E2, Bound(r))
  <2>1. E \subseteq E2 /\ E \subseteq Events /\ Open(E, Bound(r))
    BY <1>8 DEF Grows
  <2>2. conn[d] # "ended"
    <3>1. \A k : ~DoneAt(E, k)
      BY <2>1 DEF DoneAt, Open
    <3>2. r \in active
      BY <1>1, <1>8, Standing
    <3> QED
      BY <3>1, <3>2 DEF ReaderInv
  <2>3. Placed(E, sent[d]) /\ (r \notin unsaved => Shown(E, sent[d], got[d]))
    BY <2>2 DEF ReaderInv
  <2>4. sent[d] <= Bound(r)
    BY <1>1, <1>8, <2>1, <2>3, PlacedBelow
  <2>5. Placed(E2, sent[d])
    BY <2>1, <2>3, PlacedGrows
  <2>6. r \notin unsaved => Shown(E2, sent[d], got[d])
    BY <1>1, <1>8, <2>3, <2>4, ShownGrows
  <2> HIDE DEF E, E2
  <2> QED
    BY <1>2, <1>3, <1>4, <1>5, <1>6, <2>2, <2>5, <2>6 DEF ReaderInv
<1> QED
  BY <1>1, <1>7, <1>8, KillWrites

------------------------------------------------------------------------------
\* The steps of a reader.

\* The other readers, when no file changes.
LEMMA ReaderAlone ==
  ASSUME Typing, NEW d \in Readers, NEW x \in Readers, x # d, ReaderInv(x),
         Connect(d) \/ ReadFile(d) \/ Replay(d) \/ RepairReads(d) \/ Drop(d)
  PROVE  ReaderInv(x)'
<1>1. UNCHANGED disk /\ UNCHANGED run /\ UNCHANGED <<killed, unsaved>>
  BY DEF Connect, ReadFile, Replay, replays, RepairReads, Drop, unchangedRun, unchangedPast
<1>2. Evs(Watched[x])' = Evs(Watched[x]) /\ (HasFile(Watched[x])' <=> HasFile(Watched[x]))
  BY <1>1 DEF Evs, HasFile, disk, run
<1>3. /\ conn \in [Readers -> ReaderStates] /\ sent \in [Readers -> Nat]
      /\ snap \in [Readers -> Seq(Events)] /\ buffered \in [Readers -> Seq(Events)]
      /\ got \in [Readers -> Seq(Events)]
  BY DEF Typing, ReadersTyped
<1>4. /\ conn'[x] = conn[x] /\ sent'[x] = sent[x] /\ got'[x] = got[x] /\ snap'[x] = snap[x]
      /\ buffered'[x] = buffered[x] /\ (x \in subs' <=> x \in subs)
  BY <1>3 DEF Connect, ReadFile, Replay, replays, RepairReads, Drop, Move
<1> QED
  BY <1>1, <1>2, <1>4, ReaderKeeps DEF run

\* The steps of a reader keep its own invariant.
LEMMA ConnectKeeps ==
  ASSUME Typing, NEW d \in Readers, RunInv(Watched[d]), ReaderInv(d), Connect(d) \/ Drop(d)
  PROVE  ReaderInv(d)'
<1> DEFINE r == Watched[d]
<1>0. r \in Runs /\ conn \in [Readers -> ReaderStates] /\ buffered \in [Readers -> Seq(Events)]
      /\ (d \in subs => conn[d] # "off")
  BY RunStoreAssumption DEF Typing, ReadersTyped
<1>1. UNCHANGED disk /\ UNCHANGED run /\ UNCHANGED <<killed, unsaved, got, sent>>
  BY DEF Connect, Drop, unchangedRun, unchangedPast
<1>2. Evs(r)' = Evs(r) /\ (HasFile(r)' <=> HasFile(r)) /\ active' = active
  BY <1>1 DEF Evs, HasFile, disk, run
<1>3. CASE Connect(d)
  <2>1. /\ conn[d] = "off" /\ conn'[d] = "reading" /\ HasFile(r) /\ buffered'[d] = buffered[d]
        /\ d \in subs' <=> r \in active
    BY <1>0, <1>3 DEF Connect, Move
  <2>2. r \in active => r \notin killed
    BY <1>0, Standing DEF RunInv
  <2> HIDE DEF r
  <2>3. r = Watched[d]
    BY DEF r
  <2> QED
    BY <1>1, <1>2, <2>1, <2>2, <2>3 DEF ReaderInv
<1>4. CASE Drop(d)
  <2>1. conn[d] # "ended" /\ conn'[d] = "off" /\ buffered'[d] = <<>> /\ d \notin subs'
    BY <1>0, <1>4 DEF Drop, Move
  <2>2. BufferOK(Evs(r), <<>>)
    <3>1. Len(<<>>) = 0
      OBVIOUS
    <3> QED
      BY <3>1 DEF BufferOK, Strict, Clean
  <2> HIDE DEF r
  <2>3. r = Watched[d]
    BY DEF r
  <2> QED
    BY <1>1, <1>2, <2>1, <2>2, <2>3 DEF ReaderInv
<1> QED
  BY <1>3, <1>4

LEMMA ReadKeeps ==
  ASSUME Typing, NEW d \in Readers, RunInv(Watched[d]), ReaderInv(d), ReadFile(d)
  PROVE  ReaderInv(d)'
<1> DEFINE r == Watched[d]
           E == Evs(r)
           o == read(r)
<1>0. /\ r \in Runs /\ conn \in [Readers -> ReaderStates] /\ snap \in [Readers -> Seq(Events)]
      /\ file[r] \in Seq(Events) /\ Ordered(file[r])
  BY RunStoreAssumption DEF Typing, ReadersTyped, FilesTyped, RunInv
<1>1. UNCHANGED disk /\ UNCHANGED run /\ UNCHANGED <<killed, unsaved, got, sent, subs, buffered>>
  BY DEF ReadFile, unchangedRun, unchangedPast
<1>2. Evs(r)' = Evs(r) /\ (HasFile(r)' <=> HasFile(r)) /\ active' = active
  BY <1>1 DEF Evs, HasFile, disk, run
<1>3. conn[d] = "reading" /\ conn'[d] = "replaying" /\ snap'[d] = o
  BY <1>0 DEF ReadFile, Move
<1>4. ReadOf(o, file[r])
  BY <1>0, ReadIs DEF read
<1> HIDE DEF o
<1>5. Ordered(o) /\ Clean(o) /\ (\A i \in 1 .. Len(o) : o[i] \in E) /\ \A e \in E : Has(o, e.seq)
  BY <1>0, <1>4 DEF ReadOf, Evs, Has
<1>6. SnapOK(E, o) /\ Both(E, o, buffered[d]) /\ ButDone(E, o)
  BY <1>5 DEF SnapOK, Both, ButDone
<1> HIDE DEF E, r
<1>7. r = Watched[d] /\ E = Evs(r)
  BY DEF r, E
<1> QED
  BY <1>1, <1>2, <1>3, <1>6, <1>7 DEF ReaderInv

LEMMA ReplayKeeps ==
  ASSUME Typing, NEW d \in Readers, RunInv(Watched[d]), ReaderInv(d), Replay(d)
  PROVE  ReaderInv(d)'
<1> DEFINE r == Watched[d]
           E == Evs(r)
           s == snap[d]
           b == buffered[d]
           n == sent[d]
           g == got[d]
           old == emits(s, n)
           mid == next(old, n)
           late == IF HasDone(old) THEN <<>> ELSE emits(b, mid)
           g2 == g \o old \o late
           m == next(late, mid)
<1>0. /\ r \in Runs /\ conn \in [Readers -> ReaderStates] /\ sent \in [Readers -> Nat]
      /\ snap \in [Readers -> Seq(Events)] /\ buffered \in [Readers -> Seq(Events)]
      /\ got \in [Readers -> Seq(Events)] /\ file[r] \in Seq(Events) /\ Ordered(file[r])
  BY RunStoreAssumption DEF Typing, ReadersTyped, FilesTyped, RunInv
<1>1. n \in Nat /\ s \in Seq(Events) /\ b \in Seq(Events) /\ g \in Seq(Events)
  BY <1>0
<1>2. E \subseteq Events /\ Story(E)
  BY <1>0, StoryOf DEF Evs
<1>3. UNCHANGED disk /\ UNCHANGED run /\ UNCHANGED <<killed, unsaved, subs>>
  BY DEF Replay, replays, unchangedRun, unchangedPast
<1>4. Evs(r)' = Evs(r) /\ (HasFile(r)' <=> HasFile(r)) /\ active' = active
  BY <1>3 DEF Evs, HasFile, disk, run
<1>5. /\ conn[d] = "replaying" /\ got'[d] = g2 /\ sent'[d] = m /\ buffered'[d] = <<>>
      /\ conn'[d] = IF HasDone(old \o late) THEN "ended" ELSE onward(d)
  BY <1>0, Zenon DEF Replay, replays, Move
<1>6. /\ Rising(g) /\ AllBelow(g, n) /\ Placed(E, n) /\ BufferOK(E, b) /\ SnapOK(E, s)
      /\ r \notin unsaved => Shown(E, n, g)
      /\ r \notin unsaved /\ d \in subs => Both(E, s, b)
      /\ d \notin subs => ButDone(E, s) /\ b = <<>>
      /\ r \in active => d \in subs
      /\ d \in subs => r \notin killed
      /\ HasFile(r)
  BY <1>5 DEF ReaderInv
<1>7. Told(old, g \o old, mid, g, s, n)
  <2>1. Clean(s) /\ Ordered(s)
    BY <1>6 DEF SnapOK
  <2> QED
    BY <1>1, <1>6, <2>1, EmitsTells
<1> HIDE DEF r, E, s, b, n, g, old, mid
<1>8. Replayed(old, late, g2, m, g, s, b, n)
  <2>1. old \in Seq(Events) /\ g \o old \in Seq(Events) /\ mid \in Nat
        /\ Rising(g \o old) /\ AllBelow(g \o old, mid)
    BY <1>7 DEF Told
  <2>2. CASE HasDone(old)
    <3>1. late = <<>>
      BY <2>2
    <3>2. m = mid
      BY <3>1 DEF next
    <3> HIDE DEF late, m
    <3>3. g2 = g \o old
      BY <2>1, <3>1
    <3> HIDE DEF g2
    <3> QED
      BY <1>7, <2>2, <3>1, <3>2, <3>3, Zenon DEF Replayed
  <2>3. CASE ~HasDone(old)
    <3>1. late = emits(b, mid)
      BY <2>3
    <3>2. Clean(b) /\ Ordered(b)
      BY <1>6, StrictOrdered DEF BufferOK
    <3>3. Told(emits(b, mid), (g \o old) \o emits(b, mid), next(emits(b, mid), mid), g \o old, b, mid)
      BY <1>1, <2>1, <3>2, EmitsTells
    <3>4. Told(late, g2, m, g \o old, b, mid)
      BY <3>1, <3>3, Zenon
    <3> HIDE DEF late, m, g2
    <3> QED
      BY <1>7, <2>3, <3>4, Zenon DEF Replayed
  <2> QED
    BY <2>2, <2>3
<1> HIDE DEF late, m, g2
<1>9. /\ m \in Nat /\ g2 \in Seq(Events) /\ Rising(g2) /\ AllBelow(g2, m)
      /\ HasDone(old \o late) => EndAt(E, m, g2)
      /\ HasDone(old \o late) \/ Placed(E, m)
      /\ Covers(E, s, b) /\ Shown(E, n, g) => Shown(E, m, g2)
      /\ Covers(E, s, b) /\ Shown(E, n, g) => HasDone(old \o late) \/ Caught(E, m)
  BY <1>1, <1>2, <1>6, <1>8, ReplayIs
<1>10. r \notin unsaved => Covers(E, s, b) /\ Shown(E, n, g)
  BY <1>6 DEF Covers
<1>11. onward(d) = IF r \in active THEN "live" ELSE "repairing"
  BY DEF onward, r
<1>12. BufferOK(E, <<>>)
  <2>1. Len(<<>>) = 0
    OBVIOUS
  <2> QED
    BY <2>1 DEF BufferOK, Strict, Clean
<1>13. r = Watched[d] /\ E = Evs(r)
  BY DEF r, E
<1>14. CASE HasDone(old \o late)
  <2>1. conn'[d] = "ended" /\ EndAt(E, m, g2) /\ (r \notin unsaved => Shown(E, m, g2))
    BY <1>5, <1>9, <1>10, <1>14
  <2> QED
    BY <1>3, <1>4, <1>5, <1>6, <1>9, <1>12, <1>13, <2>1 DEF ReaderInv, EndAt
<1>15. CASE ~HasDone(old \o late)
  <2>1. /\ conn'[d] = IF r \in active THEN "live" ELSE "repairing"
        /\ Placed(E, m) /\ (r \notin unsaved => Shown(E, m, g2) /\ Caught(E, m))
    BY <1>5, <1>9, <1>10, <1>11, <1>15
  <2> QED
    BY <1>3, <1>4, <1>5, <1>6, <1>9, <1>12, <1>13, <2>1 DEF ReaderInv
<1> QED
  BY <1>14, <1>15

LEMMA RepairReadKeeps ==
  ASSUME Typing, NEW d \in Readers, RunInv(Watched[d]), ReaderInv(d), RepairReads(d)
  PROVE  ReaderInv(d)'
<1> DEFINE r == Watched[d]
           E == Evs(r)
           o == read(r)
<1>0. /\ r \in Runs /\ conn \in [Readers -> ReaderStates] /\ snap \in [Readers -> Seq(Events)]
      /\ file[r] \in Seq(Events) /\ Ordered(file[r])
  BY RunStoreAssumption DEF Typing, ReadersTyped, FilesTyped, RunInv
<1>1. UNCHANGED disk /\ UNCHANGED run /\ UNCHANGED <<killed, unsaved, got, sent, buffered>>
  BY DEF RepairReads, unchangedRun, unchangedPast
<1>2. Evs(r)' = Evs(r) /\ (HasFile(r)' <=> HasFile(r)) /\ active' = active
  BY <1>1 DEF Evs, HasFile, disk, run
<1>3. /\ conn[d] = "repairing"
      /\ conn'[d] = IF HasDone(o) THEN "off" ELSE "appending"
      /\ snap'[d] = IF HasDone(o) THEN <<>> ELSE o
      /\ subs' = IF HasDone(o) THEN subs \ {d} ELSE subs
  BY <1>0 DEF RepairReads, Move
<1>4. ReadOf(o, file[r])
  BY <1>0, ReadIs DEF read
<1>5. E \subseteq Events
  BY <1>0, StoryOf DEF Evs
<1>6. /\ r \notin active /\ HasFile(r) /\ buffered[d] = <<>> /\ BufferOK(E, <<>>)
      /\ Placed(E, sent[d])
  BY <1>3 DEF ReaderInv
<1> HIDE DEF o
<1>7. /\ o \in Seq(Events) /\ Ordered(o) /\ Clean(o)
      /\ \A i \in 1 .. Len(o) : o[i] \in E
      /\ \A e \in E : \E i \in 1 .. Len(o) : o[i] = e
  BY <1>0, <1>4 DEF ReadOf, Evs
<1>8. CASE HasDone(o)
  <2> HIDE DEF E, r
  <2>1. r = Watched[d] /\ E = Evs(r)
    BY DEF r, E
  <2> QED
    BY <1>1, <1>2, <1>3, <1>6, <1>8, <2>1 DEF ReaderInv
<1>9. CASE ~HasDone(o)
  <2>1. \A e \in E : ~IsDone(e)
    BY <1>7, <1>9 DEF HasDone
  <2>2. r \in killed \/ r \in unsaved
    <3>1. pc[r] \in {"over", "dead"}
      BY <1>0, <1>6, Standing
    <3> QED
      BY <2>1, <3>1 DEF RunInv
  <2>3. Strict(o)
    <3>1. \A i \in 1 .. Len(o) : i \in Kept(o) /\ ~IsDone(o[i])
      BY <1>7, <2>1 DEF Kept, Clean
    <3> QED
      BY <1>7, <3>1 DEF Strict, Ordered, Before
  <2>4. \A i \in 1 .. Len(o) : o[i].seq \in Nat
    BY <1>5, <1>7 DEF Events
  <2> DEFINE k == next(o, 0)
  <2>5. Nexts(k, o, 0)
    <3>1. \A i \in 1 .. Len(o) : o[i].seq >= 0
      BY <2>4
    <3> QED
      BY <1>7, <2>3, <3>1, NextIs
  <2> HIDE DEF k
  <2>6. Last(E, k)
    <3>1. \A e \in E : e.seq < k
      BY <1>7, <2>5 DEF Nexts, AllBelow
    <3>2. k = 0 \/ \E e \in E : ~IsDone(e) /\ e.seq = k - 1
      <4>1. CASE o = <<>>
        BY <4>1, <2>5 DEF Nexts
      <4>2. CASE o # <<>>
        <5>1. Len(o) \in 1 .. Len(o) /\ k = o[Len(o)].seq + 1
          BY <4>2, <2>5 DEF Nexts
        <5>2. o[Len(o)] \in E /\ o[Len(o)].seq = k - 1
          BY <5>1, <1>7, <2>4
        <5> QED
          BY <5>2, <2>1
      <4> QED
        BY <4>1, <4>2
    <3> QED
      BY <2>1, <3>1, <3>2 DEF Last
  <2>7. k \in Nat
    BY <2>5 DEF Nexts
  <2> HIDE DEF E, r
  <2>8. r = Watched[d] /\ E = Evs(r)
    BY DEF r, E
  <2>9. next(snap'[d], 0) = k
    BY <1>3, <1>9 DEF k
  <2> QED
    BY <1>1, <1>2, <1>3, <1>6, <1>9, <2>2, <2>6, <2>7, <2>8, <2>9 DEF ReaderInv
<1> QED
  BY <1>8, <1>9

\* A done is appended and the request that does so tells its client.
LEMMA RepairKeepsActor ==
  ASSUME Typing, NEW d \in Readers, RunInv(Watched[d]), ReaderInv(d), RepairAppends(d)
  PROVE  ReaderInv(d)'
<1> DEFINE r == Watched[d]
           E == Evs(r)
           E2 == Evs(r)'
           n == sent[d]
           g == got[d]
           k == next(snap[d], 0)
           e == Ev(k, "synthetic")
           es == <<e>>
           o == emits(es, n)
           g2 == g \o o
           m == next(o, n)
<1>0. /\ r \in Runs /\ conn \in [Readers -> ReaderStates] /\ sent \in [Readers -> Nat]
      /\ got \in [Readers -> Seq(Events)]
  BY RunStoreAssumption DEF Typing, ReadersTyped
<1>1. /\ conn[d] = "appending" /\ conn'[d] = "ended" /\ got'[d] = g2 /\ sent'[d] = m
      /\ UNCHANGED <<subs, buffered, active, killed, unsaved>> /\ (HasFile(r)' <=> HasFile(r))
  <2>1. sent' = [sent EXCEPT ![d] = next(emits(es, @), @)]
    BY DEF RepairAppends
  <2>2. sent'[d] = m
    BY <1>0, <2>1
  <2> QED
    BY <1>0, <2>2 DEF RepairAppends, Move, run, unchangedPast, HasFile
<1>2. n \in Nat /\ g \in Seq(Events)
  BY <1>0
<1>3. /\ Rising(g) /\ AllBelow(g, n) /\ Placed(E, n) /\ r \notin active /\ HasFile(r)
      /\ buffered[d] = <<>> /\ BufferOK(E, <<>>)
      /\ r \notin unsaved => Shown(E, n, g) /\ Caught(E, n)
      /\ k \in Nat /\ Last(E, k) /\ (d \in subs => r \notin killed)
  BY <1>1 DEF ReaderInv
<1>4. Repairs(E, E2, k)
  BY RepairWrites
<1>5. Last(E2, k)
  BY <1>3, <1>4, LastRepaired
<1>6. E \subseteq E2 /\ E \subseteq Events
  BY <1>4 DEF Repairs
<1>7. n <= k
  BY <1>2, <1>3, <1>6, PlacedLast
<1> HIDE DEF k
<1>8. /\ es \in Seq(Events) /\ Len(es) = 1 /\ es[1] = e /\ e.seq = k /\ e.type = "synthetic"
  BY <1>3, EventTyped DEF Types
<1> HIDE DEF e
<1>9. Clean(es) /\ Ordered(es)
  BY <1>8 DEF Clean, Ordered, Kept
<1> HIDE DEF es
<1>10. Told(o, g2, m, g, es, n)
  BY <1>2, <1>3, <1>8, <1>9, EmitsTells
<1> HIDE DEF o, g2, m, n, g
<1>11. IsDone(e) /\ \A i \in 1 .. Len(es) : es[i] = e
  BY <1>8 DEF IsDone
<1>12. Has(g2, k) /\ m = k + 1 /\ Rising(g2) /\ AllBelow(g2, m)
       /\ \A j \in Nat : Has(g, j) => Has(g2, j)
  <2>1. es[1].seq >= n /\ IsDone(es[1]) /\ 1 \in 1 .. Len(es)
    BY <1>2, <1>3, <1>7, <1>8, <1>11
  <2>2. HasDone(o) /\ Has(g2, es[1].seq)
    BY <1>10, <2>1 DEF Told
  <2>3. m = k + 1
    BY <1>8, <1>10, <1>11, <2>2 DEF Told
  <2> QED
    BY <1>8, <1>10, <2>2, <2>3 DEF Told
<1>13. r \notin unsaved => Shown(E2, m, g2)
  <2> SUFFICES ASSUME r \notin unsaved, NEW f \in E2 PROVE Has(g2, f.seq)
    BY DEF Shown
  <2>1. CASE f.seq = k
    BY <2>1, <1>12
  <2>2. CASE f \in E /\ f.seq # k
    <3>1. ~IsDone(f) /\ f.seq \in Nat
      BY <2>2, <1>3, <1>6 DEF Last, Events
    <3>2. f.seq < n
      BY <2>2, <3>1, <1>3 DEF Caught
    <3>3. Has(g, f.seq)
      BY <2>2, <3>2, <1>3 DEF Shown
    <3> QED
      BY <3>1, <3>3, <1>12
  <2> QED
    BY <2>1, <2>2, <1>4 DEF Repairs
<1>14. BufferOK(E2, <<>>)
  BY <1>3, <1>6, BufferGrows
<1> HIDE DEF E, E2, r
<1>15. r = Watched[d] /\ E2 = Evs(Watched[d])'
  BY DEF r, E2
<1> QED
  BY <1>1, <1>3, <1>5, <1>12, <1>13, <1>14, <1>15 DEF ReaderInv

\* What it appends agrees with what other requests know of the file.
LEMMA RepairKeepsOthers ==
  ASSUME Typing, NEW d \in Readers, RunInv(Watched[d]), ReaderInv(d), RepairAppends(d),
         NEW x \in Readers, x # d, ReaderInv(x)
  PROVE  ReaderInv(x)'
<1> DEFINE r == Watched[d]
           E == Evs(r)
           E2 == Evs(r)'
           n == sent[x]
           k == next(snap[d], 0)
<1>0. /\ r \in Runs /\ Watched[x] \in Runs /\ conn \in [Readers -> ReaderStates]
      /\ sent \in [Readers -> Nat] /\ snap \in [Readers -> Seq(Events)]
      /\ got \in [Readers -> Seq(Events)]
  BY RunStoreAssumption DEF Typing, ReadersTyped
<1>1. /\ conn'[x] = conn[x] /\ sent'[x] = sent[x] /\ got'[x] = got[x] /\ snap'[x] = snap[x]
      /\ UNCHANGED <<subs, buffered, active, killed, unsaved, pc>>
  BY <1>0 DEF RepairAppends, Move, run, unchangedPast
<1>2. HasFile(Watched[x])' <=> HasFile(Watched[x])
  BY <1>1 DEF HasFile
<1>3. CASE Watched[x] # r
  <2>1. file'[Watched[x]] = file[Watched[x]]
    BY <1>0, <1>3, RepairWrites
  <2>2. Evs(Watched[x])' = Evs(Watched[x])
    BY <2>1 DEF Evs
  <2> QED
    BY <1>1, <1>2, <2>2, ReaderKeeps
<1>4. CASE Watched[x] = r
  <2>1. conn[d] = "appending"
    BY DEF RepairAppends
  <2>2. r \notin active /\ HasFile(r) /\ k \in Nat /\ Last(E, k) /\ (r \in killed \/ r \in unsaved)
    BY <2>1 DEF ReaderInv
  <2>3. Repairs(E, E2, k)
    BY RepairWrites
  <2>4. E \subseteq E2 /\ E \subseteq Events /\ Last(E2, k) /\ n \in Nat
    BY <1>0, <2>2, <2>3, LastRepaired DEF Repairs
  <2> HIDE DEF k
  <2>5. /\ Rising(got[x]) /\ AllBelow(got[x], n) /\ BufferOK(E, buffered[x])
        /\ conn[x] # "ended" => Placed(E, n)
        /\ r \notin unsaved => Shown(E, n, got[x])
        /\ conn[x] \in {"live", "repairing", "appending"} /\ r \notin unsaved => Caught(E, n)
        /\ conn[x] = "replaying" => SnapOK(E, snap[x])
        /\ conn[x] = "replaying" /\ x \notin subs => ButDone(E, snap[x])
        /\ conn[x] = "appending" => next(snap[x], 0) \in Nat /\ Last(E, next(snap[x], 0))
        /\ conn[x] = "ended" =>
             \E j \in Nat : n = j + 1 /\ Has(got[x], j) /\ (DoneAt(E, j) \/ Last(E, j))
    BY <1>4 DEF ReaderInv
  <2>6. x \in subs => r \in unsaved
    BY <1>4, <2>2 DEF ReaderInv
  <2>7. conn[x] # "ended" => Placed(E2, n)
    BY <2>4, <2>5, PlacedGrows
  <2>8. BufferOK(E2, buffered[x])
    BY <2>4, <2>5, BufferGrows
  <2>9. conn[x] = "ended" => n = k + 1 /\ Has(got[x], k)
    <3> SUFFICES ASSUME conn[x] = "ended" PROVE n = k + 1 /\ Has(got[x], k)
      OBVIOUS
    <3>1. PICK j \in Nat : n = j + 1 /\ Has(got[x], j) /\ (DoneAt(E, j) \/ Last(E, j))
      BY <2>5
    <3>2. j = k
      BY <2>2, <2>4, <3>1, LastUnique
    <3> QED
      BY <3>1, <3>2
  <2>10. r \notin unsaved => Shown(E2, n, got[x])
    <3>1. n <= k \/ Has(got[x], k)
      <4>1. CASE conn[x] = "ended"
        BY <4>1, <2>9
      <4>2. CASE conn[x] # "ended"
        BY <4>2, <2>2, <2>4, <2>5, PlacedLast
      <4> QED
        BY <4>1, <4>2
    <3> QED
      BY <2>2, <2>3, <2>4, <2>5, <3>1, ShownRepaired
  <2>11. conn[x] \in {"live", "repairing", "appending"} /\ r \notin unsaved => Caught(E2, n)
    BY <2>2, <2>3, <2>5, CaughtRepaired
  <2>12. conn[x] = "replaying" => SnapOK(E2, snap[x])
    BY <2>2, <2>3, <2>5, SnapRepaired
  <2>13. conn[x] = "replaying" /\ x \notin subs => ButDone(E2, snap[x])
    BY <2>2, <2>3, <2>5, CaughtRepaired
  <2>14. conn[x] = "appending" => Last(E2, next(snap[x], 0))
    <3> SUFFICES ASSUME conn[x] = "appending" PROVE Last(E2, next(snap[x], 0))
      OBVIOUS
    <3> DEFINE j == next(snap[x], 0)
    <3>1. j \in Nat /\ Last(E, j)
      BY <2>5
    <3> HIDE DEF j
    <3>2. j = k
      BY <2>2, <2>4, <3>1, LastUnique
    <3>3. Last(E2, j)
      BY <2>4, <3>2
    <3> QED
      BY <3>3 DEF j
  <2> HIDE DEF E, E2, r
  <2>15. r = Watched[x] /\ E2 = Evs(Watched[x])' /\ (HasFile(r)' <=> HasFile(r))
    BY <1>2, <1>4 DEF r, E2
  <2>16. E = Evs(Watched[x])
    BY <1>4 DEF r, E
  <2> QED
    BY <1>1, <2>2, <2>4, <2>5, <2>6, <2>7, <2>8, <2>9, <2>10, <2>11, <2>12, <2>13, <2>14, <2>15, <2>16
    DEF ReaderInv
<1> QED
  BY <1>3, <1>4

------------------------------------------------------------------------------
\* Every step keeps the invariant.

Held == (\A r \in Runs : RunInv(r)) /\ (\A d \in Readers : ReaderInv(d))

\* A step of a run, of a reader, any step.
LEMMA RunStepKeeps ==
  ASSUME Typing, Held, NEW r \in Runs, Start(r) \/ RunStep(r) \/ RunThrows(r) \/ Approve(r) \/ Abort(r)
  PROVE  Held'
<1>1. ASSUME NEW x \in Runs PROVE RunInv(x)'
  <2>1. RunInv(x) /\ RunInv(r)
    BY DEF Held
  <2>2. CASE x = r
    BY <2>1, <2>2, ActorKeeps
  <2>3. CASE x # r
    BY <2>1, <2>3, OthersKeep
  <2> QED
    BY <2>2, <2>3
<1>2. ASSUME NEW d \in Readers PROVE ReaderInv(d)'
  <2>1. RunInv(r) /\ ReaderInv(d)
    BY DEF Held
  <2> QED
    BY <2>1, RunKeepsReader
<1> QED
  BY <1>1, <1>2 DEF Held

LEMMA ReaderStepKeeps ==
  ASSUME Typing, Held, NEW d \in Readers, Connect(d) \/ ReaderStep(d) \/ Drop(d)
  PROVE  Held'
<1>0. Watched[d] \in Runs
  BY RunStoreAssumption
<1>1. RunInv(Watched[d]) /\ ReaderInv(d)
  BY <1>0 DEF Held
<1>2. CASE RepairAppends(d)
  <2>1. \A r \in Runs : RunInv(r)'
    BY <1>1, <1>2, RepairKeepsRuns DEF Held
  <2>2. ASSUME NEW x \in Readers PROVE ReaderInv(x)'
    <3>1. ReaderInv(x)
      BY DEF Held
    <3>2. CASE x = d
      BY <1>1, <1>2, <3>2, RepairKeepsActor
    <3>3. CASE x # d
      BY <1>1, <1>2, <3>1, <3>3, RepairKeepsOthers
    <3> QED
      BY <3>2, <3>3
  <2> QED
    BY <2>1, <2>2 DEF Held
<1>3. CASE Connect(d) \/ ReadFile(d) \/ Replay(d) \/ RepairReads(d) \/ Drop(d)
  <2>1. UNCHANGED disk /\ UNCHANGED run /\ UNCHANGED <<killed, unsaved>>
    BY <1>3 DEF Connect, ReadFile, Replay, replays, RepairReads, Drop, unchangedRun, unchangedPast
  <2>2. ASSUME NEW r \in Runs PROVE RunInv(r)'
    <3>1. RunInv(r)
      BY DEF Held
    <3> QED
      BY <2>1, <3>1, RunKeeps DEF disk, run
  <2>3. ASSUME NEW x \in Readers PROVE ReaderInv(x)'
    <3>1. ReaderInv(x)
      BY DEF Held
    <3>2. CASE x # d
      BY <1>3, <3>1, <3>2, ReaderAlone
    <3>3. CASE x = d
      <4>1. CASE Connect(d) \/ Drop(d)
        BY <1>1, <3>3, <4>1, ConnectKeeps
      <4>2. CASE ReadFile(d)
        BY <1>1, <3>3, <4>2, ReadKeeps
      <4>3. CASE Replay(d)
        BY <1>1, <3>3, <4>3, ReplayKeeps
      <4>4. CASE RepairReads(d)
        BY <1>1, <3>3, <4>4, RepairReadKeeps
      <4> QED
        BY <1>3, <4>1, <4>2, <4>3, <4>4
    <3> QED
      BY <3>2, <3>3
  <2> QED
    BY <2>2, <2>3 DEF Held
<1> QED
  BY <1>2, <1>3 DEF ReaderStep

LEMMA NextInv == Inv /\ [Next]_vars => Inv'
<1> SUFFICES ASSUME Inv, [Next]_vars PROVE Inv'
  OBVIOUS
<1>1. Typing /\ Held
  BY TypeParts DEF Inv, Typing, Held
<1>2. TypeOK'
  <2>1. FilesTyped' /\ RunsTyped' /\ ReadersTyped' /\ PastTyped'
    BY <1>1, NextTyped DEF Typing
  <2> QED
    BY <2>1 DEF TypeOK, FilesTyped, RunsTyped, ReadersTyped, PastTyped, RunStates, ReaderStates
<1>3. Held'
  <2>1. CASE UNCHANGED vars
    <3>1. ASSUME NEW r \in Runs PROVE RunInv(r)'
      BY <1>1, <2>1, RunKeeps DEF Held, vars, disk, run
    <3>2. ASSUME NEW d \in Readers PROVE ReaderInv(d)'
      <4>1. ReaderInv(d)
        BY <1>1 DEF Held
      <4>2. Evs(Watched[d])' = Evs(Watched[d]) /\ (HasFile(Watched[d])' <=> HasFile(Watched[d]))
        BY <2>1 DEF vars, disk, run, Evs, HasFile
      <4> QED
        BY <2>1, <4>1, <4>2, ReaderKeeps DEF vars, disk, run, reader
    <3> QED
      BY <3>1, <3>2 DEF Held
  <2>2. ASSUME NEW r \in Runs, Start(r) \/ RunStep(r) \/ RunThrows(r) \/ Approve(r) \/ Abort(r)
        PROVE  Held'
    BY <1>1, <2>2, RunStepKeeps
  <2>3. ASSUME NEW d \in Readers, Connect(d) \/ ReaderStep(d) \/ Drop(d)
        PROVE  Held'
    BY <1>1, <2>3, ReaderStepKeeps
  <2>4. CASE Kill
    <3>1. ASSUME NEW r \in Runs PROVE RunInv(r)'
      BY <1>1, <2>4, KillKeepsRuns DEF Held
    <3>2. ASSUME NEW d \in Readers PROVE ReaderInv(d)'
      BY <1>1, <2>4, KillKeepsReader DEF Held
    <3> QED
      BY <3>1, <3>2 DEF Held
  <2> QED
    BY <2>1, <2>2, <2>3, <2>4 DEF Next
<1> QED
  BY <1>2, <1>3 DEF Inv, Held

\* The invariant of serve's runs and their readers, in every reachable state
\* (server/runs.ts, server/index.ts:343-386).
THEOREM StoreInvariant == Spec => []Inv
<1>1. Init => Inv
  BY InitInv
<1>2. Inv /\ [Next]_vars => Inv'
  BY NextInv
<1> QED
  BY <1>1, <1>2, PTL DEF Spec

\* Every variable keeps its type, and the active runs are those between their
\* start and their end (runs.ts:115-164).
THEOREM StoreTyped == Spec => []TypeOK
<1>1. Inv => TypeOK
  BY DEF Inv
<1> QED
  BY <1>1, StoreInvariant, PTL

\* A client misses nothing, however its reading, its replay, the run's appends,
\* other readers' repairs and a kill of serve interleave, and however many runs,
\* readers and breaks there are (index.ts:354-381).
THEOREM NothingIsMissed == Spec => []NothingMissed
<1>1. Inv => NothingMissed
  <2> SUFFICES ASSUME Inv, NEW d \in Readers
               PROVE  /\ Watched[d] \notin unsaved =>
                           \A i \in 1 .. Len(read(Watched[d])) :
                             read(Watched[d])[i].seq < sent[d] =>
                               \E j \in 1 .. Len(got[d]) : got[d][j].seq = read(Watched[d])[i].seq
                      /\ \A i, j \in 1 .. Len(got[d]) : i < j => got[d][i].seq < got[d][j].seq
    BY DEF NothingMissed
  <2>1. Watched[d] \in Runs /\ ReaderInv(d)
    BY RunStoreAssumption DEF Inv
  <2>2. file[Watched[d]] \in Seq(Events)
    BY <2>1 DEF Inv, TypeOK
  <2>3. ReadOf(read(Watched[d]), file[Watched[d]])
    BY <2>2, ReadIs DEF read
  <2>4. \A i \in 1 .. Len(read(Watched[d])) : read(Watched[d])[i] \in Evs(Watched[d])
    BY <2>3 DEF ReadOf, Evs
  <2>5. Watched[d] \notin unsaved => Shown(Evs(Watched[d]), sent[d], got[d])
    BY <2>1 DEF ReaderInv
  <2>6. Rising(got[d])
    BY <2>1 DEF ReaderInv
  <2> QED
    BY <2>4, <2>5, <2>6 DEF Shown, Has, Rising
<1> QED
  BY <1>1, StoreInvariant, PTL

\* Repairs of one file agree, however many requests repair it at once, and only
\* a run that is dead is declared aborted (runs.ts:181-197).
THEOREM RepairsAgree == Spec => []RepairSound
<1>1. Inv => RepairSound
  <2> SUFFICES ASSUME Inv, NEW r \in Runs PROVE OnlyDead(r) /\ DonesAgree(r)
    BY DEF RepairSound
  <2>1. RunInv(r) /\ file[r] \in Seq(Events)
    BY DEF Inv, TypeOK
  <2>2. Story(Evs(r)) /\ Evs(r) \subseteq Events
    BY <2>1, StoryOf DEF RunInv, Evs
  <2>3. \A i \in 1 .. Len(file[r]) : file[r][i].type # "garbage" => file[r][i] \in Evs(r)
    BY DEF Evs, Elts, Kept
  <2>4. OnlyDead(r)
    BY <2>1, <2>3 DEF RunInv, OnlyDead
  <2>5. ASSUME NEW i \in 1 .. Len(file[r]), NEW j \in 1 .. Len(file[r]),
               IsDone(file[r][i]), file[r][j].type # "garbage"
        PROVE  file[r][j].seq <= file[r][i].seq
    <3>1. file[r][i] \in Evs(r) /\ file[r][j] \in Evs(r)
      BY <2>3, <2>5 DEF IsDone
    <3>2. file[r][i].seq \in Nat /\ file[r][j].seq \in Nat
      BY <2>2, <3>1 DEF Events
    <3> QED
      BY <2>2, <2>5, <3>1, <3>2 DEF Story
  <2> QED
    BY <2>4, <2>5 DEF DonesAgree
<1> QED
  BY <1>1, StoreInvariant, PTL

------------------------------------------------------------------------------
\* One run per directory.

Alone == \A r, s \in active : Workdir[r] = Workdir[s] => r = s

\* Only a start makes a run active.
LEMMA OnlyStartAdds == Typing /\ [Next]_vars => active' \subseteq active \/ \E r \in Runs : Start(r)
<1> SUFFICES ASSUME Typing, [Next]_vars PROVE active' \subseteq active \/ \E r \in Runs : Start(r)
  OBVIOUS
<1>1. CASE UNCHANGED vars
  BY <1>1 DEF vars, run
<1>2. ASSUME NEW r \in Runs, RunStep(r) PROVE active' \subseteq active
  <2>1. ASSUME NEW ok \in BOOLEAN, Opened(r, ok) PROVE active' \subseteq active
    <3>1. r \in active
      BY <2>1 DEF Typing, RunsTyped, Opened
    <3> QED
      BY <2>1, <3>1 DEF Opened
  <2> QED
    BY <1>2, <2>1 DEF RunStep, StoreStep, GoesOn, Yields, Appended, AppendFails, CatchAppends, CatchFails, Closes,
                      ApprovalTimeout, Abort
<1>3. ASSUME NEW r \in Runs, RunThrows(r) \/ Approve(r) \/ Abort(r) PROVE active' \subseteq active
  BY <1>3 DEF RunThrows, Approve, Abort
<1>4. ASSUME NEW d \in Readers, Connect(d) \/ ReaderStep(d) \/ Drop(d) PROVE active' \subseteq active
  BY <1>4 DEF Connect, ReaderStep, ReadFile, Replay, replays, RepairReads, RepairAppends, Drop,
              unchangedRun, run
<1>5. CASE Kill
  BY <1>5 DEF Kill
<1> QED
  BY <1>1, <1>2, <1>3, <1>4, <1>5 DEF Next

\* Two runs in one directory never go on at once, whatever the directories and
\* however many starts there are (runs.ts:115-124).
THEOREM OneRunHere == Spec => []OneRunPerWorkdir
<1>1. Init => Alone
  BY DEF Init, Alone
<1>2. Typing /\ Alone /\ [Next]_vars => Alone'
  <2> SUFFICES ASSUME Typing, Alone, [Next]_vars PROVE Alone'
    OBVIOUS
  <2>1. CASE active' \subseteq active
    BY <2>1 DEF Alone
  <2>2. ASSUME NEW r \in Runs, Start(r) PROVE Alone'
    BY <2>2 DEF Start, Alone
  <2> QED
    BY <2>1, <2>2, OnlyStartAdds
<1>3. Inv => Typing
  BY TypeParts DEF Inv, Typing
<1>4. Typing /\ Alone => OneRunPerWorkdir
  BY DEF Typing, RunsTyped, Alone, OneRunPerWorkdir
<1> QED
  BY <1>1, <1>2, <1>3, <1>4, StoreInvariant, PTL DEF Spec
=============================================================================
