------------------------------ MODULE GuardProofs ------------------------------
(****************************************************************************)
(* What is proved of the read-before-edit guard, for any names and files,   *)
(* any length of a file and any number of calls.                            *)
(*                                                                          *)
(* GuardSafe speaks of what the model was shown, the guard of two sets and  *)
(* a count.  What makes it inductive is that they agree with the log of the *)
(* calls: a file is in reads exactly when a read or a write of it is in the *)
(* log; it is not in partReads exactly when the last of these showed it     *)
(* whole; the count of a name is the number of failed edits after its last  *)
(* success.                                                                 *)
(****************************************************************************)
EXTENDS Guard, FiniteSetTheorems, TLAPS

Ops   == {"read", "write", "edit"}
Shows == {"done", "over", "new"}
Tries == {"failed", "refused"}
Calls == [ op : Ops, path : Paths, how : Shows \cup Tries, from : Int, to : Int, of : Int,
           noted : BOOLEAN ]
Disk  == [Files -> {Absent} \cup 0 .. MaxLines]

\* A call that read or wrote a file, and one after which the model has all of it.
Showing(e, f) == FileOf[e.path] = f /\ e.how \in Shows /\ e.op # "edit"
WholeCall(e)  == e.op = "write" \/ (e.from = 1 /\ e.to = e.of)
Miss(e)       == e.op = "edit" /\ e.how = "failed"

\* In a log: the last call that showed a file, and the open misses of a name.
LastShowing(l, f, j) ==
  /\ j \in 1 .. Len(l) /\ Showing(l[j], f)
  /\ \A k \in 1 .. Len(l) : Showing(l[k], f) => k <= j
SeenWhole(l, f) == \E j \in 1 .. Len(l) : LastShowing(l, f, j) /\ WholeCall(l[j])
OpenMisses(l, p) ==
  {j \in 1 .. Len(l) : /\ l[j].path = p /\ Miss(l[j])
                       /\ \A k \in j .. Len(l) : l[k].path = p => l[k].how \in Tries}

StateRight ==
  /\ knobs \in Settings /\ disk \in Disk /\ reads \subseteq Files /\ partReads \subseteq reads
  /\ wasReset \in BOOLEAN /\ steps \in 0 .. MaxSteps /\ log \in Seq(Calls)
OffRight ==
  /\ ~knobs.guard => reads = {}
  /\ ~knobs.ranges => partReads = {}
ReadsRight ==
  knobs.guard =>
    \A f \in Files : /\ f \in reads <=> \E j \in 1 .. Len(log) : Showing(log[j], f)
                     /\ Of(f, 1 .. Len(log)) # {} => f \in reads
WholeRight ==
  knobs.guard /\ knobs.ranges =>
    \A f \in Files : f \in reads \ partReads <=> SeenWhole(log, f)
MissesRight ==
  /\ misses \in [Paths -> Nat]
  /\ \A p \in Paths : /\ misses[p] <= steps /\ IsFiniteSet(OpenMisses(log, p))
                      /\ misses[p] = Cardinality(OpenMisses(log, p))

\* What GuardSafe says of call i.
CallRight(i) ==
  LET c == log[i]  f == FileOf[c.path]
  IN
  /\ knobs.guard /\ knobs.ranges /\ c.how = "over" => \E j \in Before(i) : Latest(f, i, j) /\ Whole(j)
  /\ c.op = "write" /\ c.how = "refused" => ~\E j \in Before(i) : Latest(f, i, j) /\ Whole(j)
  /\ knobs.guard /\ (c.how = "over" \/ (c.op = "edit" /\ c.how = "done")) => Of(f, Before(i)) # {}
  /\ c.noted <=> c.op = "edit" /\ c.how = "failed" /\ Cardinality(MissesBefore(i)) >= Escalation
CallsRight == \A i \in 1 .. Len(log) : CallRight(i)

GuardInv ==
  StateRight /\ OffRight /\ ReadsRight /\ WholeRight /\ MissesRight /\ CallsRight

--------------------------------------------------------------------------------
\* A log with one call more.
LEMMA Grown ==
  ASSUME NEW l \in Seq(Calls), NEW e \in Calls
  PROVE  /\ Append(l, e) \in Seq(Calls) /\ Len(Append(l, e)) = Len(l) + 1
         /\ Append(l, e)[Len(l) + 1] = e
         /\ \A j \in 1 .. Len(l) : Append(l, e)[j] = l[j]
OBVIOUS

\* Its last call of a file is the new one if that shows it, else the one of
\* before.
LEMMA WholeGrows ==
  ASSUME NEW l \in Seq(Calls), NEW e \in Calls, NEW f, NEW m, m = Append(l, e)
  PROVE  /\ Showing(e, f) => (SeenWhole(m, f) <=> WholeCall(e))
         /\ ~Showing(e, f) => (SeenWhole(m, f) <=> SeenWhole(l, f))
<1> DEFINE n == Len(l)
<1>1. n \in Nat /\ Len(m) = n + 1 /\ m[n + 1] = e /\ \A j \in 1 .. n : m[j] = l[j]
  BY Grown
<1> HIDE DEF n
<1>2. ASSUME Showing(e, f) PROVE SeenWhole(m, f) <=> WholeCall(e)
  <2>1. LastShowing(m, f, n + 1)
    BY <1>1, <1>2 DEF LastShowing
  <2>2. ASSUME NEW j \in 1 .. Len(m), LastShowing(m, f, j) PROVE j = n + 1
    <3>1. j \in 1 .. n + 1 /\ n + 1 \in 1 .. n + 1 /\ n + 1 <= j
      BY <1>1, <1>2, <2>2 DEF LastShowing
    <3> QED
      BY <1>1, <3>1
  <2> QED
    BY <1>1, <2>1, <2>2 DEF SeenWhole
<1>3. ASSUME ~Showing(e, f) PROVE SeenWhole(m, f) <=> SeenWhole(l, f)
  <2>1. ASSUME NEW j \in 1 .. n PROVE LastShowing(m, f, j) <=> LastShowing(l, f, j)
    <3>1. j \in 1 .. Len(m) /\ j \in 1 .. Len(l) /\ m[j] = l[j]
      BY <1>1 DEF n
    <3>2. (\A k \in 1 .. Len(m) : Showing(m[k], f) => k <= j) <=> (\A k \in 1 .. Len(l) : Showing(l[k], f) => k <= j)
      <4>1. ASSUME NEW k \in 1 .. Len(m) PROVE k \in 1 .. n \/ m[k] = e
        BY <1>1
      <4>2. ASSUME NEW k \in 1 .. n PROVE k \in 1 .. Len(m) /\ m[k] = l[k]
        BY <1>1
      <4> QED
        BY <1>3, <4>1, <4>2 DEF n
    <3> QED
      BY <3>1, <3>2 DEF LastShowing
  <2>2. ~LastShowing(m, f, n + 1)
    BY <1>1, <1>3 DEF LastShowing
  <2>3. ASSUME NEW j \in 1 .. Len(m) PROVE j \in 1 .. n \/ j = n + 1
    BY <1>1
  <2>4. ASSUME SeenWhole(m, f) PROVE SeenWhole(l, f)
    <3>1. PICK j \in 1 .. Len(m) : LastShowing(m, f, j) /\ WholeCall(m[j])
      BY <2>4 DEF SeenWhole
    <3>2. j \in 1 .. n
      BY <2>2, <2>3, <3>1
    <3>3. LastShowing(l, f, j) /\ WholeCall(l[j])
      BY <1>1, <2>1, <3>1, <3>2
    <3> QED
      BY <3>2, <3>3 DEF SeenWhole, n
  <2>5. ASSUME SeenWhole(l, f) PROVE SeenWhole(m, f)
    <3>1. PICK j \in 1 .. n : LastShowing(l, f, j) /\ WholeCall(l[j])
      BY <2>5 DEF SeenWhole, n
    <3>2. LastShowing(m, f, j) /\ WholeCall(m[j]) /\ j \in 1 .. Len(m)
      BY <1>1, <2>1, <3>1
    <3> QED
      BY <3>2 DEF SeenWhole
  <2> QED
    BY <2>4, <2>5
<1> QED
  BY <1>2, <1>3

\* The open misses with the next call as one more.
OneMore(l, p) == OpenMisses(l, p) \cup {Len(l) + 1}

\* A success closes the misses of its name, a failed edit adds one, another call
\* leaves them.
LEMMA MissesGrow ==
  ASSUME NEW l \in Seq(Calls), NEW e \in Calls, NEW p, NEW m, m = Append(l, e)
  PROVE  /\ e.path = p /\ e.how \in Shows => OpenMisses(m, p) = {}
         /\ e.path = p /\ Miss(e) => OpenMisses(m, p) = OneMore(l, p)
         /\ e.path # p \/ (e.how \in Tries /\ ~Miss(e)) => OpenMisses(m, p) = OpenMisses(l, p)
<1> DEFINE n == Len(l)
<1>1. n \in Nat /\ Len(m) = n + 1 /\ m[n + 1] = e /\ \A j \in 1 .. n : m[j] = l[j]
  BY Grown
<1>2. "failed" \in Tries /\ "failed" \notin Shows /\ \A how \in Shows : how \notin Tries
  BY DEF Shows, Tries
<1> HIDE DEF n
<1>3. ASSUME NEW j \in 1 .. Len(m), e.path = p, e.how \in Shows PROVE j \notin OpenMisses(m, p)
  <2>1. n + 1 \in j .. Len(m)
    BY <1>1
  <2> QED
    BY <1>1, <1>2, <1>3, <2>1 DEF OpenMisses
<1>4. ASSUME NEW j \in 1 .. n, e.path # p \/ e.how \in Tries
      PROVE  j \in OpenMisses(m, p) <=> j \in OpenMisses(l, p)
  <2>1. j \in 1 .. Len(m) /\ j \in 1 .. Len(l) /\ m[j] = l[j]
    BY <1>1 DEF n
  <2>2. ASSUME NEW k \in j .. Len(m) PROVE k \in j .. n \/ m[k] = e
    BY <1>1
  <2>3. ASSUME NEW k \in j .. n PROVE k \in j .. Len(m) /\ m[k] = l[k]
    BY <1>1
  <2>4. (\A k \in j .. Len(m) : m[k].path = p => m[k].how \in Tries)
          <=> (\A k \in j .. Len(l) : l[k].path = p => l[k].how \in Tries)
    BY <1>4, <2>2, <2>3 DEF n
  <2> QED
    BY <2>1, <2>4 DEF OpenMisses
<1>5. n + 1 \in OpenMisses(m, p) <=> e.path = p /\ Miss(e)
  <2>1. n + 1 \in 1 .. Len(m) /\ \A k \in n + 1 .. Len(m) : k = n + 1
    BY <1>1
  <2> QED
    BY <1>1, <1>2, <2>1 DEF OpenMisses, Miss
<1>6. OpenMisses(m, p) \subseteq 1 .. n \cup {n + 1} /\ OpenMisses(l, p) \subseteq 1 .. n
  <2>1. 1 .. Len(m) = 1 .. n \cup {n + 1}
    BY <1>1
  <2> QED
    BY <2>1 DEF OpenMisses, n
<1>7. n + 1 \notin 1 .. n
  BY <1>1
<1>8. ASSUME e.path = p, e.how \in Shows PROVE OpenMisses(m, p) = {}
  BY <1>3, <1>8 DEF OpenMisses
<1>9. ASSUME e.path = p, Miss(e) PROVE OpenMisses(m, p) = OpenMisses(l, p) \cup {n + 1}
  <2>1. e.how \in Tries
    BY <1>2, <1>9 DEF Miss
  <2> QED
    BY <1>4, <1>5, <1>6, <1>9, <2>1
<1>10. ASSUME e.path # p \/ (e.how \in Tries /\ ~Miss(e)) PROVE OpenMisses(m, p) = OpenMisses(l, p)
  BY <1>4, <1>5, <1>6, <1>7, <1>10
<1>11. OneMore(l, p) = OpenMisses(l, p) \cup {n + 1}
  BY DEF OneMore, n
<1> QED
  BY <1>8, <1>9, <1>10, <1>11

--------------------------------------------------------------------------------
\* What is said of a call depends on the log up to it only.
LEMMA CallStays ==
  ASSUME log \in Seq(Calls), NEW e \in Calls, log' = Append(log, e), knobs' = knobs,
         NEW i \in 1 .. Len(log), CallRight(i)
  PROVE  CallRight(i)'
<1>1. Len(log) \in Nat /\ \A j \in 1 .. Len(log) : log'[j] = log[j]
  BY Grown
<1>2. ASSUME NEW j \in 1 .. i PROVE log'[j] = log[j]
  BY <1>1
<1>3. Before(i) \subseteq 1 .. i /\ i \in 1 .. i
  BY <1>1 DEF Before
<1>4. ASSUME NEW f PROVE Of(f, Before(i))' = Of(f, Before(i))
  BY <1>2, <1>3 DEF Of, Before
<1>5. ASSUME NEW f, NEW j \in Before(i) PROVE Latest(f, i, j)' <=> Latest(f, i, j)
  <2>1. Of(f, Before(i)) \subseteq Before(i)
    BY DEF Of
  <2> QED
    BY <1>2, <1>3, <1>4, <2>1 DEF Latest
<1>6. ASSUME NEW j \in Before(i) PROVE Whole(j)' <=> Whole(j)
  BY <1>2, <1>3 DEF Whole
<1>7. MissesBefore(i)' = MissesBefore(i)
  <2>1. ASSUME NEW j \in 1 .. i, NEW k \in j .. i PROVE log'[k] = log[k]
    BY <1>1, <1>2
  <2> QED
    BY <1>2, <1>3, <2>1 DEF MissesBefore
<1>8. log'[i] = log[i]
  BY <1>2, <1>3
<1> DEFINE f == FileOf[log[i].path]
           seen == \E j \in Before(i) : Latest(f, i, j) /\ Whole(j)
<1>9. (\E j \in Before(i) : Latest(f, i, j)' /\ Whole(j)') <=> seen
  BY <1>5, <1>6
<1>10. Of(f, Before(i))' = Of(f, Before(i))
  BY <1>4
<1> QED
  BY <1>7, <1>8, <1>9, <1>10 DEF CallRight

\* What is said of the call that comes is said of the log before it.
LEMMA CallComes ==
  ASSUME log \in Seq(Calls), NEW e \in Calls, log' = Append(log, e), NEW i \in Nat, i = Len(log) + 1,
         NEW f
  PROVE  /\ (\E j \in Before(i) : Latest(f, i, j)' /\ Whole(j)') <=> SeenWhole(log, f)
         /\ Of(f, Before(i))' = Of(f, 1 .. Len(log))
         /\ Miss(e) => MissesBefore(i)' = OpenMisses(log, e.path) \cup {i}
<1>1. Len(log) \in Nat /\ log'[i] = e /\ \A j \in 1 .. Len(log) : log'[j] = log[j]
  BY Grown
<1>2. Before(i) = 1 .. Len(log)
  BY <1>1 DEF Before
<1>3. Of(f, Before(i))' = Of(f, 1 .. Len(log))
  BY <1>1, <1>2 DEF Of, Before
<1>4. ASSUME NEW j \in Before(i) PROVE Whole(j)' <=> WholeCall(log[j])
  BY <1>1, <1>2 DEF Whole, WholeCall
<1>5. ASSUME NEW j \in Before(i) PROVE Latest(f, i, j)' <=> LastShowing(log, f, j)
  <2>1. ASSUME NEW k \in Before(i)
        PROVE  (k \in Of(f, Before(i)))' /\ log'[k].op # "edit" <=> Showing(log[k], f)
    BY <1>1, <1>2, <1>3 DEF Of, Showing, Shows
  <2>2. Of(f, Before(i))' \subseteq Before(i)
    BY <1>2, <1>3 DEF Of
  <2>3. Latest(f, i, j)' <=> /\ j \in Of(f, Before(i))' /\ log'[j].op # "edit"
                             /\ \A k \in Of(f, Before(i))' : log'[k].op # "edit" => k <= j
    BY DEF Latest
  <2> QED
    BY <1>2, <2>1, <2>2, <2>3 DEF LastShowing
<1>6. (\E j \in Before(i) : Latest(f, i, j)' /\ Whole(j)') <=> SeenWhole(log, f)
  BY <1>2, <1>4, <1>5 DEF SeenWhole
<1>7. ASSUME Miss(e) PROVE MissesBefore(i)' = OpenMisses(log, e.path) \cup {i}
  <2>1. OpenMisses(log', e.path) = OneMore(log, e.path)
    BY <1>7, MissesGrow
  <2>2. Len(log') = i
    BY Grown
  <2>3. MissesBefore(i)' = OpenMisses(log', e.path)
    BY <1>1, <2>2 DEF MissesBefore, OpenMisses, Miss, Tries
  <2> QED
    BY <2>1, <2>3 DEF OneMore
<1> QED
  BY <1>3, <1>6, <1>7

--------------------------------------------------------------------------------
\* What a call does to the sets and to the count, and what it is logged as.
Remembers(e, f) ==
  /\ Showing(e, f) =>
       /\ knobs.guard => reads' = reads \cup {f}
       /\ knobs.guard /\ knobs.ranges => partReads' = IF WholeCall(e) THEN partReads \ {f} ELSE partReads \cup {f}
  /\ ~Showing(e, f) => reads' = reads /\ partReads' = partReads
  /\ ~knobs.guard => reads' = reads
  /\ ~(knobs.guard /\ knobs.ranges) => partReads' \subseteq partReads
Counts(e) ==
  /\ misses' \in [Paths -> Nat]
  /\ \A p \in Paths : misses'[p] = IF p # e.path THEN misses[p]
                                   ELSE IF Miss(e) THEN misses[p] + 1
                                   ELSE IF e.how \in Shows THEN 0 ELSE misses[p]
Agrees(e, f) ==
  /\ knobs.guard /\ knobs.ranges /\ e.how = "over" => f \in reads \ partReads
  /\ e.op = "write" /\ e.how = "refused" => knobs.guard /\ f \notin reads \ partReads
  /\ knobs.guard /\ (e.how = "over" \/ (e.op = "edit" /\ e.how \in Shows)) => f \in reads
  /\ e.noted <=> Miss(e) /\ misses[e.path] + 1 >= Escalation

LEMMA ReadsFollow ==
  ASSUME StateRight, OffRight, ReadsRight, WholeRight, NEW e \in Calls, NEW f \in Files, f = FileOf[e.path],
         log' = Append(log, e), knobs' = knobs, Remembers(e, f), Agrees(e, f)
  PROVE  /\ reads' \subseteq Files /\ partReads' \subseteq reads'
         /\ OffRight' /\ ReadsRight' /\ WholeRight'
<1> DEFINE n == Len(log)
<1>1. log \in Seq(Calls) /\ reads \subseteq Files /\ partReads \subseteq reads
  BY DEF StateRight
<1>2. n \in Nat /\ Len(log') = n + 1 /\ log'[n + 1] = e /\ \A j \in 1 .. n : log'[j] = log[j]
  BY <1>1, Grown
<1> HIDE DEF n
<1>3. reads' \subseteq Files
  BY <1>1 DEF Remembers
<1>4. partReads' \subseteq reads'
  BY <1>1 DEF Remembers, OffRight
<1>5. OffRight'
  BY DEF Remembers, OffRight
<1>6. ASSUME NEW g PROVE Showing(e, g) => g = f
  BY DEF Showing
<1>7. ReadsRight'
  <2> SUFFICES ASSUME knobs.guard, NEW g \in Files
               PROVE  /\ g \in reads' <=> \E j \in 1 .. Len(log') : Showing(log'[j], g)
                      /\ Of(g, 1 .. Len(log))' # {} => g \in reads'
    BY DEF ReadsRight
  <2>1. /\ g \in reads <=> \E j \in 1 .. n : Showing(log[j], g)
        /\ Of(g, 1 .. n) # {} => g \in reads
    BY DEF ReadsRight, n
  <2>2. (\E j \in 1 .. Len(log') : Showing(log'[j], g)) <=> Showing(e, g) \/ \E j \in 1 .. n : Showing(log[j], g)
    <3>1. ASSUME NEW j \in 1 .. Len(log') PROVE j \in 1 .. n \/ j = n + 1
      BY <1>2
    <3>2. 1 .. n \subseteq 1 .. Len(log') /\ n + 1 \in 1 .. Len(log')
      BY <1>2
    <3> QED
      BY <1>2, <3>1, <3>2
  <2>3. g \in reads' <=> Showing(e, g) \/ g \in reads
    BY <1>6 DEF Remembers
  <2>4. ASSUME NEW j \in Of(g, 1 .. Len(log))' PROVE g \in reads'
    <3>1. j \in 1 .. Len(log') /\ FileOf[log'[j].path] = g /\ log'[j].how \in Shows
      BY <2>4 DEF Of, Shows
    <3>2. CASE j \in 1 .. n
      <4>1. j \in Of(g, 1 .. n)
        BY <1>2, <3>1, <3>2 DEF Of, Shows
      <4> QED
        BY <2>1, <2>3, <4>1
    <3>3. CASE j = n + 1
      <4>1. g = f /\ e.how \in Shows
        BY <1>2, <3>1, <3>3
      <4>2. CASE e.op = "edit"
        BY <2>3, <4>1, <4>2 DEF Agrees
      <4>3. CASE e.op # "edit"
        BY <2>3, <4>1, <4>3 DEF Showing
      <4> QED
        BY <4>2, <4>3
    <3> QED
      BY <1>2, <3>1, <3>2, <3>3
  <2> QED
    BY <2>1, <2>2, <2>3, <2>4
<1>8. WholeRight'
  <2> SUFFICES ASSUME knobs.guard, knobs.ranges, NEW g \in Files
               PROVE  g \in reads' \ partReads' <=> SeenWhole(log', g)
    BY DEF WholeRight
  <2>1. g \in reads \ partReads <=> SeenWhole(log, g)
    BY DEF WholeRight
  <2>2. /\ Showing(e, g) => (SeenWhole(log', g) <=> WholeCall(e))
        /\ ~Showing(e, g) => (SeenWhole(log', g) <=> SeenWhole(log, g))
    BY <1>1, WholeGrows
  <2>3. CASE Showing(e, g)
    <3>1. g = f
      BY <1>6, <2>3
    <3> QED
      BY <2>2, <2>3, <3>1 DEF Remembers
  <2>4. CASE ~Showing(e, g)
    <3>1. g \in reads' \ partReads' <=> g \in reads \ partReads
      <4>1. CASE g = f
        BY <2>4, <4>1 DEF Remembers
      <4>2. CASE g # f
        BY <4>2 DEF Remembers
      <4> QED
        BY <4>1, <4>2
    <3> QED
      BY <2>1, <2>2, <2>4, <3>1
  <2> QED
    BY <2>3, <2>4
<1> QED
  BY <1>3, <1>4, <1>5, <1>7, <1>8

\* The count of a name stays that of its open misses.
LEMMA OneMissMore ==
  ASSUME MissesRight, log \in Seq(Calls), NEW p \in Paths
  PROVE  /\ IsFiniteSet(OpenMisses(log, p) \cup {Len(log) + 1})
         /\ Cardinality(OpenMisses(log, p) \cup {Len(log) + 1}) = misses[p] + 1
<1>1. Len(log) + 1 \notin OpenMisses(log, p)
  BY DEF OpenMisses
<1>2. IsFiniteSet(OpenMisses(log, p)) /\ misses[p] = Cardinality(OpenMisses(log, p))
  BY DEF MissesRight
<1> QED
  BY <1>1, <1>2, FS_AddElement

LEMMA MissesFollow ==
  ASSUME MissesRight, log \in Seq(Calls), NEW e \in Calls, log' = Append(log, e),
         steps \in Nat, steps' = steps + 1, Counts(e)
  PROVE  MissesRight'
<1>1. misses' \in [Paths -> Nat] /\ misses \in [Paths -> Nat]
  BY DEF Counts, MissesRight
<1>2. ASSUME NEW p \in Paths
      PROVE  /\ misses'[p] <= steps' /\ IsFiniteSet(OpenMisses(log', p))
             /\ misses'[p] = Cardinality(OpenMisses(log', p))
  <2>1. /\ misses[p] <= steps /\ IsFiniteSet(OpenMisses(log, p)) /\ misses[p] \in Nat
        /\ misses[p] = Cardinality(OpenMisses(log, p))
    BY <1>1 DEF MissesRight
  <2>2. /\ e.path = p /\ e.how \in Shows => OpenMisses(log', p) = {}
        /\ e.path = p /\ Miss(e) => OpenMisses(log', p) = OpenMisses(log, p) \cup {Len(log) + 1}
        /\ e.path # p \/ (e.how \in Tries /\ ~Miss(e)) => OpenMisses(log', p) = OpenMisses(log, p)
    <3>1. ASSUME e.path = p, e.how \in Shows PROVE OpenMisses(log', p) = {}
      BY <3>1, MissesGrow
    <3>2. ASSUME e.path = p, Miss(e) PROVE OpenMisses(log', p) = OpenMisses(log, p) \cup {Len(log) + 1}
      <4>1. OpenMisses(log', p) = OneMore(log, p)
        BY <3>2, MissesGrow
      <4> QED
        BY <4>1 DEF OneMore
    <3>3. ASSUME e.path # p \/ (e.how \in Tries /\ ~Miss(e)) PROVE OpenMisses(log', p) = OpenMisses(log, p)
      BY <3>3, MissesGrow
    <3> QED
      BY <3>1, <3>2, <3>3
  <2>3. misses'[p] = IF p # e.path THEN misses[p]
                     ELSE IF Miss(e) THEN misses[p] + 1
                     ELSE IF e.how \in Shows THEN 0 ELSE misses[p]
    BY DEF Counts
  <2>4. CASE e.path = p /\ Miss(e)
    <3>1. misses'[p] = misses[p] + 1 /\ OpenMisses(log', p) = OpenMisses(log, p) \cup {Len(log) + 1}
      BY <2>2, <2>3, <2>4
    <3>2. misses'[p] <= steps'
      BY <2>1, <3>1
    <3> QED
      BY <3>1, <3>2, OneMissMore
  <2>5. CASE e.path = p /\ e.how \in Shows /\ ~Miss(e)
    <3>1. misses'[p] = 0 /\ OpenMisses(log', p) = {}
      BY <2>2, <2>3, <2>5
    <3>2. 0 <= steps'
      BY <2>1
    <3> QED
      BY <3>1, <3>2, FS_EmptySet
  <2>6. CASE e.path # p \/ (e.how \in Tries /\ ~Miss(e))
    <3>1. misses'[p] = misses[p] /\ OpenMisses(log', p) = OpenMisses(log, p)
      BY <2>2, <2>3, <2>6 DEF Shows, Tries
    <3>2. misses'[p] <= steps'
      BY <2>1, <3>1
    <3> QED
      BY <2>1, <3>1, <3>2
  <2>7. e.how \in Shows \/ e.how \in Tries
    BY DEF Calls
  <2> QED
    BY <2>4, <2>5, <2>6, <2>7
<1> QED
  BY <1>1, <1>2 DEF MissesRight

\* What is said of the calls is said of the one that comes.
LEMMA CallsFollow ==
  ASSUME GuardInv, NEW e \in Calls, NEW f \in Files, f = FileOf[e.path], log' = Append(log, e), knobs' = knobs,
         Agrees(e, f)
  PROVE  CallsRight'
<1>1. log \in Seq(Calls)
  BY DEF GuardInv, StateRight
<1>2. Len(log) \in Nat /\ Len(log') = Len(log) + 1 /\ log'[Len(log) + 1] = e
  BY <1>1, Grown
<1>3. ASSUME NEW i \in Nat, i = Len(log) + 1 PROVE CallRight(i)'
  <2>1. /\ (\E j \in Before(i) : Latest(f, i, j)' /\ Whole(j)') <=> SeenWhole(log, f)
        /\ Of(f, Before(i))' = Of(f, 1 .. Len(log))
        /\ Miss(e) => MissesBefore(i)' = OpenMisses(log, e.path) \cup {i}
    BY <1>1, <1>3, CallComes
  <2>2. knobs.guard /\ knobs.ranges => (f \in reads \ partReads <=> SeenWhole(log, f))
    BY DEF GuardInv, WholeRight
  <2>3. knobs.guard => /\ f \in reads <=> \E j \in 1 .. Len(log) : Showing(log[j], f)
                       /\ Of(f, 1 .. Len(log)) # {} => f \in reads
    BY DEF GuardInv, ReadsRight
  <2>4. SeenWhole(log, f) => \E j \in 1 .. Len(log) : Showing(log[j], f)
    BY DEF SeenWhole, LastShowing
  <2>5. (\E j \in 1 .. Len(log) : Showing(log[j], f)) => Of(f, 1 .. Len(log)) # {}
    BY DEF Showing, Shows, Of
  <2>6. knobs.guard /\ knobs.ranges /\ e.how = "over" => SeenWhole(log, f)
    BY <2>2 DEF Agrees
  <2>7. e.op = "write" /\ e.how = "refused" => ~SeenWhole(log, f)
    <3> SUFFICES ASSUME knobs.guard, f \notin reads \ partReads PROVE ~SeenWhole(log, f)
      BY DEF Agrees
    <3>1. CASE knobs.ranges
      BY <2>2, <3>1
    <3>2. CASE ~knobs.ranges
      <4>1. f \notin reads
        BY <3>2 DEF GuardInv, OffRight
      <4> QED
        BY <2>3, <2>4, <4>1
    <3> QED
      BY <3>1, <3>2
  <2>8. knobs.guard /\ (e.how = "over" \/ (e.op = "edit" /\ e.how = "done")) => Of(f, 1 .. Len(log)) # {}
    BY <2>3, <2>5 DEF Agrees, Shows
  <2>9. e.noted <=> Miss(e) /\ Cardinality(MissesBefore(i)') >= Escalation
    <3>1. CASE Miss(e)
      <4>1. e.path \in Paths
        BY DEF Calls
      <4>2. Cardinality(MissesBefore(i)') = misses[e.path] + 1
        BY <1>1, <1>3, <2>1, <3>1, <4>1, OneMissMore DEF GuardInv
      <4> QED
        BY <3>1, <4>2 DEF Agrees
    <3>2. CASE ~Miss(e)
      BY <3>2 DEF Agrees
    <3> QED
      BY <3>1, <3>2
  <2>10. log'[i] = e
    BY <1>2, <1>3
  <2> QED
    BY <2>1, <2>6, <2>7, <2>8, <2>9, <2>10 DEF CallRight, Miss
<1>4. ASSUME NEW i \in 1 .. Len(log') PROVE CallRight(i)'
  <2>1. CASE i \in 1 .. Len(log)
    <3>1. CallRight(i)
      BY <2>1 DEF GuardInv, CallsRight
    <3> QED
      BY <1>1, <2>1, <3>1, CallStays
  <2>2. CASE i = Len(log) + 1
    BY <1>2, <1>3, <2>2
  <2> QED
    BY <1>2, <2>1, <2>2
<1> QED
  BY <1>4 DEF CallsRight

\* A call that does all that keeps the invariant.
LEMMA CallKeeps ==
  ASSUME GuardInv, NEW e \in Calls, NEW f \in Files, f = FileOf[e.path], Step, log' = Append(log, e),
         disk' \in Disk, Remembers(e, f), Counts(e), Agrees(e, f)
  PROVE  GuardInv'
<1>1. /\ knobs' = knobs /\ wasReset' = wasReset /\ steps' = steps + 1 /\ steps \in Nat /\ steps' \in 0 .. MaxSteps
      /\ log \in Seq(Calls) /\ log' \in Seq(Calls)
  BY GuardAssumption DEF Step, GuardInv, StateRight
<1>2. /\ reads' \subseteq Files /\ partReads' \subseteq reads'
      /\ OffRight' /\ ReadsRight' /\ WholeRight'
  BY <1>1, ReadsFollow DEF GuardInv
<1>3. MissesRight'
  BY <1>1, MissesFollow DEF GuardInv
<1>4. CallsRight'
  BY <1>1, CallsFollow
<1>5. StateRight'
  BY <1>1, <1>2 DEF GuardInv, StateRight
<1> QED
  BY <1>2, <1>3, <1>4, <1>5 DEF GuardInv

--------------------------------------------------------------------------------
\* The calls.
Call(op, p, how, from, to, of, noted) ==
  [op |-> op, path |-> p, how |-> how, from |-> from, to |-> to, of |-> of, noted |-> noted]

LEMMA CallRecord ==
  ASSUME NEW op \in Ops, NEW p \in Paths, NEW how \in Shows \cup Tries, NEW from \in Int, NEW to \in Int,
         NEW of \in Int, NEW noted \in BOOLEAN
  PROVE  Call(op, p, how, from, to, of, noted) \in Calls
BY DEF Call, Calls

LEMMA FailsKeeps ==
  ASSUME GuardInv, NEW p \in Paths, NEW op \in Ops, Fails(op, p)
  PROVE  GuardInv'
<1> DEFINE noted == (op = "edit" /\ misses[p] + 1 >= Escalation)
           e     == Call(op, p, "failed", 0, 0, 0, noted)
           f     == FileOf[p]
<1>1. /\ Step /\ log' = Append(log, e) /\ UNCHANGED <<disk, reads, partReads>>
      /\ IF op = "edit" THEN Missed(p) ELSE UNCHANGED misses
  BY DEF Fails, Logged, Call
<1>2. noted \in BOOLEAN /\ f \in Files
  BY DEF Files
<1>3. e \in Calls
  <2>1. "failed" \in Shows \cup Tries /\ 0 \in Int
    BY DEF Tries
  <2> HIDE DEF noted
  <2> QED
    BY <1>2, <2>1, CallRecord
<1>4. e.op = op /\ e.path = p /\ e.how = "failed" /\ e.noted = noted
  BY DEF Call
<1>5. "failed" \notin Shows
  BY DEF Shows
<1> HIDE DEF e
<1>6. disk' \in Disk
  BY <1>1 DEF GuardInv, StateRight
<1>7. Remembers(e, f)
  BY <1>1, <1>4, <1>5 DEF Remembers, Showing
<1>8. Counts(e)
  BY <1>1, <1>4, <1>5 DEF Counts, Missed, Miss, GuardInv, MissesRight
<1>9. Agrees(e, f)
  BY <1>4, <1>5 DEF Agrees, Miss
<1> QED
  BY <1>1, <1>2, <1>3, <1>4, <1>6, <1>7, <1>8, <1>9, CallKeeps

\* The settings of a run and the lines of a file.
LEMMA KnobsAndLines ==
  ASSUME GuardInv, NEW p \in Paths
  PROVE  /\ knobs.guard \in BOOLEAN /\ knobs.ranges \in BOOLEAN /\ knobs.cap \in Nat \ {0} /\ knobs.cut \in Nat
         /\ FileOf[p] \in Files /\ disk[FileOf[p]] \in {Absent} \cup 0 .. MaxLines
         /\ disk \in Disk /\ misses \in [Paths -> Nat]
<1>1. knobs \in [guard : BOOLEAN, ranges : BOOLEAN, cap : Nat \ {0}, cut : Nat]
  BY GuardAssumption DEF GuardInv, StateRight
<1>2. FileOf[p] \in Files
  BY DEF Files
<1>3. disk \in Disk /\ misses \in [Paths -> Nat]
  BY DEF GuardInv, StateRight, MissesRight
<1> QED
  BY <1>1, <1>2, <1>3 DEF Disk

LEMMA ReadKeeps ==
  ASSUME GuardInv, NEW p \in Paths, NEW start \in 1 .. MaxLines + 1, NEW end \in 0 .. MaxLines,
         ReadFile(p, start, end)
  PROVE  GuardInv'
<1> DEFINE f     == FileOf[p]
           total == Least(disk[f], knobs.cap)
           last  == Least(end, total)
           shown == IF start > total THEN 0 ELSE last - start + 1
           cut   == shown > knobs.cut
           part  == start > 1 \/ end < total \/ disk[f] > knobs.cap
           to    == IF cut THEN start + knobs.cut - 1 ELSE last
           e     == Call("read", p, "done", start, to, disk[f], FALSE)
<1>1. /\ Step /\ disk[f] # Absent /\ UNCHANGED disk /\ Succeeded(p)
      /\ IF knobs.ranges THEN end >= start ELSE start = 1 /\ end = MaxLines
      /\ reads' = (IF knobs.guard THEN reads \cup {f} ELSE reads)
      /\ partReads' = IF knobs.guard /\ knobs.ranges THEN PartRead(f, part, cut) ELSE partReads
      /\ log' = Append(log, e)
  BY DEF ReadFile, Logged, Call
<1>2. /\ knobs.cap \in Nat \ {0} /\ knobs.cut \in Nat /\ f \in Files /\ disk[f] \in Nat
      /\ disk \in Disk /\ misses \in [Paths -> Nat]
  BY <1>1, KnobsAndLines, GuardAssumption
<1>3. start \in Nat \ {0} /\ end \in Nat /\ end >= start
  BY <1>1, GuardAssumption
\* A read is of the whole file exactly when no line of it is hidden.
<1>4. to \in Int /\ (part \/ cut <=> ~(start = 1 /\ to = disk[f]))
  <2>1. /\ total \in Nat /\ (disk[f] <= knobs.cap => total = disk[f])
        /\ (disk[f] > knobs.cap => total = knobs.cap)
    BY <1>2 DEF Least
  <2> HIDE DEF total
  <2>2. last \in Nat /\ last <= total /\ last <= end /\ (last = end \/ last = total)
    BY <1>3, <2>1 DEF Least
  <2> HIDE DEF last
  <2>3. to \in Int
    BY <1>2, <1>3, <2>2
  <2>4. CASE start > 1
    BY <2>3, <2>4
  <2>5. CASE start = 1
    <3>1. shown \in Nat /\ shown <= last
      BY <1>3, <2>1, <2>2, <2>5
    <3>2. CASE cut
      BY <1>2, <1>3, <2>1, <2>2, <2>5, <3>1, <3>2
    <3>3. CASE ~cut
      BY <1>2, <1>3, <2>1, <2>2, <2>5, <3>1, <3>3
    <3> QED
      BY <3>2, <3>3
  <2> QED
    BY <1>3, <2>3, <2>4, <2>5
<1> HIDE DEF to, part, cut
<1>5. e \in Calls
  <2>1. /\ "read" \in Ops /\ "done" \in Shows \cup Tries /\ start \in Int /\ disk[f] \in Int
        /\ FALSE \in BOOLEAN
    BY <1>2, <1>3 DEF Ops, Shows
  <2> QED
    BY <1>4, <2>1, CallRecord
<1>6. /\ e.op = "read" /\ e.path = p /\ e.how = "done" /\ e.noted = FALSE
      /\ e.from = start /\ e.to = to /\ e.of = disk[f]
  BY DEF Call
<1>7. "done" \in Shows
  BY DEF Shows
<1> HIDE DEF e
<1>8. disk' \in Disk
  BY <1>1, <1>2
<1>9. Remembers(e, f)
  <2>1. WholeCall(e) <=> ~(part \/ cut)
    BY <1>4, <1>6 DEF WholeCall
  <2>2. Showing(e, f)
    BY <1>6, <1>7 DEF Showing
  <2> QED
    BY <1>1, <2>1, <2>2 DEF Remembers, PartRead
<1>10. Counts(e)
  BY <1>1, <1>2, <1>6, <1>7 DEF Counts, Succeeded, Miss
<1>11. Agrees(e, f)
  BY <1>6 DEF Agrees, Miss
<1> QED
  BY <1>1, <1>2, <1>5, <1>6, <1>8, <1>9, <1>10, <1>11, CallKeeps

LEMMA WriteKeeps ==
  ASSUME GuardInv, NEW p \in Paths, NEW n \in {0, MaxLines}, WriteFile(p, n)
  PROVE  GuardInv'
<1> DEFINE f       == FileOf[p]
           old     == disk[f] # Absent
           blocked == knobs.guard /\ old /\ (f \notin reads \/ f \in partReads)
<1>1. /\ knobs.guard \in BOOLEAN /\ f \in Files /\ disk[f] \in Int
      /\ disk \in Disk /\ misses \in [Paths -> Nat] /\ n \in 0 .. MaxLines /\ n \in Int
  BY KnobsAndLines, GuardAssumption DEF Absent
<1>2. /\ "refused" \in Shows \cup Tries /\ "write" \in Ops /\ "refused" \notin Shows
      /\ 0 \in Int /\ 1 \in Int /\ FALSE \in BOOLEAN
  BY DEF Shows, Tries, Ops
<1>3. CASE blocked
  <2> DEFINE e == Call("write", p, "refused", 0, 0, disk[f], FALSE)
  <2>1. Step /\ log' = Append(log, e) /\ UNCHANGED <<disk, reads, partReads, misses>>
    BY <1>3 DEF WriteFile, Logged, Call
  <2>2. e \in Calls
    BY <1>1, <1>2, CallRecord
  <2>3. e.op = "write" /\ e.path = p /\ e.how = "refused" /\ e.noted = FALSE
    BY DEF Call
  <2> HIDE DEF e
  <2>4. disk' \in Disk
    BY <1>1, <2>1
  <2>5. Remembers(e, f)
    BY <1>2, <2>1, <2>3 DEF Remembers, Showing
  <2>6. Counts(e)
    BY <1>1, <1>2, <2>1, <2>3 DEF Counts, Miss
  <2>7. Agrees(e, f)
    BY <1>3, <2>3 DEF Agrees, Miss
  <2> QED
    BY <1>1, <2>1, <2>2, <2>3, <2>4, <2>5, <2>6, <2>7, CallKeeps
<1>4. CASE ~blocked
  <2> DEFINE how == IF old THEN "over" ELSE "new"
             e   == Call("write", p, how, 1, n, n, FALSE)
  <2>1. /\ Step /\ log' = Append(log, e) /\ disk' = [disk EXCEPT ![f] = n] /\ Succeeded(p)
        /\ reads' = (IF knobs.guard THEN reads \cup {f} ELSE reads) /\ partReads' = partReads \ {f}
    BY <1>4 DEF WriteFile, Logged, Call
  <2>2. how \in Shows \cup Tries /\ how \in Shows /\ how # "refused" /\ how # "failed" /\ (how = "over" => old)
    BY DEF Shows
  <2> HIDE DEF how
  <2>3. e \in Calls
    BY <1>1, <1>2, <2>2, CallRecord
  <2>4. e.op = "write" /\ e.path = p /\ e.how = how /\ e.noted = FALSE
    BY DEF Call
  <2> HIDE DEF e
  <2>5. disk' \in Disk
    BY <1>1, <2>1 DEF Disk
  <2>6. Remembers(e, f)
    BY <2>1, <2>2, <2>4 DEF Remembers, Showing, WholeCall
  <2>7. Counts(e)
    BY <1>1, <2>1, <2>2, <2>4 DEF Counts, Succeeded, Miss
  <2>8. Agrees(e, f)
    BY <1>4, <2>2, <2>4 DEF Agrees, Miss
  <2> QED
    BY <1>1, <2>1, <2>3, <2>4, <2>5, <2>6, <2>7, <2>8, CallKeeps
<1> QED
  BY <1>3, <1>4

LEMMA EditKeeps ==
  ASSUME GuardInv, NEW p \in Paths, NEW n \in {Absent, MaxLines}, EditFile(p, n)
  PROVE  GuardInv'
<1> DEFINE f == FileOf[p]
<1>1. /\ f \in Files /\ disk[f] \in Int /\ disk \in Disk /\ misses \in [Paths -> Nat]
      /\ n \in {Absent} \cup 0 .. MaxLines /\ n \in Int
  BY KnobsAndLines, GuardAssumption DEF Absent
<1>2. /\ "refused" \in Shows \cup Tries /\ "failed" \in Shows \cup Tries /\ "done" \in Shows \cup Tries
      /\ "edit" \in Ops /\ 0 \in Int /\ FALSE \in BOOLEAN
      /\ "done" \in Shows /\ "refused" \notin Shows /\ "failed" \notin Shows
  BY DEF Shows, Tries, Ops
<1>3. CASE knobs.guard /\ f \notin reads
  <2> DEFINE e == Call("edit", p, "refused", 0, 0, disk[f], FALSE)
  <2>1. Step /\ log' = Append(log, e) /\ UNCHANGED <<disk, reads, partReads, misses>>
    BY <1>3 DEF EditFile, Logged, Call
  <2>2. e \in Calls
    BY <1>1, <1>2, CallRecord
  <2>3. e.op = "edit" /\ e.path = p /\ e.how = "refused" /\ e.noted = FALSE
    BY DEF Call
  <2> HIDE DEF e
  <2>4. disk' \in Disk
    BY <1>1, <2>1
  <2>5. Remembers(e, f)
    BY <2>1, <2>3 DEF Remembers, Showing
  <2>6. Counts(e)
    BY <1>1, <1>2, <2>1, <2>3 DEF Counts, Miss
  <2>7. Agrees(e, f)
    BY <1>2, <2>3 DEF Agrees, Miss
  <2> QED
    BY <1>1, <2>1, <2>2, <2>3, <2>4, <2>5, <2>6, <2>7, CallKeeps
<1>4. CASE ~(knobs.guard /\ f \notin reads) /\ (n = Absent \/ disk[f] = Absent)
  <2> DEFINE noted == (misses[p] + 1 >= Escalation)
             e     == Call("edit", p, "failed", 0, 0, disk[f], noted)
  <2>1. Step /\ log' = Append(log, e) /\ UNCHANGED <<disk, reads, partReads>> /\ Missed(p)
    BY <1>4 DEF EditFile, Logged, Call
  <2>2. noted \in BOOLEAN
    OBVIOUS
  <2>3. e \in Calls
    <3> HIDE DEF noted
    <3> QED
      BY <1>1, <1>2, <2>2, CallRecord
  <2>4. e.op = "edit" /\ e.path = p /\ e.how = "failed" /\ e.noted = noted
    BY DEF Call
  <2> HIDE DEF e
  <2>5. disk' \in Disk
    BY <1>1, <2>1
  <2>6. Remembers(e, f)
    BY <2>1, <2>4 DEF Remembers, Showing
  <2>7. Counts(e)
    BY <1>1, <2>1, <2>4 DEF Counts, Missed, Miss
  <2>8. Agrees(e, f)
    BY <1>2, <2>4 DEF Agrees, Miss
  <2> QED
    BY <1>1, <2>1, <2>3, <2>4, <2>5, <2>6, <2>7, <2>8, CallKeeps
<1>5. CASE ~(knobs.guard /\ f \notin reads) /\ ~(n = Absent \/ disk[f] = Absent)
  <2> DEFINE e == Call("edit", p, "done", 0, 0, n, FALSE)
  <2>1. /\ Step /\ log' = Append(log, e) /\ disk' = [disk EXCEPT ![f] = n] /\ Succeeded(p)
        /\ reads' = (IF knobs.guard THEN reads \cup {f} ELSE reads) /\ partReads' = partReads
    BY <1>5 DEF EditFile, Logged, Call
  <2>2. e \in Calls
    BY <1>1, <1>2, CallRecord
  <2>3. e.op = "edit" /\ e.path = p /\ e.how = "done" /\ e.noted = FALSE
    BY DEF Call
  <2> HIDE DEF e
  <2>4. disk' \in Disk
    BY <1>1, <2>1 DEF Disk
  <2>5. reads' = reads
    BY <1>5, <2>1
  <2>6. Remembers(e, f)
    BY <2>1, <2>3, <2>5 DEF Remembers, Showing
  <2>7. Counts(e)
    BY <1>1, <1>2, <2>1, <2>3 DEF Counts, Succeeded, Miss
  <2>8. Agrees(e, f)
    BY <1>5, <2>3 DEF Agrees, Miss
  <2> QED
    BY <1>1, <2>1, <2>2, <2>3, <2>4, <2>6, <2>7, <2>8, CallKeeps
<1> QED
  BY <1>3, <1>4, <1>5

--------------------------------------------------------------------------------
\* What is said of the calls depends on the log and the settings only.
LEMMA CallsSame ==
  ASSUME CallsRight, log' = log, knobs' = knobs
  PROVE  CallsRight'
<1>1. ASSUME NEW f, NEW J PROVE Of(f, J)' = Of(f, J)
  BY DEF Of
<1>2. ASSUME NEW f, NEW i, NEW j PROVE Latest(f, i, j)' <=> Latest(f, i, j)
  <2>1. Of(f, Before(i))' = Of(f, Before(i))
    BY DEF Of, Before
  <2> QED
    BY <2>1 DEF Latest
<1>3. ASSUME NEW j PROVE Whole(j)' <=> Whole(j)
  BY DEF Whole
<1>4. ASSUME NEW i PROVE MissesBefore(i)' = MissesBefore(i)
  BY DEF MissesBefore
<1>5. ASSUME NEW i, CallRight(i) PROVE CallRight(i)'
  <2> DEFINE f == FileOf[log[i].path]
  <2>1. (\E j \in Before(i) : Latest(f, i, j)' /\ Whole(j)') <=> (\E j \in Before(i) : Latest(f, i, j) /\ Whole(j))
    BY <1>2, <1>3
  <2>2. Of(f, Before(i))' = Of(f, Before(i))
    BY DEF Of, Before
  <2>3. MissesBefore(i)' = MissesBefore(i)
    BY <1>4
  <2> QED
    BY <1>5, <2>1, <2>2, <2>3 DEF CallRight
<1> QED
  BY <1>5 DEF CallsRight

\* A command of the model, and the fresh context.
LEMMA BashKeeps ==
  ASSUME GuardInv, NEW f \in Files, BashChanges(f)
  PROVE  GuardInv'
<1>1. /\ UNCHANGED <<knobs, wasReset, reads, partReads, misses, log>>
      /\ steps \in Nat /\ steps' = steps + 1 /\ steps' \in 0 .. MaxSteps
  BY GuardAssumption DEF BashChanges, Step, GuardInv, StateRight
<1>2. disk' \in Disk
  <2>1. PICK n \in {Absent, MaxLines} : disk' = [disk EXCEPT ![f] = n]
    BY DEF BashChanges
  <2>2. n \in {Absent} \cup 0 .. MaxLines /\ disk \in Disk
    BY GuardAssumption DEF GuardInv, StateRight
  <2> QED
    BY <2>1, <2>2 DEF Disk
<1>3. StateRight' /\ OffRight'
  BY <1>1, <1>2 DEF GuardInv, StateRight, OffRight
<1>4. ReadsRight' /\ WholeRight'
  BY <1>1 DEF GuardInv, ReadsRight, WholeRight, Of
<1>5. MissesRight'
  <2>1. ASSUME NEW p \in Paths PROVE misses[p] <= steps'
    <3>1. misses[p] \in Nat /\ misses[p] <= steps
      BY DEF GuardInv, MissesRight
    <3> QED
      BY <1>1, <3>1
  <2> QED
    BY <1>1, <2>1 DEF GuardInv, MissesRight
<1>6. CallsRight'
  BY <1>1, CallsSame DEF GuardInv
<1> QED
  BY <1>3, <1>4, <1>5, <1>6 DEF GuardInv

\* With no call in the log, nothing is read and nothing is missed.
LEMMA NoCalls ==
  /\ <<>> \in Seq(Calls) /\ 1 .. Len(<<>>) = {}
  /\ \A f : ~SeenWhole(<<>>, f)
  /\ \A p : IsFiniteSet(OpenMisses(<<>>, p)) /\ Cardinality(OpenMisses(<<>>, p)) = 0
<1>1. <<>> \in Seq(Calls)
  OBVIOUS
<1>2. 1 .. Len(<<>>) = {}
  OBVIOUS
<1>3. ASSUME NEW f PROVE ~SeenWhole(<<>>, f)
  BY <1>2 DEF SeenWhole
<1>4. ASSUME NEW p PROVE OpenMisses(<<>>, p) = {}
  BY <1>2 DEF OpenMisses
<1> QED
  BY <1>1, <1>2, <1>3, <1>4, FS_EmptySet

LEMMA ResetKeeps ==
  ASSUME GuardInv, FreshContext
  PROVE  GuardInv'
<1>1. /\ reads' = {} /\ partReads' = {} /\ misses' = [p \in Paths |-> 0] /\ log' = <<>>
      /\ wasReset' = TRUE /\ UNCHANGED <<knobs, disk, steps>>
  BY DEF FreshContext
<1>2. 1 .. Len(log') = {}
  BY <1>1, NoCalls
<1>3. StateRight'
  BY <1>1, NoCalls DEF GuardInv, StateRight
<1>4. OffRight' /\ ReadsRight' /\ CallsRight'
  BY <1>1, <1>2 DEF OffRight, ReadsRight, CallsRight, Of
<1>5. WholeRight'
  BY <1>1, NoCalls DEF WholeRight
<1>6. MissesRight'
  <2>1. misses' \in [Paths -> Nat] /\ \A p \in Paths : misses'[p] = 0
    BY <1>1
  <2>2. 0 <= steps'
    BY <1>1, GuardAssumption DEF GuardInv, StateRight
  <2> QED
    BY <1>1, <2>1, <2>2, NoCalls DEF MissesRight
<1> QED
  BY <1>3, <1>4, <1>5, <1>6 DEF GuardInv

\* What the guard keeps agrees with the calls since the reset, in every state
\* (fs.ts:48-107, 125-145, run.ts:297-303, 320-328, 343).
THEOREM GuardInvariant == GuardSpec => []GuardInv
<1>1. GuardInit => GuardInv
  <2> SUFFICES ASSUME GuardInit PROVE GuardInv
    OBVIOUS
  <2>1. <<>> \in Seq(Calls)
    OBVIOUS
  <2>2. {Absent, 0, MaxLines} \subseteq {Absent} \cup 0 .. MaxLines /\ 0 \in 0 .. MaxSteps
    BY GuardAssumption
  <2>3. disk \in Disk
    BY <2>2 DEF GuardInit, Disk
  <2>4. StateRight
    BY <2>1, <2>2, <2>3 DEF GuardInit, StateRight
  <2>5. 1 .. Len(log) = {}
    BY NoCalls DEF GuardInit
  <2>6. OffRight /\ ReadsRight /\ CallsRight
    BY <2>5 DEF GuardInit, OffRight, ReadsRight, CallsRight, Of
  <2>7. WholeRight
    BY NoCalls DEF GuardInit, WholeRight
  <2>8. MissesRight
    <3>1. misses \in [Paths -> Nat] /\ (\A p \in Paths : misses[p] = 0) /\ 0 <= steps /\ log = <<>>
      BY DEF GuardInit
    <3> QED
      BY <3>1, NoCalls DEF MissesRight
  <2> QED
    BY <2>4, <2>6, <2>7, <2>8 DEF GuardInv
<1>2. GuardInv /\ [GuardNext]_guardVars => GuardInv'
  <2> SUFFICES ASSUME GuardInv, [GuardNext]_guardVars PROVE GuardInv'
    OBVIOUS
  <2>1. CASE UNCHANGED guardVars
    <3>1. StateRight' /\ OffRight' /\ MissesRight'
      BY <2>1 DEF guardVars, GuardInv, StateRight, OffRight, MissesRight
    <3>2. ReadsRight' /\ WholeRight'
      BY <2>1 DEF guardVars, GuardInv, ReadsRight, WholeRight, Of
    <3>3. CallsRight'
      BY <2>1, CallsSame DEF guardVars, GuardInv
    <3> QED
      BY <3>1, <3>2, <3>3 DEF GuardInv
  <2>2. CASE GuardNext
    BY <2>2, FailsKeeps, ReadKeeps, WriteKeeps, EditKeeps, BashKeeps, ResetKeeps DEF GuardNext, Ops
  <2> QED
    BY <2>1, <2>2
<1> QED
  BY <1>1, <1>2, PTL DEF GuardSpec

\* The guard lets an overwrite through exactly when the model last had the whole
\* file, an edit when it had some of it, and counts the misses right: for every
\* file length, cap, cut and number of calls (fs.ts:48-107, 125-145,
\* run.ts:297-303, 320-328, 343).
THEOREM GuardTellsTheTruth == GuardSpec => []GuardSafe
<1>1. GuardInv => GuardSafe
  <2> SUFFICES ASSUME GuardInv PROVE GuardSafe
    OBVIOUS
  <2>1. log \in Seq(Calls) /\ DOMAIN log = 1 .. Len(log)
    BY DEF GuardInv, StateRight
  <2>2. GuardTypeOK
    <3>1. ASSUME NEW p \in Paths PROVE misses[p] \in 0 .. MaxSteps
      <4>1. misses[p] \in Nat /\ misses[p] <= steps /\ steps \in 0 .. MaxSteps
        BY DEF GuardInv, MissesRight, StateRight
      <4> QED
        BY <4>1, GuardAssumption
    <3>2. misses \in [Paths -> 0 .. MaxSteps]
      BY <3>1 DEF GuardInv, MissesRight
    <3> QED
      BY <3>2 DEF GuardInv, StateRight, OffRight, GuardTypeOK, Disk
  <2> QED
    BY <2>1, <2>2 DEF GuardSafe, GuardInv, CallsRight, CallRight
<1> QED
  BY <1>1, GuardInvariant, PTL
================================================================================
