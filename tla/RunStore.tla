------------------------------ MODULE RunStore ------------------------------
(****************************************************************************)
(* serve's runs: RunStore of server/runs.ts and the event stream of         *)
(* server/index.ts.  A run writes each event to its file, then tells its    *)
(* listeners; a reader replays the file and goes on live, reconnects where  *)
(* it stopped, and repairs the file of a run that died.                     *)
(*                                                                          *)
(* serve is single-threaded: one action is a stretch of code between two    *)
(* awaits.  The run itself (AgentLoop) is any sequence of events that ends  *)
(* in done; an event is its seq and its type, a torn line that a later      *)
(* append ran into is a "garbage" line, which every read drops.             *)
(****************************************************************************)
EXTENDS Naturals, Sequences, FiniteSets, Picks

CONSTANTS
  Runs,
  Readers,
  Workdir,     \* the directory of each run
  Watched,     \* the run of each reader
  MaxEvents,   \* bound: events of a run before its done
  MaxDrops     \* bound: connections that break

ASSUME RunStoreAssumption ==
  /\ Watched \in [Readers -> Runs] /\ DOMAIN Workdir = Runs
  /\ MaxEvents \in Nat /\ MaxDrops \in Nat

VARIABLES
  \* on disk
  file,        \* the whole lines of each run's file
  torn,        \* the file ends in a part of a line
  \* runs, in memory
  pc,          \* where the run stands
  active,      \* the map of active runs
  seq,         \* of the next event
  event,       \* the event being appended
  aborted,     \* the run's signal
  \* readers
  conn,        \* where the request stands
  sent,        \* events the client has: the next seq it lacks
  subs,        \* readers among the listeners of their run
  snap,        \* what the request read from the file
  buffered     \* what came while it read

\* History variables, read by properties only.
VARIABLES
  got,         \* events the client was shown
  killed,      \* runs that were going on when serve was killed
  unsaved,     \* runs whose last error could not be written either
  drops        \* connections that broke; also the bound

disk   == <<file, torn>>
run    == <<pc, active, seq, event, aborted>>
reader == <<conn, sent, subs, snap, buffered, got>>
vars   == <<disk, run, reader, killed, unsaved, drops>>

Ev(n, type) == [seq |-> n, type |-> type]
NoEvent == Ev(0, "none")
Types == {"none", "event", "ask", "error", "done", "synthetic", "garbage"}
IsDone(e) == e.type \in {"done", "synthetic"}

Init ==
  /\ file = [r \in Runs |-> <<>>] /\ torn = [r \in Runs |-> FALSE]
  /\ pc = [r \in Runs |-> "none"] /\ active = {} /\ seq = [r \in Runs |-> 0]
  /\ event = [r \in Runs |-> NoEvent] /\ aborted = [r \in Runs |-> FALSE]
  /\ conn = [d \in Readers |-> "off"] /\ sent = [d \in Readers |-> 0] /\ subs = {}
  /\ snap = [d \in Readers |-> <<>>] /\ buffered = [d \in Readers |-> <<>>]
  /\ got = [d \in Readers |-> <<>>]
  /\ killed = {} /\ unsaved = {} /\ drops = 0

------------------------------------------------------------------------------
\* A file: lines appended to a torn line run into it.

lines(r, es) ==
  IF torn[r] /\ es # <<>> THEN file[r] \o <<Ev(0, "garbage")>> \o Tail(es) ELSE file[r] \o es

appendLines(r, es) ==
  /\ file' = [file EXCEPT ![r] = lines(r, es)]
  /\ torn' = [torn EXCEPT ![r] = FALSE]

\* An append that fails may leave some of its lines, and a part of one.
appendBreaks(r, es) ==
  \E n \in 0 .. Len(es) - 1, part \in BOOLEAN :
    /\ file' = [file EXCEPT ![r] = lines(r, SubSeq(es, 1, n))]
    /\ torn' = [torn EXCEPT ![r] = part \/ (n = 0 /\ @)]

\* read: what does not parse is dropped.
Kept(es) == {i \in 1 .. Len(es) : es[i].type # "garbage"}
read(r) == Pick(file[r], Kept(file[r]))

HasDone(es) == \E i \in 1 .. Len(es) : IsDone(es[i])

------------------------------------------------------------------------------
\* What emit writes of es to a client that has all below from: what it lacks,
\* and nothing after a done.  The seqs of es never fall, so it lacks a rest of es.
Lowest(I) == CHOOSE i \in I : \A j \in I : i <= j

emits(es, from) ==
  LET lacks == {i \in 1 .. Len(es) : es[i].seq >= from}
      dones == {i \in lacks : IsDone(es[i])}
  IN IF lacks = {} THEN <<>> ELSE SubSeq(es, Lowest(lacks), Lowest(dones \cup {Len(es)}))

next(es, from) == IF es = <<>> THEN from ELSE es[Len(es)].seq + 1

\* The listeners of run r are told of es: a reader that is replaying keeps them
\* for later, a live one emits them.
Live(r) == {d \in subs : Watched[d] = r /\ conn[d] = "live"}
Replaying(r) == {d \in subs : Watched[d] = r /\ conn[d] \in {"reading", "replaying"}}

Notify(r, es) ==
  LET new(d) == emits(es, sent[d]) IN
  /\ buffered' = [d \in Readers |-> IF d \in Replaying(r) THEN buffered[d] \o es ELSE buffered[d]]
  /\ got' = [d \in Readers |-> IF d \in Live(r) THEN got[d] \o new(d) ELSE got[d]]
  /\ sent' = [d \in Readers |-> IF d \in Live(r) THEN next(new(d), sent[d]) ELSE sent[d]]
  /\ conn' = [d \in Readers |-> IF d \in Live(r) /\ HasDone(new(d)) THEN "ended" ELSE conn[d]]
  /\ UNCHANGED <<subs, snap>>

------------------------------------------------------------------------------
\* A run.

unchangedPast == UNCHANGED <<killed, unsaved, drops>>

At(r, p) == pc' = [pc EXCEPT ![r] = p]

\* Mutant: the directory is checked now and reserved once the file is open.
StartUnreserved(r) ==
  /\ pc[r] = "none"
  /\ \A a \in active : Workdir[a] # Workdir[r]
  /\ At(r, "opening")
  /\ UNCHANGED <<disk, active, seq, event, aborted, reader>> /\ unchangedPast

\* start: check the directory and reserve it, with no await between the two.
Start(r) ==
  /\ pc[r] = "none"
  /\ \A a \in active : Workdir[a] # Workdir[r]
  /\ At(r, "opening")
  /\ active' = active \cup {r}
  /\ UNCHANGED <<disk, seq, event, aborted, reader>> /\ unchangedPast

\* trace.open writes the meta line; a failure frees the directory.
Opened(r, ok) ==
  /\ pc[r] = "opening"
  /\ At(r, IF ok THEN "running" ELSE "unopened")
  /\ active' = IF ok THEN active \cup {r} ELSE active \ {r}
  /\ UNCHANGED <<disk, seq, event, aborted, reader>> /\ unchangedPast

\* The run yields an event and its append begins.
Yields(r, type) ==
  /\ pc[r] = "running"
  /\ type \in {"event", "ask"} => seq[r] < MaxEvents
  /\ At(r, "appending")
  /\ event' = [event EXCEPT ![r] = Ev(seq[r], type)]
  /\ seq' = [seq EXCEPT ![r] = @ + 1]
  /\ UNCHANGED <<disk, active, aborted, reader>> /\ unchangedPast

\* Where the run goes on once its event is out: to approve(), which parks it,
\* to its end, or on.
Resumes(e) == CASE e.type = "ask" -> "parked" [] e.type = "done" -> "closing" [] OTHER -> "running"

Appended(r) ==
  /\ pc[r] = "appending"
  /\ appendLines(r, <<event[r]>>)
  /\ Notify(r, <<event[r]>>)
  /\ At(r, Resumes(event[r]))
  /\ event' = [event EXCEPT ![r] = NoEvent]
  /\ UNCHANGED <<active, seq, aborted>> /\ unchangedPast

\* The disk is full, or anything escapes the run.
AppendFails(r) ==
  /\ pc[r] = "appending" /\ appendBreaks(r, <<event[r]>>)
  /\ At(r, "failing")
  /\ event' = [event EXCEPT ![r] = NoEvent]
  /\ UNCHANGED <<active, seq, aborted, reader>> /\ unchangedPast

RunThrows(r) ==
  /\ pc[r] = "running" /\ seq[r] <= MaxEvents
  /\ At(r, "failing")
  /\ UNCHANGED <<disk, active, seq, event, aborted, reader>> /\ unchangedPast

\* catch: an error and a done of the store's own, in one append.
lastLines(r) == <<Ev(seq[r], "error"), Ev(seq[r] + 1, "done")>>

CatchAppends(r) ==
  /\ pc[r] = "failing"
  /\ appendLines(r, lastLines(r))
  /\ Notify(r, lastLines(r))
  /\ At(r, "closing")
  /\ UNCHANGED <<active, seq, event, aborted>> /\ unchangedPast

CatchFails(r) ==
  /\ pc[r] = "failing" /\ appendBreaks(r, lastLines(r))
  /\ At(r, "closing")
  /\ unsaved' = unsaved \cup {r}
  /\ UNCHANGED <<active, seq, event, aborted, reader, killed, drops>>

\* finally
Closes(r) ==
  /\ pc[r] = "closing"
  /\ At(r, "over")
  /\ active' = active \ {r}
  /\ seq' = [seq EXCEPT ![r] = 0] /\ aborted' = [aborted EXCEPT ![r] = FALSE]
  /\ UNCHANGED <<disk, event, reader>> /\ unchangedPast

\* approve: an answer to the approval the run is parked on.
Approve(r) ==
  /\ r \in active /\ pc[r] = "parked"
  /\ At(r, "running")
  /\ UNCHANGED <<disk, active, seq, event, aborted, reader>> /\ unchangedPast

\* Mutant: the timer of an approval fires the signal and answers nothing.
ApprovalTimeoutSilent(r) ==
  /\ pc[r] = "parked"
  /\ aborted' = [aborted EXCEPT ![r] = TRUE]
  /\ UNCHANGED <<disk, pc, active, seq, event, reader>> /\ unchangedPast

\* abort: a parked approval is answered no and the signal fires.
Abort(r) ==
  /\ r \in active
  /\ aborted' = [aborted EXCEPT ![r] = TRUE]
  /\ pc' = IF pc[r] = "parked" THEN [pc EXCEPT ![r] = "running"] ELSE pc
  /\ UNCHANGED <<disk, active, seq, event, reader>> /\ unchangedPast

\* The timer of an approval, after ten minutes.
ApprovalTimeout(r) == pc[r] = "parked" /\ Abort(r)

\* serve is killed: of an append under way, the run's or a repair's, some lines
\* are in the file and perhaps a part of one.
underWay(r) == CASE pc[r] = "appending" -> <<event[r]>>
                 [] pc[r] = "failing"   -> lastLines(r)
                 [] OTHER               -> <<>>
Repaired == {Watched[d] : d \in {x \in Readers : conn[x] = "appending"}}

Kill ==
  /\ active # {} /\ killed = {}
  /\ killed' = active
  /\ \E n \in [Runs -> 0 .. 2], part \in SUBSET Runs :
       /\ \A r \in Runs : n[r] <= Len(underWay(r))
       /\ \A r \in part : n[r] < Len(underWay(r)) \/ r \in Repaired
       /\ file' = [r \in Runs |-> lines(r, SubSeq(underWay(r), 1, n[r]))]
       /\ torn' = [r \in Runs |-> r \in part \/ (torn[r] /\ n[r] = 0)]
  /\ pc' = [r \in Runs |-> IF r \in active THEN "dead" ELSE pc[r]]
  /\ active' = {}
  /\ conn' = [d \in Readers |-> IF conn[d] = "ended" THEN "ended" ELSE "off"]
  /\ subs' = {}
  /\ snap' = [d \in Readers |-> <<>>] /\ buffered' = [d \in Readers |-> <<>>]
  /\ seq' = [r \in Runs |-> 0] /\ event' = [r \in Runs |-> NoEvent]
  /\ aborted' = [r \in Runs |-> FALSE]
  /\ UNCHANGED <<sent, got, unsaved, drops>>

------------------------------------------------------------------------------
\* A reader: GET /api/runs/:id/events with the client's Last-Event-ID.

unchangedRun == UNCHANGED <<disk, run>> /\ unchangedPast

Move(d, p) == conn' = [conn EXCEPT ![d] = p]

HasFile(r) == pc[r] \notin {"none", "opening", "unopened"}

\* Subscribe first, then read.
Connect(d) ==
  /\ conn[d] = "off" /\ HasFile(Watched[d])
  /\ Move(d, "reading")
  /\ subs' = IF Watched[d] \in active THEN subs \cup {d} ELSE subs
  /\ UNCHANGED <<sent, snap, buffered, got>> /\ unchangedRun

ReadFile(d) ==
  /\ conn[d] = "reading"
  /\ Move(d, "replaying")
  /\ snap' = [snap EXCEPT ![d] = read(Watched[d])]
  /\ UNCHANGED <<sent, subs, buffered, got>> /\ unchangedRun

\* The snapshot, then what came meanwhile (kept); then on to rest.
replays(d, kept, rest) ==
  LET old  == emits(snap[d], sent[d])
      mid  == next(old, sent[d])
      late == IF HasDone(old) THEN <<>> ELSE emits(kept, mid)
  IN /\ conn[d] = "replaying"
     /\ got' = [got EXCEPT ![d] = @ \o old \o late]
     /\ sent' = [sent EXCEPT ![d] = next(late, mid)]
     /\ Move(d, IF HasDone(old \o late) THEN "ended" ELSE rest)
     /\ snap' = [snap EXCEPT ![d] = <<>>] /\ buffered' = [buffered EXCEPT ![d] = <<>>]
     /\ UNCHANGED subs /\ unchangedRun

\* Live, or the repair.
onward(d) == IF Watched[d] \in active THEN "live" ELSE "repairing"

\* Mutants: what came while the file was read is let go; a file without a done
\* is waited for, whoever writes it.
ReplayUnbuffered(d) == replays(d, <<>>, onward(d))
ReplayWaits(d) == replays(d, buffered[d], "live")

Replay(d) == replays(d, buffered[d], onward(d))

\* Mutant: a done another request has written meanwhile is not looked for.
RepairReadsAnyway(d) ==
  /\ conn[d] = "repairing"
  /\ Move(d, "appending")
  /\ snap' = [snap EXCEPT ![d] = read(Watched[d])]
  /\ UNCHANGED <<sent, subs, buffered, got>> /\ unchangedRun

\* ensureDone: read again, and end as it is if a done has come; the client
\* reconnects for it.
RepairReads(d) ==
  /\ conn[d] = "repairing"
  /\ LET es == read(Watched[d]) IN
     /\ Move(d, IF HasDone(es) THEN "off" ELSE "appending")
     /\ snap' = [snap EXCEPT ![d] = IF HasDone(es) THEN <<>> ELSE es]
     /\ subs' = IF HasDone(es) THEN subs \ {d} ELSE subs
  /\ UNCHANGED <<sent, buffered, got>> /\ unchangedRun

RepairAppends(d) ==
  LET done == Ev(next(snap[d], 0), "synthetic") IN
  /\ conn[d] = "appending"
  /\ appendLines(Watched[d], <<done>>)
  /\ got' = [got EXCEPT ![d] = @ \o emits(<<done>>, sent[d])]
  /\ sent' = [sent EXCEPT ![d] = next(emits(<<done>>, @), @)]
  /\ Move(d, "ended")
  /\ snap' = [snap EXCEPT ![d] = <<>>]
  /\ UNCHANGED <<subs, buffered, run>> /\ unchangedPast

\* Mutant: the listener of a client that is gone stays.
DropListening(d) ==
  /\ conn[d] \notin {"off", "ended", "appending"} /\ drops < MaxDrops
  /\ Move(d, "off")
  /\ drops' = drops + 1
  /\ snap' = [snap EXCEPT ![d] = <<>>] /\ buffered' = [buffered EXCEPT ![d] = <<>>]
  /\ UNCHANGED <<disk, run, sent, subs, got, killed, unsaved>>

\* The connection breaks; the client comes back with what it has.  What its old
\* request may still do, repair the file, another reader's request does.
Drop(d) ==
  /\ conn[d] \notin {"off", "ended", "appending"} /\ drops < MaxDrops
  /\ Move(d, "off")
  /\ drops' = drops + 1
  /\ subs' = subs \ {d}
  /\ snap' = [snap EXCEPT ![d] = <<>>] /\ buffered' = [buffered EXCEPT ![d] = <<>>]
  /\ UNCHANGED <<disk, run, sent, got, killed, unsaved>>

------------------------------------------------------------------------------

\* What serve does for a run by itself, and what it waits for: the next event of
\* the run's generator.
StoreStep(r) ==
  \/ \E ok \in BOOLEAN : Opened(r, ok)
  \/ Appended(r) \/ AppendFails(r) \/ CatchAppends(r) \/ CatchFails(r) \/ Closes(r)
  \/ ApprovalTimeout(r)
GoesOn(r) == \E type \in {"event", "ask", "done"} : Yields(r, type)

RunStep(r) == StoreStep(r) \/ GoesOn(r)

ReaderStep(d) == ReadFile(d) \/ Replay(d) \/ RepairReads(d) \/ RepairAppends(d)

Next ==
  \/ \E r \in Runs : Start(r) \/ RunStep(r) \/ RunThrows(r) \/ Approve(r) \/ Abort(r)
  \/ \E d \in Readers : Connect(d) \/ ReaderStep(d) \/ Drop(d)
  \/ Kill

Spec == Init /\ [][Next]_vars

------------------------------------------------------------------------------
Events == [seq : Nat, type : Types]

TypeOK ==
  /\ file \in [Runs -> Seq(Events)] /\ event \in [Runs -> Events]
  /\ torn \in [Runs -> BOOLEAN] /\ aborted \in [Runs -> BOOLEAN] /\ seq \in [Runs -> Nat]
  /\ pc \in [Runs -> {"none", "opening", "running", "appending", "parked", "failing",
                      "closing", "over", "unopened", "dead"}]
  /\ active = {r \in Runs : pc[r] \notin {"none", "over", "unopened", "dead"}}
  /\ conn \in [Readers -> {"off", "reading", "replaying", "live", "repairing", "appending", "ended"}]
  /\ sent \in [Readers -> Nat] /\ subs \subseteq {d \in Readers : conn[d] # "off"}
  /\ {snap, buffered, got} \subseteq [Readers -> Seq(Events)]
  /\ killed \subseteq Runs /\ unsaved \subseteq Runs /\ drops \in Nat

\* One run per directory (runs.ts:114-120): two starts never both pass.
OneRunPerWorkdir ==
  \A r, s \in Runs :
    {pc[r], pc[s]} \cap {"none", "over", "unopened", "dead"} = {} /\ Workdir[r] = Workdir[s] => r = s

\* A client misses nothing (index.ts:359-395): whatever it reads from the file,
\* gets live, and asks for again after a break, it has been shown every event of
\* the file below its position, each once and in order.  Not so a run whose last
\* error was written in part: its error line is in the file and told to nobody.
NothingMissed ==
  \A d \in Readers :
    LET kept == read(Watched[d])
    IN /\ Watched[d] \notin unsaved =>
            \A i \in 1 .. Len(kept) :
              kept[i].seq < sent[d] => \E j \in 1 .. Len(got[d]) : got[d][j].seq = kept[i].seq
       /\ \A i, j \in 1 .. Len(got[d]) : i < j => got[d][i].seq < got[d][j].seq

\* Only a run that is dead is declared aborted (runs.ts:183-199): a file gets a
\* done of the repair only if serve was killed during the run or could not
\* write its last error.
OnlyDead(r) ==
  (\E i \in 1 .. Len(file[r]) : file[r][i].type = "synthetic") => r \in killed \cup unsaved

\* Two requests that repair one file agree (runs.ts:189-199): every done of a
\* file carries the same seq, and nothing has a higher one.
DonesAgree(r) ==
  \A i, j \in 1 .. Len(file[r]) :
    IsDone(file[r][i]) /\ file[r][j].type # "garbage" => file[r][j].seq <= file[r][i].seq

\* A repair, even one that races another, leaves one story of the run.
RepairSound == \A r \in Runs : OnlyDead(r) /\ DonesAgree(r)

\* A reader that ended has the run's end on disk too (runs.ts:183-189).
RepairHolds == \A d \in Readers : conn[d] = "ended" => HasDone(read(Watched[d]))

\* An abort frees a parked run (runs.ts:215-220, server.test.ts:120): a run whose
\* abort has come waits for no approval.
AbortUnparks == \A r \in Runs : pc[r] = "parked" => ~aborted[r]

\* serve's own steps go on: what it writes, the timer of an approval, the
\* requests being served.  A run's generator goes on only once it is aborted
\* (AgentLoop's AbortEnds): a model server may be silent for ever, no request to
\* it has a timeout (backends/types.ts:12-15).  Nobody has to answer an approval,
\* abort or reconnect.
FairSpec ==
  /\ Spec
  /\ \A r \in Runs : WF_vars(StoreStep(r)) /\ WF_vars(aborted[r] /\ GoesOn(r))
  /\ \A d \in Readers : WF_vars(ReaderStep(d))

\* The run waits for its model or a tool, and nobody has aborted it.
Waits(r) == pc[r] = "running" /\ ~aborted[r]

\* Nothing of serve's keeps a directory reserved (runs.ts:129-132, 154-157,
\* 215-220): a run that is active for ever only waits for its model or a tool,
\* with no abort.  So a run that is aborted ends, and one parked on an approval
\* that nobody answers does.
RunEnds == \A r \in Runs : <>[](r \in active) => <>[]Waits(r)

\* No request hangs on serve (index.ts:364-395): one that is served for
\* ever is the live stream of a run that waits for its model or a tool, or of one
\* whose end could not be written (runs.ts:156).
StreamEnds ==
  \A d \in Readers :
    <>[](conn[d] \notin {"off", "ended"}) =>
      <>[](conn[d] = "live" /\ (Waits(Watched[d]) \/ Watched[d] \in unsaved))
=============================================================================
