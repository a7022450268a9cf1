--------------------------- MODULE BulkQueryProofs ---------------------------
(***************************************************************************)
(* Deep searches and the bulk jobs over them, for any number of searches,  *)
(* jobs, slots, connections, result rows and crashes: the types, the       *)
(* precedence of a cancel, the spool and its row, the refinement of the    *)
(* life cycle of TrackedJobs, and what a bulk job reports.                 *)
(*                                                                         *)
(*   TypeInv     types, and whoever works has something to work on         *)
(*   ClaimInv    a handler past its claim has its row running, alone       *)
(*   SpoolInv    what the rows, handlers and sweep say of the spools       *)
(*   OwnerInv    a bulk job is claimed once                                *)
(*   PageInv     the spool of a timely job stays, its pages are counted    *)
(***************************************************************************)
EXTENDS BulkQuery, TLAPS, FiniteSetTheorems

\* Whoever works has something to work on, and a running statement its
\* connection.
SlotsHaveSearch ==
  \A s \in Slots : /\ slot[s].pc # "idle" => slot[s].d \in Searches
                   /\ slot[s].pc = "insert" => slot[s].conn \in Conns

SweepHasSearch == sweep.pc \in {"wipe", "row"} => sweep.d \in Searches

CallHasSearch ==
  \A b \in Bulks : /\ bulkCall[b].at # "new" => bulkCall[b].d \in Searches
                   /\ bulkRow[b].status # "none" => bulkRow[b].d \in Searches
                   /\ bulkCall[b].at = "inserted" \/ bulkQueue[b].st # "absent" =>
                        bulkRow[b].status # "none"

\* A bulk handler never counts more rows than positions it has passed.
BulkSlotsHaveJob ==
  \A s \in BulkSlots : /\ bulkSlot[s].pc # "idle" =>
                            /\ bulkSlot[s].b \in Bulks
                            /\ bulkRow[bulkSlot[s].b].status # "none"
                       /\ bulkSlot[s].got <= bulkSlot[s].after
                       /\ bulkSlot[s].pc = "apply" => bulkSlot[s].got < bulkSlot[s].after

TypeInv == /\ BulkTypeOK /\ SlotsHaveSearch /\ SweepHasSearch
           /\ CallHasSearch /\ BulkSlotsHaveJob

\* The steps of a handler before its COMMIT.
Early == {"check", "parse", "insert", "inserted", "commit", "caught"}

\* The steps between its claim and its last write.
AtWork == Early \cup {"complete", "wipe", "mark", "last"}

ClaimInv ==
  /\ \A s \in Slots : slot[s].pc \in AtWork => row[slot[s].d].status = "running"
  /\ \A s, t \in Slots :
       slot[s].pc \in AtWork /\ slot[t].pc \in AtWork /\ slot[s].d = slot[t].d => s = t
  /\ \A d \in Searches : call[d] \in {"new", "counted"} => row[d].status = "none"

\* The search is over for its user: its retention is past, or it never came to
\* a result.
Past(d) == \/ row[d].status = "completed" /\ row[d].age # "fresh"
           \/ row[d].status \in {"expired", "failed", "cancelled", "purged"}

\* What a row says of its spool.
RowAndSpool(d) ==
  /\ row[d].status \in {"none", "queued", "purged"} => spool[d] = {}
  /\ row[d].status = "completed" /\ row[d].age = "fresh" => spool[d] = Positions
  /\ row[d].status = "expired" => row[d].age # "fresh"

\* A search is claimed once, so its handler finds an empty spool; a cancelled
\* one leaves an empty spool.
HandlerSpool ==
  \A s \in Slots :
    /\ slot[s].pc \in Early => spool[slot[s].d] = {}
    /\ slot[s].pc = "complete" => spool[slot[s].d] = Positions
    /\ slot[s].pc \in {"mark", "last"} /\ slot[s].out = "cancelled" => spool[slot[s].d] = {}

\* The sweep deletes rows of searches that are over, and the row last.
SweepSpool ==
  /\ \A d \in sweep.todo : Past(d)
  /\ sweep.pc \in {"wipe", "row"} => Past(sweep.d)
  /\ sweep.pc = "row" => spool[sweep.d] = {}

SpoolInv == /\ \A d \in Searches : RowAndSpool(d)
            /\ HandlerSpool /\ SweepSpool

\* A bulk job is claimed once: its row leaves "queued" for good.
OwnerInv ==
  /\ \A b \in Bulks : bulkCall[b].at \in {"new", "resolved"} => bulkRow[b].status = "none"
  /\ \A s \in BulkSlots :
       bulkSlot[s].pc \in {"load", "page", "apply", "finish"}
         => bulkRow[bulkSlot[s].b].status \notin {"none", "queued"}
  /\ \A s, t \in BulkSlots :
       /\ bulkSlot[s].pc \in {"load", "page", "apply", "finish"}
       /\ bulkSlot[t].pc \in {"load", "page", "apply", "finish"}
       /\ bulkSlot[s].b = bulkSlot[t].b
       => s = t

\* A job that was inserted in time and is not over yet.
InTime(b) == bulkRow[b].timely /\ bulkRow[b].status \in {"queued", "processing"}

\* The sweep has passed its checks for the search, or comes to them yet.
SpoolKept(d) ==
  /\ d \in Searches /\ spool[d] = Positions
  /\ row[d].status \in {"completed", "expired"}
  /\ sweep.pc \in {"wipe", "row"} => sweep.d # d

\* The pages a handler of a timely job has applied.
PagesCounted(s) ==
  /\ bulkSlot[s].pc \in {"claim", "load"} => bulkSlot[s].after = 0 /\ bulkSlot[s].got = 0
  /\ bulkSlot[s].pc \in {"page", "apply", "finish"} /\ InTime(bulkSlot[s].b) =>
       /\ bulkSlot[s].pc = "page" => bulkSlot[s].got = bulkSlot[s].after
       /\ bulkSlot[s].pc = "apply" => bulkSlot[s].got + 1 = bulkSlot[s].after
       /\ bulkSlot[s].pc = "finish" => bulkSlot[s].got = SpoolSize

PageInv == /\ \A b \in Bulks : InTime(b) => SpoolKept(bulkRow[b].d)
           /\ \A s \in BulkSlots : PagesCounted(s)

-----------------------------------------------------------------------------
(* Types *)

\* The records of DeepTypeOK and BulkTypeOK by name.
BulkRecord == [status : BulkStatus, d : Searches \cup {None},
               timely : BOOLEAN, old : BOOLEAN]
BulkRequest == [at : {"new", "resolved", "inserted", "over"},
                d : Searches \cup {None}]
BulkHandler == [pc : {"idle", "claim", "load", "page", "apply", "finish", "mark", "settle"},
                b : Bulks \cup {None}, after : 0 .. SpoolSize, got : 0 .. SpoolSize]

\* What BullMQ does to a queue leaves a queue.
LEMMA QueueType ==
  ASSUME NEW ids, NEW slots,
         NEW q \in [ids -> JobEntry(slots)], NEW j \in ids
  PROVE  /\ Added(q, j) \in [ids -> JobEntry(slots)]
         /\ TakenBack(q, j) \in [ids -> JobEntry(slots)]
         /\ \A s \in slots : /\ Taken(q, j, s) \in [ids -> JobEntry(slots)]
                             /\ Settled(q, j, s) \in [ids -> JobEntry(slots)]
<1>1. q[j] \in JobEntry(slots) /\ q[j].stalls \in 0 .. MaxStalledCount
  BY DEF JobEntry
<1>2. [NoEntry EXCEPT !.st = "waiting"] \in JobEntry(slots)
  BY QueueAssumption DEF JobEntry, NoEntry
<1>3. \A s \in slots : [q[j] EXCEPT !.st = "active", !.by = s] \in JobEntry(slots)
  BY <1>1 DEF JobEntry
<1>4. [q[j] EXCEPT !.st = "ended", !.by = None] \in JobEntry(slots)
  BY <1>1 DEF JobEntry
<1>5. ~GivenUp(q, j) => q[j].stalls + 1 \in 0 .. MaxStalledCount
  BY <1>1, QueueAssumption DEF GivenUp
<1>6. ~GivenUp(q, j)
        => [st |-> "waiting", by |-> None, stalls |-> q[j].stalls + 1] \in JobEntry(slots)
  BY <1>5 DEF JobEntry
<1> QED
  BY <1>2, <1>3, <1>4, <1>6 DEF Added, Taken, Settled, TakenBack

\* The tables and queues start empty.
LEMMA TypeInit == Init => TypeInv
<1> SUFFICES ASSUME Init PROVE TypeInv
  OBVIOUS
<1>1. NoRow \in Row /\ Idle \in Slot /\ NoSweep \in Sweep /\ 0 \in 0 .. SpoolSize /\ 0 \in 0 .. MaxStops
  BY QueueAssumption, DeepAssumption
     DEF NoRow, Row, Status, Idle, Slot, NoSweep, Sweep
<1>2. \A slots : NoEntry \in JobEntry(slots)
  BY QueueAssumption DEF NoEntry, JobEntry
<1>3. DeepTypeOK
  BY <1>1, <1>2 DEF Init, DeepInit, DeepTypeOK, NoBulk, BulkStatus
<1>4. BulkTypeOK
  BY <1>1, <1>2, <1>3 DEF Init, BulkTypeOK, BulkIdle
<1> QED
  BY <1>4 DEF Init, DeepInit, TypeInv, SlotsHaveSearch, SweepHasSearch, CallHasSearch,
     BulkSlotsHaveJob, Idle, NoSweep, BulkIdle, NoBulk, NoEntry

\* Requests, the stalled check and the clock write rows and the queue.
LEMMA TypeRequest ==
  ASSUME TypeInv, UNCHANGED bulkOwn, NEW d \in Searches,
         Api(d) \/ RequestCancel(d) \/ ReadPastExpiry(d) \/ Stall(d) \/ Age(d)
  PROVE  TypeInv'
<1>1. /\ BulkTypeOK /\ DeepTypeOK /\ row[d] \in Row
      /\ row \in [Searches -> Row] /\ queue \in [Searches -> JobEntry(Slots)]
  BY DEF TypeInv, BulkTypeOK, DeepTypeOK
<1>2. UNCHANGED <<spool, slot, signals, sweep, up, stops>>
  BY DEF Api, CountActive, CreateDeepSearch, AddJob, RequestCancel, ReadPastExpiry, Stall, Age
<1>3. row' \in [Searches -> Row]
  <2>1. CASE CreateDeepSearch(d) \/ Age(d)
    BY <1>1, <2>1 DEF CreateDeepSearch, Age, Row, Status
  <2>2. CASE RequestCancel(d)
    BY <1>1, <2>2 DEF RequestCancel, Row, Status
  <2>3. CASE ReadPastExpiry(d)
    BY <1>1, <2>3 DEF ReadPastExpiry, Flipped, Row, Status
  <2>4. CASE UNCHANGED row
    BY <1>1, <2>4
  <2> QED
    BY <2>1, <2>2, <2>3, <2>4 DEF Api, CountActive, AddJob, Stall
<1>4. queue' \in [Searches -> JobEntry(Slots)]
  <2>1. queue' \in {queue, Added(queue, d), TakenBack(queue, d)}
    BY DEF Api, CountActive, CreateDeepSearch, AddJob, RequestCancel, ReadPastExpiry, Stall, Age
  <2> QED
    BY <1>1, <2>1, QueueType
<1>5. call' \in [Searches -> {"new", "counted", "inserted", "over"}]
  BY <1>1 DEF DeepTypeOK, Api, CountActive, CreateDeepSearch, AddJob, RequestCancel,
     ReadPastExpiry, Stall, Age
<1>6. DeepTypeOK'
  BY <1>1, <1>2, <1>3, <1>4, <1>5 DEF DeepTypeOK, bulkOwn
<1> QED
  BY <1>1, <1>2, <1>6 DEF TypeInv, BulkTypeOK, SlotsHaveSearch, SweepHasSearch, CallHasSearch,
     BulkSlotsHaveJob, bulkOwn

\* A handler that goes on to pc keeps its search; the other handlers stay.
GoesTo(s, pc) ==
  /\ slot'[s].pc = pc /\ slot'[s].d = slot[s].d
  /\ \A t \in Slots \ {s} : slot'[t] = slot[t]

\* Goto and Outcome.
LEMMA GoesOn ==
  ASSUME TypeInv, NEW s \in Slots,
         NEW pc \in {"check", "parse", "inserted", "commit", "complete", "wipe", "caught",
                     "mark", "last", "settle"}
  PROVE  /\ Goto(s, pc) => GoesTo(s, pc) /\ slot' \in [Slots -> Slot]
         /\ \A out \in {"failed", "cancelled"} :
              Outcome(s, pc, out)
                => GoesTo(s, pc) /\ slot'[s].out = out /\ slot' \in [Slots -> Slot]
<1>1. slot \in [Slots -> Slot] /\ slot[s] \in Slot
  BY DEF TypeInv, BulkTypeOK, DeepTypeOK
<1> QED
  BY <1>1 DEF Goto, Outcome, GoesTo, Slot

\* The steps of a handler between its claim and its report to BullMQ.
Works(s) ==
  \/ ClaimForProcessing(s) \/ CheckBefore(s) \/ BeginInsert(s) \/ EndInsert(s)
  \/ CheckAfter(s) \/ Commit(s) \/ MarkCompleted(s) \/ WipeSpool(s)
  \/ Caught(s) \/ MarkOver(s)

\* What a handler step keeps: its search, the other handlers and the rest of the
\* worker.
LEMMA WorkerFrame ==
  ASSUME TypeInv, NEW s \in Slots, Works(s)
  PROVE  /\ slot[s].pc # "idle" /\ slot[s].d \in Searches /\ row[slot[s].d] \in Row
         /\ UNCHANGED <<queue, call, signals, sweep, up, stops>>
         /\ slot' \in [Slots -> Slot] /\ slot'[s].d = slot[s].d
         /\ \A t \in Slots \ {s} : slot'[t] = slot[t]
         /\ slot'[s].pc = "insert" => slot'[s].conn \in Conns
         /\ slot[s].pc = "claim" => slot'[s].pc \in {"check", "settle"}
         /\ slot'[s].pc \in AtWork \cup {"settle"}
<1>1. slot \in [Slots -> Slot] /\ slot[s] \in Slot /\ row \in [Searches -> Row]
  BY DEF TypeInv, BulkTypeOK, DeepTypeOK
<1>2. slot[s].pc # "idle"
  BY DEF Works, At, ClaimForProcessing, CheckBefore, BeginInsert, EndInsert, CheckAfter, Commit,
     MarkCompleted, WipeSpool, Caught, MarkOver
<1>3. slot[s].d \in Searches
  BY <1>2 DEF TypeInv, SlotsHaveSearch
<1>4. UNCHANGED <<queue, call, signals, sweep, up, stops>>
  BY DEF Works, ClaimForProcessing, CheckBefore, BeginInsert, EndInsert, CheckAfter, Commit,
     MarkCompleted, WipeSpool, Caught, MarkOver
<1> DEFINE Kept == /\ slot' \in [Slots -> Slot] /\ slot'[s].d = slot[s].d
                   /\ \A t \in Slots \ {s} : slot'[t] = slot[t]
                   /\ slot'[s].pc = "insert" => slot'[s].conn \in Conns
                   /\ slot[s].pc = "claim" => slot'[s].pc \in {"check", "settle"}
                   /\ slot'[s].pc \in AtWork \cup {"settle"}
<1>5. ASSUME ClaimForProcessing(s) \/ CheckBefore(s) \/ EndInsert(s) PROVE Kept
  BY <1>5, GoesOn DEF ClaimForProcessing, CheckBefore, EndInsert, GoesTo, At, AtWork, Early
<1>6. ASSUME CheckAfter(s) \/ Commit(s) \/ MarkCompleted(s) PROVE Kept
  BY <1>6, GoesOn DEF CheckAfter, Commit, MarkCompleted, GoesTo, At, AtWork, Early
<1>7. ASSUME WipeSpool(s) PROVE Kept
  <2>1. CASE UNCHANGED slot
    BY <1>1, <1>7, <2>1 DEF WipeSpool, At, AtWork
  <2> QED
    BY <1>7, <2>1, GoesOn DEF WipeSpool, GoesTo, At, AtWork, Early
<1>8. ASSUME Caught(s) \/ MarkOver(s) PROVE Kept
  BY <1>8, GoesOn DEF Caught, MarkOver, GoesTo, At, AtWork, Early
<1>9. ASSUME BeginInsert(s) PROVE Kept
  <2>1. CASE \E c \in Conns : slot' = [slot EXCEPT ![s].pc = "insert", ![s].conn = c]
    <3>1. PICK c \in Conns : slot' = [slot EXCEPT ![s].pc = "insert", ![s].conn = c]
      BY <2>1
    <3>2. [slot[s] EXCEPT !.pc = "insert", !.conn = c] \in Slot
      BY <1>1 DEF Slot
    <3>3. slot' \in [Slots -> Slot] /\ slot'[s] = [slot[s] EXCEPT !.pc = "insert", !.conn = c]
      BY <1>1, <3>1, <3>2
    <3> QED
      BY <1>1, <1>9, <3>1, <3>3 DEF BeginInsert, At, Slot, AtWork, Early
  <2> QED
    BY <1>9, <2>1, GoesOn DEF BeginInsert, GoesTo, At, AtWork, Early
<1>10. Kept
  BY <1>5, <1>6, <1>7, <1>8, <1>9 DEF Works
<1> QED
  BY <1>1, <1>2, <1>3, <1>4, <1>10

\* A handler writes rows and spools of the right type.
LEMMA TypeWorker ==
  ASSUME TypeInv, UNCHANGED bulkOwn, NEW s \in Slots, Works(s)
  PROVE  TypeInv'
<1> DEFINE d == slot[s].d
<1>1. /\ BulkTypeOK /\ DeepTypeOK /\ row \in [Searches -> Row] /\ d \in Searches
      /\ row[d] \in Row /\ slot[s] \in Slot /\ spool \in [Searches -> SUBSET Positions]
  BY WorkerFrame DEF TypeInv, BulkTypeOK, DeepTypeOK
<1>2. row' \in [Searches -> Row]
  <2>1. \A st \in {"running", "failed", "cancelled"} :
          [row[d] EXCEPT !.status = st, !.age = "fresh"] \in Row
    BY <1>1 DEF Row, Status
  <2>2. [row[d] EXCEPT !.status = "completed", !.counted = TRUE, !.age = "fresh"] \in Row
    BY <1>1 DEF Row, Status
  <2>3. slot[s].out \in {"failed", "cancelled"}
    BY <1>1 DEF Slot
  <2>4. \/ UNCHANGED row
        \/ \E st \in {"running", "failed", "cancelled"} : SetStatus(d, st)
        \/ row' = [row EXCEPT ![d] = [@ EXCEPT !.status = "completed",
                                               !.counted = TRUE, !.age = "fresh"]]
    BY <2>3 DEF Works, ClaimForProcessing, CheckBefore, BeginInsert, EndInsert, CheckAfter, Commit,
       MarkCompleted, WipeSpool, Caught, MarkOver
  <2> QED
    BY <1>1, <2>1, <2>2, <2>4 DEF SetStatus
<1>3. spool' \in [Searches -> SUBSET Positions]
  BY <1>1 DEF Works, ClaimForProcessing, CheckBefore, BeginInsert, EndInsert, CheckAfter, Commit,
     MarkCompleted, WipeSpool, Caught, MarkOver, DeleteBatch
<1>4. DeepTypeOK'
  BY <1>1, <1>2, <1>3, WorkerFrame DEF DeepTypeOK, bulkOwn
<1>5. SlotsHaveSearch'
  BY <1>1, WorkerFrame DEF TypeInv, SlotsHaveSearch
<1> QED
  BY <1>1, <1>4, <1>5, WorkerFrame DEF TypeInv, BulkTypeOK, SweepHasSearch, CallHasSearch,
     BulkSlotsHaveJob, bulkOwn

\* A slot takes a job or reports its end; the watcher and its signal.
LEMMA TypeSlot ==
  ASSUME TypeInv, UNCHANGED bulkOwn, NEW s \in Slots,
         Settle(s) \/ Watch(s) \/ \E d \in Searches : TakeJob(s, d)
  PROVE  TypeInv'
<1>1. /\ BulkTypeOK /\ DeepTypeOK /\ slot \in [Slots -> Slot] /\ slot[s] \in Slot
      /\ queue \in [Searches -> JobEntry(Slots)] /\ signals \subseteq Conns \X Searches
  BY DEF TypeInv, BulkTypeOK, DeepTypeOK
<1>2. UNCHANGED <<row, spool, call, sweep, up, stops>>
  BY DEF Settle, Watch, TakeJob
<1>3. CASE Settle(s)
  <2>1. slot' \in [Slots -> Slot] /\ SlotsHaveSearch' /\ UNCHANGED signals
    BY <1>1, <1>3 DEF Settle, Slot, Idle, TypeInv, SlotsHaveSearch
  <2>2. slot[s].d \in Searches
    BY <1>3 DEF Settle, At, TypeInv, SlotsHaveSearch
  <2>3. queue' \in [Searches -> JobEntry(Slots)]
    BY <1>1, <1>3, <2>2, QueueType DEF Settle
  <2>4. DeepTypeOK'
    BY <1>1, <1>2, <2>1, <2>3 DEF DeepTypeOK, bulkOwn
  <2> QED
    BY <1>1, <1>2, <2>1, <2>4 DEF TypeInv, BulkTypeOK, SweepHasSearch, CallHasSearch,
       BulkSlotsHaveJob, bulkOwn
<1>4. CASE Watch(s)
  <2>1. slot[s].conn \in Conns /\ slot[s].d \in Searches
    BY <1>4 DEF Watch, At, TypeInv, SlotsHaveSearch
  <2>2. slot' \in [Slots -> Slot] /\ SlotsHaveSearch' /\ UNCHANGED queue
    BY <1>1, <1>4, <2>1 DEF Watch, Slot, TypeInv, SlotsHaveSearch
  <2>3. signals' \subseteq Conns \X Searches
    BY <1>1, <1>4, <2>1 DEF Watch
  <2>4. DeepTypeOK'
    BY <1>1, <1>2, <2>2, <2>3 DEF DeepTypeOK, bulkOwn
  <2> QED
    BY <1>1, <1>2, <2>2, <2>4 DEF TypeInv, BulkTypeOK, SweepHasSearch, CallHasSearch,
       BulkSlotsHaveJob, bulkOwn
<1>5. CASE \E d \in Searches : TakeJob(s, d)
  <2>1. PICK d \in Searches : TakeJob(s, d)
    BY <1>5
  <2>2. [Idle EXCEPT !.pc = "claim", !.d = d] \in Slot
    BY DEF Idle, Slot
  <2>3. slot' \in [Slots -> Slot] /\ SlotsHaveSearch' /\ UNCHANGED signals
    BY <1>1, <2>1, <2>2 DEF TakeJob, Idle, TypeInv, SlotsHaveSearch
  <2>4. queue' \in [Searches -> JobEntry(Slots)]
    BY <1>1, <2>1, QueueType DEF TakeJob
  <2>5. DeepTypeOK'
    BY <1>1, <1>2, <2>3, <2>4 DEF DeepTypeOK, bulkOwn
  <2> QED
    BY <1>1, <1>2, <2>3, <2>5 DEF TypeInv, BulkTypeOK, SweepHasSearch, CallHasSearch,
       BulkSlotsHaveJob, bulkOwn
<1> QED
  BY <1>3, <1>4, <1>5

\* A signal stops what its connection executes.
LEMMA SignalStops ==
  ASSUME TypeInv, NEW m \in signals, Signal(m)
  PROVE  /\ slot' \in [Slots -> Slot]
         /\ \A s \in Slots : \/ slot'[s] = slot[s]
                             \/ /\ slot[s].pc = "insert" /\ slot'[s].pc = "caught"
                                /\ slot'[s].d = slot[s].d
<1>1. slot \in [Slots -> Slot] /\ \A s \in Slots : slot[s] \in Slot
  BY DEF TypeInv, BulkTypeOK, DeepTypeOK
<1>2. \A s \in Slots : /\ [slot[s] EXCEPT !.pc = "caught"] \in Slot
                       /\ [slot[s] EXCEPT !.pc = "caught"].pc = "caught"
                       /\ [slot[s] EXCEPT !.pc = "caught"].d = slot[s].d
  BY <1>1 DEF Slot
<1> QED
  BY <1>1, <1>2 DEF Signal

\* A signal, a crash, a restart.
LEMMA TypeProcess ==
  ASSUME TypeInv, UNCHANGED bulkOwn, (\E m \in signals : Signal(m)) \/ Crash \/ Restart
  PROVE  TypeInv'
<1>1. /\ BulkTypeOK /\ DeepTypeOK /\ slot \in [Slots -> Slot]
      /\ signals \subseteq Conns \X Searches
  BY DEF TypeInv, BulkTypeOK, DeepTypeOK
<1>2. UNCHANGED <<row, spool, queue, call>> /\ signals' \subseteq Conns \X Searches
  BY <1>1 DEF Signal, Crash, Restart
<1>3. Idle \in Slot /\ NoSweep \in Sweep
  BY DEF Idle, Slot, NoSweep, Sweep
<1>4. slot' \in [Slots -> Slot] /\ SlotsHaveSearch'
  <2>1. CASE \E m \in signals : Signal(m)
    BY <2>1, SignalStops DEF TypeInv, SlotsHaveSearch
  <2>2. CASE Crash
    BY <1>3, <2>2 DEF Crash, SlotsHaveSearch, Idle
  <2>3. CASE Restart
    BY <1>1, <2>3 DEF Restart, TypeInv, SlotsHaveSearch
  <2> QED
    BY <2>1, <2>2, <2>3
<1>5. sweep' \in Sweep /\ SweepHasSearch' /\ up' \in BOOLEAN /\ stops' \in 0 .. MaxStops
  <2>1. CASE \E m \in signals : Signal(m)
    BY <1>1, <2>1 DEF Signal, TypeInv, SweepHasSearch, DeepTypeOK
  <2>2. CASE Crash
    <3>1. sweep' \in Sweep /\ up' \in BOOLEAN
      BY <1>3, <2>2 DEF Crash
    <3>2. SweepHasSearch'
      BY <2>2 DEF Crash, SweepHasSearch, NoSweep
    <3>3. stops' \in 0 .. MaxStops
      BY <1>1, <2>2, QueueAssumption DEF Crash, DeepTypeOK
    <3> QED
      BY <3>1, <3>2, <3>3
  <2>3. CASE Restart
    BY <1>1, <2>3 DEF Restart, TypeInv, SweepHasSearch, DeepTypeOK
  <2> QED
    BY <2>1, <2>2, <2>3
<1>6. DeepTypeOK'
  BY <1>1, <1>2, <1>4, <1>5 DEF DeepTypeOK, bulkOwn
<1> QED
  BY <1>1, <1>4, <1>5, <1>6 DEF TypeInv, BulkTypeOK, CallHasSearch, BulkSlotsHaveJob, bulkOwn

\* The sweep remembers searches only.
LEMMA TypeSweep ==
  ASSUME TypeInv, UNCHANGED bulkOwn, Cleanup
  PROVE  TypeInv'
<1>1. /\ BulkTypeOK /\ DeepTypeOK /\ sweep \in Sweep /\ row \in [Searches -> Row]
      /\ spool \in [Searches -> SUBSET Positions]
  BY DEF TypeInv, BulkTypeOK, DeepTypeOK
<1>2. UNCHANGED <<queue, call, slot, signals, up, stops>>
  BY DEF Cleanup, SweepBegin, SweepCheck, SweepWipe, SweepRow, SweepEnd
<1>3. sweep' \in Sweep /\ SweepHasSearch'
  <2>1. CASE SweepBegin \/ SweepEnd
    <3>1. PICK pc \in {"idle", "next"}, what \in {"expire", "purge"}, todo \in SUBSET Searches :
            sweep' = [pc |-> pc, what |-> what, todo |-> todo, d |-> None]
      <4>1. Expired \in SUBSET Searches /\ Stale \in SUBSET Searches
        BY DEF Expired, Stale
      <4> QED
        BY <2>1, <4>1 DEF SweepBegin, SweepEnd, NoSweep
    <3> QED
      BY <3>1 DEF Sweep, SweepHasSearch
  <2>2. CASE SweepCheck
    <3>1. PICK d \in sweep.todo :
            \/ sweep' = [sweep EXCEPT !.todo = @ \ {d}]
            \/ sweep' = [sweep EXCEPT !.todo = @ \ {d}, !.pc = "wipe", !.d = d]
      BY <2>2 DEF SweepCheck
    <3>2. sweep.pc = "next" /\ d \in Searches
      BY <1>1, <2>2 DEF SweepCheck, Sweep
    <3> QED
      BY <1>1, <3>1, <3>2 DEF Sweep, SweepHasSearch
  <2>3. CASE SweepWipe
    BY <1>1, <2>3 DEF SweepWipe, Sweep, SweepHasSearch, TypeInv
  <2>4. CASE SweepRow
    BY <1>1, <2>4 DEF SweepRow, Sweep, SweepHasSearch
  <2> QED
    BY <2>1, <2>2, <2>3, <2>4 DEF Cleanup
<1>4. row' \in [Searches -> Row]
  <2>1. CASE SweepRow
    <3>1. sweep.d \in Searches /\ row[sweep.d] \in Row
      BY <1>1, <2>1 DEF SweepRow, TypeInv, SweepHasSearch
    <3>2. Flipped(row[sweep.d]) \in Row /\ [row[sweep.d] EXCEPT !.status = "purged"] \in Row
      BY <3>1 DEF Flipped, Row, Status
    <3> QED
      BY <1>1, <2>1, <3>1, <3>2 DEF SweepRow
  <2>2. CASE UNCHANGED row
    BY <1>1, <2>2
  <2> QED
    BY <2>1, <2>2 DEF Cleanup, SweepBegin, SweepCheck, SweepWipe, SweepEnd
<1>5. spool' \in [Searches -> SUBSET Positions]
  BY <1>1 DEF Cleanup, SweepBegin, SweepCheck, SweepWipe, SweepRow, SweepEnd, DeleteBatch
<1>6. DeepTypeOK'
  BY <1>1, <1>2, <1>3, <1>4, <1>5 DEF DeepTypeOK, bulkOwn
<1> QED
  BY <1>1, <1>2, <1>3, <1>6 DEF TypeInv, BulkTypeOK, SlotsHaveSearch, CallHasSearch,
     BulkSlotsHaveJob, bulkOwn

\* No step of the deep searches breaks the types.
LEMMA TypeDeep ==
  ASSUME TypeInv, DeepNext, UNCHANGED bulkOwn
  PROVE  TypeInv'
<1>1. CASE \E d \in Searches : \/ Api(d) \/ RequestCancel(d) \/ ReadPastExpiry(d)
                               \/ Stall(d) \/ Age(d)
  BY <1>1, TypeRequest
<1>2. CASE \E s \in Slots : RunDeepSearch(s) \/ Watch(s)
  BY <1>2, TypeWorker, TypeSlot DEF RunDeepSearch, Works
<1>3. CASE (\E m \in signals : Signal(m)) \/ Crash \/ Restart
  BY <1>3, TypeProcess
<1>4. CASE Cleanup
  BY <1>4, TypeSweep
<1> QED
  BY <1>1, <1>2, <1>3, <1>4 DEF DeepNext

\* The steps of a bulk handler between its claim and its report to BullMQ.
Pages(s) ==
  \/ ClaimBulk(s) \/ LoadTarget(s) \/ NextPage(s) \/ ApplyChunk(s)
  \/ FinishBulk(s) \/ MarkBulkFailed(s)

\* A bulk handler keeps its job; the other handlers stay.
LEMMA PagerFrame ==
  ASSUME TypeInv, NEW s \in BulkSlots, Pages(s)
  PROVE  /\ bulkSlot[s].pc # "idle" /\ bulkSlot[s].b \in Bulks /\ bulkSlot[s] \in BulkHandler
         /\ bulkRow[bulkSlot[s].b] \in BulkRecord
         /\ UNCHANGED <<bulkQueue, bulkCall, bulkUp, stops>>
         /\ bulkSlot'[s].b = bulkSlot[s].b
         /\ \A t \in BulkSlots \ {s} : bulkSlot'[t] = bulkSlot[t]
         /\ bulkSlot' \in [BulkSlots -> BulkHandler]
         /\ bulkSlot'[s].got <= bulkSlot'[s].after
         /\ bulkSlot'[s].pc = "apply" => bulkSlot'[s].got < bulkSlot'[s].after
<1>1. /\ bulkSlot \in [BulkSlots -> BulkHandler] /\ bulkSlot[s] \in BulkHandler
      /\ bulkRow \in [Bulks -> BulkRecord]
      /\ spool \in [Searches -> SUBSET Positions]
  BY DEF TypeInv, BulkTypeOK, DeepTypeOK, BulkHandler, BulkRecord
<1>2. bulkSlot[s].pc # "idle" /\ UNCHANGED <<bulkQueue, bulkCall, bulkUp, stops>>
  BY DEF Pages, BulkAt, ClaimBulk, LoadTarget, NextPage, ApplyChunk, FinishBulk, MarkBulkFailed
<1>3. /\ bulkSlot[s].b \in Bulks /\ bulkSlot[s].got <= bulkSlot[s].after
      /\ bulkSlot[s].pc = "apply" => bulkSlot[s].got < bulkSlot[s].after
      /\ bulkSlot[s].after \in 0 .. SpoolSize /\ bulkSlot[s].got \in 0 .. SpoolSize
  BY <1>1, <1>2 DEF TypeInv, BulkSlotsHaveJob, BulkHandler
<1> DEFINE Kept == /\ bulkSlot'[s].b = bulkSlot[s].b
                   /\ \A t \in BulkSlots \ {s} : bulkSlot'[t] = bulkSlot[t]
                   /\ bulkSlot' \in [BulkSlots -> BulkHandler]
                   /\ bulkSlot'[s].got <= bulkSlot'[s].after
                   /\ bulkSlot'[s].pc = "apply" => bulkSlot'[s].got < bulkSlot'[s].after
<1>4. ASSUME NEW pc \in {"load", "page", "finish", "mark", "settle"}, BulkGoto(s, pc) PROVE Kept
  BY <1>1, <1>3, <1>4 DEF BulkGoto, BulkHandler
<1>5. ASSUME NextPage(s), ~\E pc \in {"finish", "mark"} : BulkGoto(s, pc) PROVE Kept
  <2>1. PICK p : /\ p \in spool[bulkRow[bulkSlot[s].b].d] /\ p > bulkSlot[s].after
                 /\ bulkSlot' = [bulkSlot EXCEPT ![s].pc = "apply", ![s].after = p]
    BY <1>5 DEF NextPage
  <2>2. p \in 0 .. SpoolSize
    <3>1. p \in Positions
      BY <1>1, <1>3, <1>5, <2>1 DEF NextPage, BulkAt, TypeInv, BulkSlotsHaveJob, CallHasSearch
    <3> QED
      BY <3>1, DeepAssumption DEF Positions
  <2> QED
    BY <1>1, <1>3, <2>1, <2>2 DEF BulkHandler
<1>6. ASSUME ApplyChunk(s), ~BulkGoto(s, "mark") PROVE Kept
  <2>1. bulkSlot[s].pc = "apply" /\ bulkSlot' = [bulkSlot EXCEPT ![s].pc = "page", ![s].got = @ + 1]
    BY <1>6 DEF ApplyChunk, BulkAt
  <2>2. bulkSlot[s].got + 1 \in 0 .. SpoolSize /\ bulkSlot[s].got + 1 <= bulkSlot[s].after
    BY <1>3, <2>1, DeepAssumption
  <2> QED
    BY <1>1, <1>3, <2>1, <2>2 DEF BulkHandler
<1>7. Kept
  BY <1>4, <1>5, <1>6 DEF Pages, ClaimBulk, LoadTarget, NextPage, ApplyChunk, FinishBulk,
     MarkBulkFailed
<1> QED
  BY <1>1, <1>2, <1>3, <1>7

\* What a bulk handler writes: the status of its row, once it has claimed it.
LEMMA PagerWrites ==
  ASSUME TypeInv, NEW s \in BulkSlots, Pages(s)
  PROVE  LET b == bulkSlot[s].b IN
         \/ /\ UNCHANGED bulkRow
            /\ bulkSlot'[s].pc = "load" => FALSE
            /\ bulkSlot[s].pc = "claim" => bulkSlot'[s].pc \in {"settle", "mark"}
            /\ bulkSlot[s].pc \in {"finish", "mark"} => bulkSlot'[s].pc \in {"settle", "mark"}
         \/ /\ bulkSlot[s].pc = "claim" /\ bulkSlot'[s].pc = "load"
            /\ bulkRow[b].status = "queued" /\ BulkStatusTo(b, "processing")
         \/ /\ bulkSlot[s].pc \in {"finish", "mark"} /\ bulkSlot'[s].pc = "settle"
            /\ \E st \in {"completed", "failed"} : BulkStatusTo(b, st)
<1>1. bulkSlot \in [BulkSlots -> BulkHandler] /\ bulkSlot[s] \in BulkHandler
  BY DEF TypeInv, BulkTypeOK, BulkHandler
<1>2. ASSUME NEW pc, BulkGoto(s, pc) PROVE bulkSlot'[s].pc = pc
  BY <1>1, <1>2 DEF BulkGoto, BulkHandler
<1>3. CASE ClaimBulk(s) \/ LoadTarget(s)
  BY <1>2, <1>3 DEF ClaimBulk, LoadTarget, BulkAt
<1>4. CASE NextPage(s)
  <2>1. bulkSlot[s].pc = "page" /\ UNCHANGED bulkRow
    BY <1>4 DEF NextPage, BulkAt
  <2>2. bulkSlot'[s].pc \in {"finish", "mark", "apply"}
    BY <1>1, <1>2, <1>4 DEF NextPage, BulkHandler
  <2> QED
    BY <2>1, <2>2
<1>5. CASE ApplyChunk(s)
  <2>1. bulkSlot[s].pc = "apply" /\ UNCHANGED bulkRow
    BY <1>5 DEF ApplyChunk, BulkAt
  <2>2. bulkSlot'[s].pc \in {"page", "mark"}
    BY <1>1, <1>2, <1>5 DEF ApplyChunk, BulkHandler
  <2> QED
    BY <2>1, <2>2
<1>6. CASE FinishBulk(s) \/ MarkBulkFailed(s)
  BY <1>2, <1>6 DEF FinishBulk, MarkBulkFailed, BulkAt
<1> QED
  BY <1>3, <1>4, <1>5, <1>6 DEF Pages

\* A status written to a row changes nothing else, and never makes it new again.
LEMMA StatusWritten ==
  ASSUME TypeInv, NEW b \in Bulks, NEW st \in {"processing", "completed", "failed"},
         BulkStatusTo(b, st)
  PROVE  /\ bulkRow' \in [Bulks -> BulkRecord]
         /\ \A a \in Bulks : bulkRow'[a].d = bulkRow[a].d /\ bulkRow'[a].timely = bulkRow[a].timely
         /\ \A a \in Bulks \ {b} : bulkRow'[a] = bulkRow[a]
         /\ bulkRow'[b].status = IF bulkRow[b].status = "purged" THEN "purged" ELSE st
<1>1. bulkRow \in [Bulks -> BulkRecord] /\ bulkRow[b] \in BulkRecord
  BY DEF TypeInv, BulkTypeOK, DeepTypeOK, BulkRecord
<1> QED
  BY <1>1 DEF BulkStatusTo, BulkRecord, BulkStatus

\* A bulk handler writes rows of the right type.
LEMMA TypePager ==
  ASSUME TypeInv, UNCHANGED deepOwn, NEW s \in BulkSlots, Pages(s)
  PROVE  TypeInv'
<1> DEFINE b == bulkSlot[s].b
<1>1. BulkTypeOK /\ DeepTypeOK /\ b \in Bulks /\ bulkRow \in [Bulks -> BulkRecord]
  BY PagerFrame DEF TypeInv, BulkTypeOK, DeepTypeOK, BulkRecord
<1>2. bulkRow[b].status # "none"
  BY PagerFrame DEF TypeInv, BulkSlotsHaveJob
<1>3. /\ bulkRow' \in [Bulks -> BulkRecord]
      /\ \A a \in Bulks : /\ bulkRow'[a].d = bulkRow[a].d
                          /\ bulkRow[a].status # "none" => bulkRow'[a].status # "none"
                          /\ bulkRow'[a].status # "none" => bulkRow[a].status # "none"
  BY <1>1, <1>2, PagerWrites, StatusWritten
<1>4. BulkSlotsHaveJob' /\ CallHasSearch'
  <2>1. CallHasSearch'
    BY <1>1, <1>2, <1>3, PagerFrame DEF TypeInv, CallHasSearch
  <2>2. BulkSlotsHaveJob'
    BY <1>1, <1>2, <1>3, PagerFrame DEF TypeInv, BulkSlotsHaveJob
  <2> QED
    BY <2>1, <2>2
<1>5. DeepTypeOK'
  BY <1>1, <1>3, PagerFrame DEF DeepTypeOK, BulkRecord, deepOwn
<1>6. BulkTypeOK'
  BY <1>1, <1>5, PagerFrame DEF BulkTypeOK, BulkHandler
<1> QED
  BY <1>4, <1>6 DEF TypeInv, SlotsHaveSearch, SweepHasSearch, deepOwn

\* Requests for bulk jobs, the stalled check and the retention.
LEMMA TypeBulkRequest ==
  ASSUME TypeInv, UNCHANGED deepOwn, NEW b \in Bulks,
         BulkApi(b) \/ StallBulk(b) \/ AgeBulk(b) \/ PurgeBulk(b)
  PROVE  TypeInv'
<1>1. /\ BulkTypeOK /\ DeepTypeOK /\ bulkRow \in [Bulks -> BulkRecord]
      /\ bulkRow[b] \in BulkRecord /\ bulkCall \in [Bulks -> BulkRequest]
      /\ bulkCall[b] \in BulkRequest /\ bulkQueue \in [Bulks -> JobEntry(BulkSlots)]
  BY DEF TypeInv, BulkTypeOK, DeepTypeOK, BulkRecord, BulkRequest
<1>2. UNCHANGED <<bulkSlot, bulkUp, stops>>
  BY DEF BulkApi, ResolveTarget, CreateBulkQueryJob, AddBulkJob, StallBulk, AgeBulk, PurgeBulk
<1>3. CallHasSearch /\ (bulkCall[b].at # "new" => bulkCall[b].d \in Searches)
  BY DEF TypeInv, CallHasSearch
<1> DEFINE Good == /\ bulkRow' \in [Bulks -> BulkRecord] /\ bulkCall' \in [Bulks -> BulkRequest]
                   /\ bulkQueue' \in [Bulks -> JobEntry(BulkSlots)]
                   /\ CallHasSearch'
                   /\ \A a \in Bulks : bulkRow[a].status # "none" => bulkRow'[a].status # "none"
<1>4. ASSUME ResolveTarget(b) PROVE Good
  <2>1. PICK d \in Searches : bulkCall' = [bulkCall EXCEPT ![b] = [at |-> "resolved", d |-> d]]
    BY <1>4 DEF ResolveTarget
  <2>2. UNCHANGED <<bulkRow, bulkQueue>>
    BY <1>4 DEF ResolveTarget
  <2> QED
    BY <1>1, <1>3, <2>1, <2>2 DEF CallHasSearch, BulkRequest
<1>5. ASSUME CreateBulkQueryJob(b) PROVE Good
  <2>1. bulkCall[b].at = "resolved" /\ UNCHANGED bulkQueue
    BY <1>5 DEF CreateBulkQueryJob
  <2>2. CASE bulkCall' = [bulkCall EXCEPT ![b].at = "over"] /\ UNCHANGED bulkRow
    BY <1>1, <1>3, <2>1, <2>2 DEF CallHasSearch, BulkRequest
  <2>3. CASE \E timely \in BOOLEAN :
               /\ bulkCall' = [bulkCall EXCEPT ![b].at = "inserted"]
               /\ bulkRow' = [bulkRow EXCEPT ![b] =
                    [status |-> "queued", d |-> bulkCall[b].d, timely |-> timely, old |-> FALSE]]
    <3>1. PICK timely \in BOOLEAN :
               bulkRow' = [bulkRow EXCEPT ![b] =
                    [status |-> "queued", d |-> bulkCall[b].d, timely |-> timely, old |-> FALSE]]
      BY <2>3
    <3>2. [status |-> "queued", d |-> bulkCall[b].d, timely |-> timely, old |-> FALSE] \in BulkRecord
      BY <1>3, <2>1 DEF BulkRecord, BulkStatus
    <3>3. bulkRow' \in [Bulks -> BulkRecord] /\ bulkRow'[b].status = "queued" /\ bulkRow'[b].d = bulkCall[b].d
      BY <1>1, <3>1, <3>2
    <3>4. \A a \in Bulks \ {b} : bulkRow'[a] = bulkRow[a]
      BY <1>1, <3>1
    <3>5. /\ bulkCall' \in [Bulks -> BulkRequest] /\ bulkCall'[b].d = bulkCall[b].d
          /\ \A a \in Bulks \ {b} : bulkCall'[a] = bulkCall[a]
      BY <1>1, <2>3 DEF BulkRequest
    <3> QED
      BY <1>1, <1>3, <2>1, <3>3, <3>4, <3>5 DEF CallHasSearch
  <2>4. Browsable(bulkCall[b].d) \in BOOLEAN
    BY DEF Browsable
  <2> QED
    BY <1>5, <2>2, <2>3, <2>4 DEF CreateBulkQueryJob, NoBulk
<1>6. ASSUME AddBulkJob(b) PROVE Good
  <2>1. /\ bulkCall' = [bulkCall EXCEPT ![b].at = "over"] /\ UNCHANGED bulkRow
        /\ bulkQueue' \in {bulkQueue, Added(bulkQueue, b)} /\ bulkCall[b].at = "inserted"
    BY <1>6 DEF AddBulkJob
  <2>2. bulkQueue' \in [Bulks -> JobEntry(BulkSlots)]
    BY <1>1, <2>1, QueueType
  <2>3. \A a \in Bulks \ {b} : bulkQueue'[a] = bulkQueue[a]
    BY <1>1, <2>1 DEF Added
  <2> QED
    BY <1>1, <1>3, <2>1, <2>2, <2>3 DEF CallHasSearch, BulkRequest
<1>7. ASSUME StallBulk(b) PROVE Good
  <2>1. /\ bulkQueue' = TakenBack(bulkQueue, b) /\ UNCHANGED bulkCall /\ bulkQueue[b].st = "active"
        /\ UNCHANGED bulkRow \/ BulkStatusTo(b, "failed")
    BY <1>7 DEF StallBulk
  <2>2. bulkQueue' \in [Bulks -> JobEntry(BulkSlots)]
    BY <1>1, <2>1, QueueType
  <2>3. \A a \in Bulks \ {b} : bulkQueue'[a] = bulkQueue[a]
    BY <1>1, <2>1 DEF TakenBack
  <2>4. bulkRow[b].status # "none"
    BY <1>3, <2>1 DEF CallHasSearch
  <2>5. /\ bulkRow' \in [Bulks -> BulkRecord]
        /\ \A a \in Bulks : bulkRow'[a].d = bulkRow[a].d
        /\ \A a \in Bulks : bulkRow'[a].status = "none" <=> bulkRow[a].status = "none"
    BY <1>1, <2>1, <2>4, StatusWritten
  <2> QED
    BY <1>1, <1>3, <2>1, <2>2, <2>3, <2>4, <2>5 DEF CallHasSearch
<1>8. ASSUME AgeBulk(b) \/ PurgeBulk(b) PROVE Good
  <2>1. /\ bulkRow' \in [Bulks -> BulkRecord]
        /\ \A a \in Bulks : bulkRow'[a].d = bulkRow[a].d
        /\ \A a \in Bulks : bulkRow'[a].status = "none" <=> bulkRow[a].status = "none"
    <3>1. /\ [bulkRow[b] EXCEPT !.old = TRUE] \in BulkRecord
          /\ [bulkRow[b] EXCEPT !.status = "purged"] \in BulkRecord
      BY <1>1 DEF BulkRecord, BulkStatus
    <3>2. CASE AgeBulk(b)
      BY <1>1, <3>1, <3>2 DEF AgeBulk, BulkRecord
    <3>3. CASE PurgeBulk(b)
      BY <1>1, <3>1, <3>3 DEF PurgeBulk, BulkRecord
    <3> QED
      BY <1>8, <3>2, <3>3
  <2>2. UNCHANGED <<bulkQueue, bulkCall>>
    BY <1>8 DEF AgeBulk, PurgeBulk
  <2> QED
    BY <1>1, <1>3, <2>1, <2>2 DEF CallHasSearch
<1>9. Good
  BY <1>4, <1>5, <1>6, <1>7, <1>8 DEF BulkApi
<1>10. DeepTypeOK'
  BY <1>1, <1>2, <1>9 DEF DeepTypeOK, BulkRecord, deepOwn
<1>11. BulkTypeOK'
  BY <1>1, <1>2, <1>9, <1>10 DEF BulkTypeOK, BulkRequest
<1> QED
  BY <1>2, <1>9, <1>11 DEF TypeInv, SlotsHaveSearch, SweepHasSearch, BulkSlotsHaveJob, deepOwn

\* A bulk slot takes a job or reports its end; crash and restart.
LEMMA TypeBulkSlot ==
  ASSUME TypeInv, UNCHANGED deepOwn,
         \/ CrashBulk \/ RestartBulk
         \/ \E s \in BulkSlots : SettleBulk(s) \/ \E b \in Bulks : TakeBulkJob(s, b)
  PROVE  TypeInv'
<1>1. /\ BulkTypeOK /\ DeepTypeOK /\ bulkSlot \in [BulkSlots -> BulkHandler]
      /\ bulkQueue \in [Bulks -> JobEntry(BulkSlots)]
  BY DEF TypeInv, BulkTypeOK, BulkHandler
<1>2. UNCHANGED <<bulkRow, bulkCall>> /\ BulkIdle \in BulkHandler
  <2>1. 0 \in 0 .. SpoolSize
    BY DeepAssumption
  <2> QED
    BY <2>1 DEF CrashBulk, RestartBulk, SettleBulk, TakeBulkJob, BulkIdle, BulkHandler
<1>3. ASSUME NEW b \in Bulks
      PROVE  LET r == [BulkIdle EXCEPT !.pc = "claim", !.b = b] IN
             r \in BulkHandler /\ r.pc = "claim" /\ r.b = b /\ r.after = 0 /\ r.got = 0
  <2>1. 0 \in 0 .. SpoolSize
    BY DeepAssumption
  <2> QED
    BY <2>1 DEF BulkIdle, BulkHandler
<1> DEFINE Good == /\ bulkSlot' \in [BulkSlots -> BulkHandler] /\ BulkSlotsHaveJob'
                   /\ bulkQueue' \in [Bulks -> JobEntry(BulkSlots)] /\ CallHasSearch'
                   /\ bulkUp' \in BOOLEAN /\ stops' \in 0 .. MaxStops
<1>4. ASSUME CrashBulk PROVE Good
  <2>1. bulkSlot' \in [BulkSlots -> BulkHandler] /\ UNCHANGED bulkQueue /\ bulkUp' \in BOOLEAN
    BY <1>2, <1>4 DEF CrashBulk
  <2>2. stops' \in 0 .. MaxStops
    BY <1>1, <1>4, QueueAssumption DEF CrashBulk, DeepTypeOK
  <2>3. BulkSlotsHaveJob' /\ CallHasSearch'
    BY <1>2, <1>4, <2>1 DEF CrashBulk, BulkIdle, TypeInv, BulkSlotsHaveJob, CallHasSearch
  <2> QED
    BY <1>1, <2>1, <2>2, <2>3
<1>5. ASSUME RestartBulk PROVE Good
  BY <1>1, <1>2, <1>5 DEF RestartBulk, TypeInv, BulkSlotsHaveJob, CallHasSearch, DeepTypeOK
<1>6. ASSUME NEW s \in BulkSlots, SettleBulk(s) PROVE Good
  <2>1. bulkSlot[s].b \in Bulks
    BY <1>6 DEF SettleBulk, BulkAt, TypeInv, BulkSlotsHaveJob
  <2>2. /\ bulkQueue' \in [Bulks -> JobEntry(BulkSlots)]
        /\ \A a \in Bulks : bulkQueue'[a].st # "absent" => bulkQueue[a].st # "absent"
    <3>1. bulkQueue[bulkSlot[s].b] \in JobEntry(BulkSlots)
      BY <1>1, <2>1
    <3> QED
      BY <1>1, <1>6, <2>1, <3>1, QueueType DEF SettleBulk, Settled, JobEntry
  <2>3. bulkSlot' \in [BulkSlots -> BulkHandler] /\ UNCHANGED <<bulkUp, stops>>
    BY <1>1, <1>2, <1>6 DEF SettleBulk
  <2>4. BulkSlotsHaveJob'
    BY <1>1, <1>2, <1>6 DEF SettleBulk, BulkIdle, TypeInv, BulkSlotsHaveJob
  <2>5. CallHasSearch'
    BY <1>2, <2>2 DEF TypeInv, CallHasSearch
  <2> QED
    BY <1>1, <2>2, <2>3, <2>4, <2>5 DEF BulkTypeOK, DeepTypeOK
<1>7. ASSUME NEW s \in BulkSlots, NEW b \in Bulks, TakeBulkJob(s, b) PROVE Good
  <2>1. bulkQueue[b].st = "waiting" /\ bulkQueue[b] \in JobEntry(BulkSlots)
    BY <1>1, <1>7 DEF TakeBulkJob
  <2>2. /\ bulkQueue' \in [Bulks -> JobEntry(BulkSlots)]
        /\ \A a \in Bulks : bulkQueue'[a].st # "absent" => bulkQueue[a].st # "absent"
    BY <1>1, <1>7, <2>1, QueueType DEF TakeBulkJob, Taken, JobEntry
  <2>3. bulkSlot' \in [BulkSlots -> BulkHandler] /\ UNCHANGED <<bulkUp, stops>>
    BY <1>1, <1>3, <1>7 DEF TakeBulkJob
  <2>4. BulkSlotsHaveJob'
    <3>1. bulkRow[b].status # "none"
      BY <2>1 DEF TypeInv, CallHasSearch
    <3>2. /\ bulkSlot'[s].b = b /\ bulkSlot'[s].after = 0 /\ bulkSlot'[s].got = 0
          /\ bulkSlot'[s].pc = "claim"
          /\ \A t \in BulkSlots \ {s} : bulkSlot'[t] = bulkSlot[t]
      BY <1>1, <1>3, <1>7 DEF TakeBulkJob
    <3> QED
      BY <1>2, <3>1, <3>2 DEF TypeInv, BulkSlotsHaveJob
  <2>5. CallHasSearch'
    BY <1>2, <2>2 DEF TypeInv, CallHasSearch
  <2> QED
    BY <1>1, <2>2, <2>3, <2>4, <2>5 DEF BulkTypeOK, DeepTypeOK
<1>8. Good
  BY <1>4, <1>5, <1>6, <1>7
<1>9. DeepTypeOK'
  BY <1>1, <1>2, <1>8 DEF DeepTypeOK, deepOwn
<1>10. BulkTypeOK'
  BY <1>1, <1>2, <1>8, <1>9 DEF BulkTypeOK, BulkHandler
<1> QED
  BY <1>8, <1>10 DEF TypeInv, SlotsHaveSearch, SweepHasSearch, deepOwn

\* No step breaks the types.
LEMMA TypeNext == TypeInv /\ [Next]_vars => TypeInv'
<1> SUFFICES ASSUME TypeInv, [Next]_vars PROVE TypeInv'
  OBVIOUS
<1>1. CASE DeepNext /\ UNCHANGED bulkOwn
  BY <1>1, TypeDeep
<1>2. CASE BulkNext /\ UNCHANGED deepOwn
  BY <1>2, TypeBulkRequest, TypePager, TypeBulkSlot DEF BulkNext, ProcessJob, Pages
<1>3. CASE UNCHANGED vars
  BY <1>3 DEF vars, deepOwn, bulkOwn, TypeInv, BulkTypeOK, DeepTypeOK, SlotsHaveSearch,
     SweepHasSearch, CallHasSearch, BulkSlotsHaveJob
<1> QED
  BY <1>1, <1>2, <1>3 DEF Next

\* Rows, spools, queues, handlers and sweep of the deep searches and the bulk
\* jobs are always well formed.
THEOREM BulkTypeCorrect == Spec => []BulkTypeOK
<1>1. TypeInv => BulkTypeOK
  BY DEF TypeInv
<1> QED
  BY TypeInit, TypeNext, <1>1, PTL DEF Spec

-----------------------------------------------------------------------------
(* Rows, handlers and spools *)

DeepInv == CancelWins /\ ClaimInv /\ SpoolInv

\* Nothing exists at the start.
LEMMA DeepStart == Init => DeepInv
  BY DEF Init, DeepInit, DeepInv, CancelWins, ClaimInv, SpoolInv, RowAndSpool, HandlerSpool,
     SweepSpool, NoRow, Idle, NoSweep, AtWork, Early

\* The searches a step does not touch.
OtherRows(d) == \A x \in Searches \ {d} : row'[x] = row[x] /\ spool'[x] = spool[x]

\* What a request, the stalled check or the clock does to a row.
LEMMA RequestWrites ==
  ASSUME TypeInv, NEW d \in Searches,
         Api(d) \/ RequestCancel(d) \/ ReadPastExpiry(d) \/ Stall(d) \/ Age(d)
  PROVE  /\ OtherRows(d) /\ UNCHANGED <<spool, slot, sweep>>
         /\ \A x \in Searches \ {d} : call'[x] = call[x]
         /\ \/ /\ row' = row
               /\ call'[d] \in {"new", "counted"} => call[d] \in {"new", "counted"}
            \/ /\ call[d] = "counted" /\ call'[d] = "inserted"
               /\ row'[d].status = "queued"
            \/ /\ UNCHANGED call /\ row[d].status = "queued" /\ row'[d].status = "cancelled"
            \/ /\ UNCHANGED call /\ row[d].status = "running" /\ row'[d].status = "running"
            \/ /\ UNCHANGED call /\ row[d].status = "completed" /\ row[d].age = "expired"
               /\ row'[d].status = "expired" /\ row'[d].age = "expired"
            \/ /\ UNCHANGED call /\ row'[d].cancel = row[d].cancel
               /\ row'[d].status = row[d].status /\ row'[d].age # "fresh"
               /\ row[d].status \in {"completed", "failed", "cancelled", "expired"}
<1>1. /\ row \in [Searches -> Row] /\ row[d] \in Row
      /\ call \in [Searches -> {"new", "counted", "inserted", "over"}]
  BY DEF TypeInv, BulkTypeOK, DeepTypeOK
<1>2. UNCHANGED <<spool, slot, sweep>>
  BY DEF Api, CountActive, CreateDeepSearch, AddJob, RequestCancel, ReadPastExpiry, Stall, Age
<1>3. OtherRows(d) /\ \A x \in Searches \ {d} : call'[x] = call[x]
  BY <1>1, <1>2 DEF OtherRows, Api, CountActive, CreateDeepSearch, AddJob, RequestCancel,
     ReadPastExpiry, Stall, Age
<1>4. CASE CountActive(d) \/ AddJob(d) \/ Stall(d)
  BY <1>1, <1>2, <1>3, <1>4 DEF CountActive, AddJob, Stall
<1>5. CASE CreateDeepSearch(d)
  BY <1>1, <1>2, <1>3, <1>5 DEF CreateDeepSearch, Row
<1>6. CASE RequestCancel(d)
  <2>1. /\ UNCHANGED call /\ row[d].status \in {"queued", "running"}
        /\ row'[d].status = IF row[d].status = "queued" THEN "cancelled" ELSE row[d].status
    BY <1>1, <1>6 DEF RequestCancel, Row
  <2> QED
    BY <1>2, <1>3, <2>1
<1>7. CASE ReadPastExpiry(d)
  BY <1>1, <1>2, <1>3, <1>7 DEF ReadPastExpiry, Flipped, Row
<1>8. CASE Age(d)
  <2>1. /\ row'[d].status = row[d].status /\ row'[d].cancel = row[d].cancel /\ row'[d].age # "fresh"
        /\ UNCHANGED call
    BY <1>1, <1>8 DEF Age, Row
  <2> QED
    BY <1>2, <1>3, <1>8, <2>1 DEF Age
<1> QED
  BY <1>4, <1>5, <1>6, <1>7, <1>8 DEF Api

\* What a handler does to its row and spool.
LEMMA WorkerWrites ==
  ASSUME TypeInv, ClaimInv, NEW s \in Slots, Works(s), NEW d, d = slot[s].d
  PROVE  /\ OtherRows(d)
         /\ \/ /\ slot[s].pc = "claim" /\ slot'[s].pc = "settle" /\ UNCHANGED <<row, spool>>
            \/ /\ slot[s].pc = "claim" /\ slot'[s].pc = "check" /\ UNCHANGED spool
               /\ row[d].status = "queued" /\ row'[d].status = "running"
            \/ /\ slot[s].pc \in Early /\ slot'[s].pc \in Early \cup {"mark", "last", "settle"}
               /\ UNCHANGED <<row, spool>>
            \/ /\ slot[s].pc = "commit" /\ slot'[s].pc = "complete"
               /\ UNCHANGED row /\ spool'[d] = Positions
            \/ /\ slot[s].pc = "complete" /\ slot'[s].pc = "settle" /\ UNCHANGED spool
               /\ ~row[d].cancel /\ ~row'[d].cancel
               /\ row'[d].status = "completed" /\ row'[d].age = "fresh"
            \/ /\ slot[s].pc \in {"complete", "wipe", "mark"} /\ UNCHANGED <<row, spool>>
               /\ \/ slot'[s].pc \in {"wipe", "settle"}
                  \/ slot'[s].pc = "last" /\ slot'[s].out = "failed"
                  \/ slot'[s].pc = "mark" /\ spool[d] = {}
            \/ /\ slot[s].pc = "last" /\ slot'[s].pc = "settle" /\ UNCHANGED <<row, spool>>
            \/ /\ slot[s].pc = "wipe" /\ slot'[s].pc = "wipe" /\ UNCHANGED row
               /\ spool'[d] \subseteq spool[d]
            \/ /\ slot[s].pc \in {"mark", "last"} /\ slot'[s].pc = "settle" /\ UNCHANGED spool
               /\ row'[d].status = slot[s].out /\ row'[d].age = "fresh"
<1>1. /\ row \in [Searches -> Row] /\ d \in Searches /\ row[d] \in Row
      /\ slot \in [Slots -> Slot] /\ slot[s] \in Slot
      /\ spool \in [Searches -> SUBSET Positions]
  BY WorkerFrame DEF TypeInv, BulkTypeOK, DeepTypeOK
<1>2. slot[s].pc \in AtWork => row[d].status = "running"
  BY DEF ClaimInv
<1>3. OtherRows(d)
  BY <1>1 DEF OtherRows, Works, ClaimForProcessing, CheckBefore, BeginInsert, EndInsert,
     CheckAfter, Commit, MarkCompleted, WipeSpool, Caught, MarkOver, SetStatus, DeleteBatch
<1>4. CASE ClaimForProcessing(s)
  <2>1. slot[s].pc = "claim" /\ UNCHANGED spool
    BY <1>4 DEF ClaimForProcessing, At
  <2>2. CASE row[d].status = "queued" /\ SetStatus(d, "running") /\ Goto(s, "check")
    <3>1. row'[d].status = "running"
      BY <1>1, <2>2 DEF SetStatus, Row
    <3> QED
      BY <1>3, <2>1, <2>2, <3>1, GoesOn DEF GoesTo
  <2>3. CASE UNCHANGED row /\ Goto(s, "settle")
    BY <1>3, <2>1, <2>3, GoesOn DEF GoesTo
  <2> QED
    BY <1>4, <2>2, <2>3 DEF ClaimForProcessing
<1>5. CASE CheckBefore(s) \/ EndInsert(s) \/ CheckAfter(s) \/ Caught(s)
  BY <1>3, <1>5, GoesOn DEF CheckBefore, EndInsert, CheckAfter, Caught, At, Early, GoesTo
<1>6. CASE BeginInsert(s)
  <2>1. CASE \E c \in Conns : slot' = [slot EXCEPT ![s].pc = "insert", ![s].conn = c]
    <3>1. slot'[s].pc = "insert"
      BY <1>1, <2>1 DEF Slot
    <3> QED
      BY <1>3, <1>6, <3>1 DEF BeginInsert, At, Early
  <2> QED
    BY <1>3, <1>6, <2>1, GoesOn DEF BeginInsert, At, Early, GoesTo
<1>7. CASE Commit(s)
  BY <1>1, <1>3, <1>7, GoesOn DEF Commit, At, Early, GoesTo
<1>8. CASE MarkCompleted(s)
  <2>1. slot[s].pc = "complete" /\ UNCHANGED spool
    BY <1>8 DEF MarkCompleted, At
  <2>2. CASE /\ ~row[d].cancel /\ Goto(s, "settle")
             /\ row' = [row EXCEPT ![d] = [@ EXCEPT !.status = "completed",
                                                    !.counted = TRUE, !.age = "fresh"]]
    <3>1. row'[d].status = "completed" /\ row'[d].age = "fresh" /\ row'[d].cancel = row[d].cancel
      BY <1>1, <2>2 DEF Row
    <3> QED
      BY <1>3, <2>1, <2>2, <3>1, GoesOn DEF GoesTo
  <2>3. CASE UNCHANGED row
    BY <1>3, <1>8, <2>1, <2>3, GoesOn DEF MarkCompleted, GoesTo
  <2> QED
    BY <1>8, <2>2, <2>3 DEF MarkCompleted, Completable
<1>9. CASE WipeSpool(s)
  <2>1. CASE DeleteBatch(d) /\ UNCHANGED slot
    BY <1>1, <1>3, <1>9, <2>1 DEF WipeSpool, At, DeleteBatch
  <2> QED
    BY <1>1, <1>3, <1>9, <2>1, GoesOn DEF WipeSpool, At, GoesTo
<1>10. CASE MarkOver(s)
  <2>1. slot[s].pc \in {"mark", "last"} /\ slot[s].out \in {"failed", "cancelled"}
    BY <1>1, <1>10 DEF MarkOver, At, Slot
  <2>2. row[d].status = "running"
    BY <1>2, <2>1 DEF AtWork
  <2>3. CASE SetStatus(d, slot[s].out) /\ Goto(s, "settle")
    BY <1>1, <1>3, <1>10, <2>1, <2>2, <2>3, GoesOn DEF MarkOver, SetStatus, Row, GoesTo
  <2> QED
    BY <1>3, <1>10, <2>1, <2>3, GoesOn DEF MarkOver, At, GoesTo
<1> QED
  BY <1>4, <1>5, <1>6, <1>7, <1>8, <1>9, <1>10 DEF Works

\* Requests leave running rows running, and what is over stays over.
LEMMA DeepRequest ==
  ASSUME TypeInv, DeepInv, NEW d \in Searches,
         Api(d) \/ RequestCancel(d) \/ ReadPastExpiry(d) \/ Stall(d) \/ Age(d)
  PROVE  DeepInv'
<1>1. OtherRows(d) /\ UNCHANGED <<spool, slot, sweep>> /\ sweep \in Sweep
  BY RequestWrites DEF TypeInv, BulkTypeOK, DeepTypeOK
<1>2. /\ RowAndSpool(d) /\ (call[d] \in {"new", "counted"} => row[d].status = "none")
      /\ row[d].status = "completed" => ~row[d].cancel
  BY DEF DeepInv, SpoolInv, ClaimInv, CancelWins
<1>3. /\ row[d].status = "running" => row'[d].status = "running"
      /\ Past(d) => Past(d)'
      /\ row'[d].status = "completed" => ~row'[d].cancel
      /\ call'[d] \in {"new", "counted"} => row'[d].status = "none"
      /\ RowAndSpool(d)'
  <2>1. CASE row' = row
    BY <1>1, <1>2, <2>1, RequestWrites DEF Past, RowAndSpool
  <2>2. CASE row' # row
    BY <1>1, <1>2, <2>2, RequestWrites DEF Past, RowAndSpool
  <2> QED
    BY <2>1, <2>2
<1>4. \A x \in Searches : /\ row[x].status = "running" => row'[x].status = "running"
                          /\ Past(x) => Past(x)'
                          /\ row'[x].status = "completed" => ~row'[x].cancel
                          /\ call'[x] \in {"new", "counted"} => row'[x].status = "none"
                          /\ RowAndSpool(x)'
  <2>1. ASSUME NEW x \in Searches \ {d}
        PROVE  /\ row'[x] = row[x] /\ spool'[x] = spool[x] /\ call'[x] = call[x]
               /\ RowAndSpool(x) /\ (row[x].status = "completed" => ~row[x].cancel)
               /\ call[x] \in {"new", "counted"} => row[x].status = "none"
    BY <1>1, RequestWrites DEF OtherRows, DeepInv, SpoolInv, CancelWins, ClaimInv
  <2> QED
    BY <1>3, <2>1 DEF Past, RowAndSpool
<1>5. ClaimInv' /\ CancelWins'
  BY <1>1, <1>4 DEF DeepInv, ClaimInv, CancelWins, TypeInv, SlotsHaveSearch, AtWork, Early
<1>6. HandlerSpool' /\ SweepSpool'
  BY <1>1, <1>4 DEF DeepInv, SpoolInv, HandlerSpool, SweepSpool, Sweep, TypeInv, SweepHasSearch
<1> QED
  BY <1>4, <1>5, <1>6 DEF DeepInv, SpoolInv

\* A handler claims a row nobody has claimed, and gives the row up with its own
\* last write.
LEMMA DeepWorker ==
  ASSUME TypeInv, DeepInv, NEW s \in Slots, Works(s)
  PROVE  DeepInv'
<1>1. PICK d \in Searches : d = slot[s].d
  BY WorkerFrame
<1>2. /\ slot'[s].d = d /\ \A t \in Slots \ {s} : slot'[t] = slot[t]
      /\ UNCHANGED <<call, sweep>> /\ sweep \in Sweep /\ OtherRows(d)
  BY <1>1, WorkerFrame, WorkerWrites DEF DeepInv, TypeInv, BulkTypeOK, DeepTypeOK
<1>3. /\ RowAndSpool(d) /\ (call[d] \in {"new", "counted"} => row[d].status = "none")
      /\ row[d].status = "completed" => ~row[d].cancel
      /\ \A t \in Slots : slot[t].pc \in AtWork /\ slot[t].d = d => row[d].status = "running"
      /\ \A t \in Slots \ {s} : slot[t].pc \in AtWork /\ slot[t].d = d => slot[s].pc \notin AtWork
  BY <1>1 DEF DeepInv, SpoolInv, ClaimInv, CancelWins
<1>4. /\ slot[s].pc \in Early => spool[d] = {}
      /\ slot[s].pc = "complete" => spool[d] = Positions
      /\ slot[s].pc \in {"mark", "last"} /\ slot[s].out = "cancelled" => spool[d] = {}
      /\ slot[s].pc \in AtWork => row[d].status = "running"
  BY <1>1, <1>3 DEF DeepInv, SpoolInv, HandlerSpool
<1>5. slot[s].out \in {"failed", "cancelled"}
  BY DEF TypeInv, BulkTypeOK, DeepTypeOK, Slot
<1>6. /\ slot'[s].pc \in AtWork =>
           /\ row'[d].status = "running"
           /\ \A t \in Slots \ {s} : slot[t].pc \in AtWork => slot[t].d # d
      /\ slot'[s].pc \in Early => spool'[d] = {}
      /\ slot'[s].pc = "complete" => spool'[d] = Positions
      /\ slot'[s].pc \in {"mark", "last"} /\ slot'[s].out = "cancelled" => spool'[d] = {}
      /\ \A t \in Slots \ {s} : slot[t].pc \in AtWork /\ slot[t].d = d => UNCHANGED <<row, spool>>
      /\ call[d] \in {"new", "counted"} => row'[d].status = "none"
      /\ row'[d].status = "completed" => ~row'[d].cancel
      /\ Past(d) => Past(d)' /\ (spool[d] = {} => spool'[d] = {})
      /\ RowAndSpool(d)'
  <2> USE <1>1, <1>3, <1>4, WorkerWrites DEF AtWork, Early, Past, RowAndSpool, DeepInv
  <2>1. CASE slot[s].pc = "claim"
    BY <2>1
  <2>2. CASE slot[s].pc \in Early
    BY <2>2
  <2>3. CASE slot[s].pc \in {"complete", "wipe"}
    BY <2>3
  <2>4. CASE slot[s].pc \in {"mark", "last"}
    BY <1>5, <2>4
  <2> QED
    BY <2>1, <2>2, <2>3, <2>4
<1>7. ClaimInv'
  BY <1>2, <1>6 DEF DeepInv, ClaimInv, OtherRows, TypeInv, SlotsHaveSearch, AtWork, Early
<1>8. CancelWins' /\ (\A x \in Searches : RowAndSpool(x)' /\ (Past(x) => Past(x)'))
  <2>1. ASSUME NEW x \in Searches \ {d}
        PROVE  /\ row'[x] = row[x] /\ spool'[x] = spool[x]
               /\ RowAndSpool(x) /\ (row[x].status = "completed" => ~row[x].cancel)
    BY <1>2 DEF OtherRows, DeepInv, SpoolInv, CancelWins
  <2> QED
    BY <1>6, <2>1 DEF CancelWins, Past, RowAndSpool
<1>9. HandlerSpool'
  BY <1>2, <1>6 DEF DeepInv, SpoolInv, HandlerSpool, OtherRows, TypeInv, SlotsHaveSearch, AtWork, Early
<1>10. SweepSpool'
  BY <1>2, <1>6, <1>8 DEF DeepInv, SpoolInv, SweepSpool, OtherRows, Sweep, TypeInv, SweepHasSearch
<1> QED
  BY <1>7, <1>8, <1>9, <1>10 DEF DeepInv, SpoolInv

\* Taking and reporting a job, the watcher and its signals, crash and restart
\* touch neither rows nor spools.
LEMMA DeepProcess ==
  ASSUME TypeInv, DeepInv,
         \/ \E s \in Slots : Settle(s) \/ Watch(s) \/ \E d \in Searches : TakeJob(s, d)
         \/ (\E m \in signals : Signal(m)) \/ Crash \/ Restart
  PROVE  /\ DeepInv' /\ UNCHANGED <<row, spool, call>>
         /\ UNCHANGED sweep \/ sweep' = NoSweep
<1>1. UNCHANGED <<row, spool, call>> /\ (UNCHANGED sweep \/ sweep' = NoSweep)
  BY DEF Settle, Watch, TakeJob, Signal, Crash, Restart
<1>2. \A t \in Slots : \/ slot'[t] = slot[t]
                       \/ slot'[t].pc \in {"idle", "claim"}
                       \/ /\ slot[t].pc = "insert" /\ slot'[t].pc \in {"insert", "caught"}
                          /\ slot'[t].d = slot[t].d
  <2>1. slot \in [Slots -> Slot]
    BY DEF TypeInv, BulkTypeOK, DeepTypeOK
  <2>2. CASE \E s \in Slots : Settle(s)
    BY <2>1, <2>2 DEF Settle, Idle
  <2>3. CASE \E s \in Slots : Watch(s)
    <3>1. PICK s \in Slots : Watch(s)
      BY <2>3
    <3>2. slot[s] \in Slot /\ slot[s].pc = "insert" /\ slot' = [slot EXCEPT ![s].sig = TRUE]
      BY <2>1, <3>1 DEF Watch, At
    <3>3. slot'[s].pc = "insert" /\ slot'[s].d = slot[s].d
      BY <2>1, <3>2 DEF Slot
    <3> QED
      BY <2>1, <3>2, <3>3
  <2>4. CASE \E s \in Slots : \E d \in Searches : TakeJob(s, d)
    BY <2>1, <2>4 DEF TakeJob, Idle
  <2>5. CASE \E m \in signals : Signal(m)
    BY <2>5, SignalStops
  <2>6. CASE Crash \/ Restart
    BY <2>6 DEF Crash, Restart, Idle
  <2> QED
    BY <2>2, <2>3, <2>4, <2>5, <2>6
<1>3. ClaimInv' /\ CancelWins'
  BY <1>1, <1>2 DEF DeepInv, ClaimInv, CancelWins, AtWork, Early
<1>4. HandlerSpool'
  BY <1>1, <1>2 DEF DeepInv, SpoolInv, HandlerSpool, Early
<1>5. SweepSpool' /\ \A d \in Searches : RowAndSpool(d)'
  BY <1>1 DEF DeepInv, SpoolInv, SweepSpool, RowAndSpool, Past, NoSweep
<1> QED
  BY <1>1, <1>3, <1>4, <1>5 DEF DeepInv, SpoolInv

\* What the sweep does to rows and spools.
LEMMA SweepWrites ==
  ASSUME TypeInv, DeepInv, Cleanup
  PROVE  /\ UNCHANGED <<call, slot>>
         /\ \/ /\ UNCHANGED <<row, spool>> /\ sweep'.pc \in {"idle", "next"}
               /\ \A x \in sweep'.todo : x \in Searches /\ Past(x)
            \/ /\ UNCHANGED <<row, spool>> /\ sweep'.pc = "wipe"
               /\ sweep'.d \in sweep.todo /\ ~HasActiveBulkJob(sweep'.d)
               /\ sweep'.todo \subseteq sweep.todo
            \/ /\ UNCHANGED <<row, spool>> /\ sweep.pc = "wipe" /\ sweep'.pc = "row"
               /\ sweep'.d = sweep.d /\ sweep'.todo = sweep.todo /\ spool[sweep.d] = {}
            \/ /\ UNCHANGED <<row, sweep>> /\ sweep.pc = "wipe"
               /\ \E p \in spool[sweep.d] : spool' = [spool EXCEPT ![sweep.d] = @ \ {p}]
            \/ /\ UNCHANGED spool /\ sweep.pc = "row" /\ sweep'.pc = "next"
               /\ sweep'.todo = sweep.todo
               /\ \A x \in Searches \ {sweep.d} : row'[x] = row[x]
               /\ \/ row' = row
                  \/ /\ row[sweep.d].status \in {"completed", "expired"}
                     /\ row'[sweep.d].status = "expired" /\ row'[sweep.d].age = row[sweep.d].age
                  \/ /\ row[sweep.d].status \in {"expired", "failed", "cancelled"}
                     /\ row'[sweep.d].status = "purged"
<1>1. /\ sweep \in Sweep /\ row \in [Searches -> Row]
      /\ \A x \in sweep.todo : x \in Searches /\ Past(x)
  BY DEF TypeInv, BulkTypeOK, DeepTypeOK, Sweep, DeepInv, SpoolInv, SweepSpool
<1>2. UNCHANGED <<call, slot>>
  BY DEF Cleanup, SweepBegin, SweepCheck, SweepWipe, SweepRow, SweepEnd
<1>3. CASE SweepBegin \/ SweepEnd
  <2>1. PICK pc \in {"idle", "next"}, what \in {"expire", "purge"}, todo \in {{}, Expired, Stale} :
          sweep' = [pc |-> pc, what |-> what, todo |-> todo, d |-> None]
    BY <1>3 DEF SweepBegin, SweepEnd, NoSweep
  <2>2. \A x \in todo : x \in Searches /\ Past(x)
    BY DEF Expired, Stale, Past
  <2>3. UNCHANGED <<row, spool>>
    BY <1>3 DEF SweepBegin, SweepEnd
  <2> QED
    BY <1>2, <2>1, <2>2, <2>3
<1>4. CASE SweepCheck
  <2>1. PICK d \in sweep.todo :
          sweep' = IF HasActiveBulkJob(d) THEN [sweep EXCEPT !.todo = @ \ {d}]
                   ELSE [sweep EXCEPT !.todo = @ \ {d}, !.pc = "wipe", !.d = d]
    BY <1>4 DEF SweepCheck
  <2>2. sweep.pc = "next" /\ UNCHANGED <<row, spool>>
    BY <1>4 DEF SweepCheck
  <2>3. CASE HasActiveBulkJob(d)
    <3>1. sweep'.pc = "next" /\ sweep'.todo = sweep.todo \ {d}
      BY <1>1, <2>1, <2>2, <2>3 DEF Sweep
    <3> QED
      BY <1>1, <1>2, <2>2, <3>1
  <2>4. CASE ~HasActiveBulkJob(d)
    <3>1. sweep'.pc = "wipe" /\ sweep'.d = d /\ sweep'.todo = sweep.todo \ {d}
      BY <1>1, <2>1, <2>4 DEF Sweep
    <3> QED
      BY <1>2, <2>2, <2>4, <3>1
  <2> QED
    BY <2>3, <2>4
<1>5. CASE SweepWipe
  <2>1. CASE DeleteBatch(sweep.d) /\ UNCHANGED sweep
    BY <1>2, <1>5, <2>1 DEF SweepWipe, DeleteBatch
  <2>2. CASE spool[sweep.d] = {} /\ UNCHANGED spool /\ sweep' = [sweep EXCEPT !.pc = "row"]
    BY <1>1, <1>2, <1>5, <2>2 DEF SweepWipe, Sweep
  <2> QED
    BY <1>5, <2>1, <2>2 DEF SweepWipe
<1>6. CASE SweepRow
  <2>1. sweep.pc = "row" /\ sweep.d \in Searches /\ row[sweep.d] \in Row /\ UNCHANGED spool
    BY <1>1, <1>6 DEF SweepRow, TypeInv, SweepHasSearch
  <2>2. sweep'.pc = "next" /\ sweep'.todo = sweep.todo
    BY <1>1, <1>6 DEF SweepRow, Sweep
  <2>3. \A x \in Searches \ {sweep.d} : row'[x] = row[x]
    BY <1>1, <1>6 DEF SweepRow
  <2>4. row' = [row EXCEPT ![sweep.d] =
          IF sweep.what = "expire" THEN Flipped(@)
          ELSE IF @.status \in {"expired", "failed", "cancelled"}
               THEN [@ EXCEPT !.status = "purged"] ELSE @]
    BY <1>6 DEF SweepRow
  <2>5. CASE sweep.what = "expire" /\ row[sweep.d].status \in {"completed", "expired"}
    <3>1. row'[sweep.d].status = "expired" /\ row'[sweep.d].age = row[sweep.d].age
      BY <1>1, <2>1, <2>4, <2>5 DEF Flipped, Row
    <3> QED
      BY <1>2, <2>1, <2>2, <2>3, <2>5, <3>1
  <2>6. CASE sweep.what # "expire" /\ row[sweep.d].status \in {"expired", "failed", "cancelled"}
    <3>1. row'[sweep.d].status = "purged"
      BY <1>1, <2>1, <2>4, <2>6 DEF Row
    <3> QED
      BY <1>2, <2>1, <2>2, <2>3, <2>6, <3>1
  <2>7. CASE row' = row
    BY <1>2, <2>1, <2>2, <2>3, <2>7
  <2> QED
    BY <1>1, <2>4, <2>5, <2>6, <2>7 DEF Flipped
<1> QED
  BY <1>3, <1>4, <1>5, <1>6 DEF Cleanup

\* The sweep deletes rows of searches that are over only.
LEMMA DeepSweep ==
  ASSUME TypeInv, DeepInv, Cleanup
  PROVE  DeepInv'
<1>1. /\ sweep \in Sweep /\ spool \in [Searches -> SUBSET Positions]
      /\ UNCHANGED <<call, slot>> /\ (sweep.pc \in {"wipe", "row"} => sweep.d \in Searches)
      /\ \A x \in sweep.todo : x \in Searches /\ Past(x)
      /\ sweep.pc \in {"wipe", "row"} => Past(sweep.d)
      /\ sweep.pc = "row" => spool[sweep.d] = {}
  BY SweepWrites DEF TypeInv, BulkTypeOK, DeepTypeOK, Sweep, SweepHasSearch, DeepInv, SpoolInv,
     SweepSpool
<1>2. CASE UNCHANGED <<row, spool>>
  <2>1. SweepSpool'
    BY <1>1, <1>2, SweepWrites DEF SweepSpool, Past
  <2> QED
    BY <1>1, <1>2, <2>1 DEF DeepInv, CancelWins, ClaimInv, SpoolInv, RowAndSpool, HandlerSpool, Past
<1>3. CASE /\ UNCHANGED <<row, sweep>> /\ sweep.pc = "wipe"
           /\ \E p \in spool[sweep.d] : spool' = [spool EXCEPT ![sweep.d] = @ \ {p}]
  <2>1. PICK d \in Searches : d = sweep.d /\ Past(d)
    BY <1>1, <1>3
  <2>2. /\ \A x \in Searches \ {d} : spool'[x] = spool[x]
        /\ spool'[d] \subseteq spool[d]
    BY <1>1, <1>3, <2>1
  <2>3. \A t \in Slots : slot[t].pc \in AtWork => slot[t].d # d
    BY <2>1 DEF DeepInv, ClaimInv, Past
  <2>4. HandlerSpool'
    BY <1>1, <2>2, <2>3 DEF DeepInv, SpoolInv, HandlerSpool, AtWork, Early, TypeInv, SlotsHaveSearch
  <2>5. \A x \in Searches : RowAndSpool(x)'
    BY <1>3, <2>1, <2>2 DEF DeepInv, SpoolInv, RowAndSpool, Past
  <2>6. SweepSpool'
    BY <1>1, <1>3 DEF SweepSpool, Past
  <2> QED
    BY <1>1, <1>3, <2>4, <2>5, <2>6 DEF DeepInv, CancelWins, ClaimInv, SpoolInv
<1>4. CASE UNCHANGED spool /\ row' # row
  <2>1. PICK d \in Searches : d = sweep.d /\ Past(d) /\ spool[d] = {}
    BY <1>1, <1>4, SweepWrites
  <2>2. /\ \A x \in Searches \ {d} : row'[x] = row[x]
        /\ \/ /\ row[d].status \in {"completed", "expired"}
              /\ row'[d].status = "expired" /\ row'[d].age = row[d].age
           \/ /\ row[d].status \in {"expired", "failed", "cancelled"}
              /\ row'[d].status = "purged"
        /\ sweep'.pc = "next" /\ sweep'.todo = sweep.todo
    BY <1>4, <2>1, SweepWrites
  <2>3. \A t \in Slots : slot[t].pc \in AtWork => slot[t].d # d
    BY <2>1 DEF DeepInv, ClaimInv, Past
  <2>4. \A x \in Searches : RowAndSpool(x)' /\ (Past(x) => Past(x)')
    BY <1>4, <2>1, <2>2 DEF DeepInv, SpoolInv, RowAndSpool, Past
  <2>5. SweepSpool'
    BY <1>1, <1>4, <2>2, <2>4 DEF SweepSpool
  <2>6. ClaimInv' /\ CancelWins'
    BY <1>1, <2>1, <2>2, <2>3 DEF DeepInv, ClaimInv, CancelWins, Past, TypeInv, SlotsHaveSearch, AtWork, Early
  <2>7. HandlerSpool'
    BY <1>1, <1>4 DEF DeepInv, SpoolInv, HandlerSpool
  <2> QED
    BY <2>4, <2>5, <2>6, <2>7 DEF DeepInv, SpoolInv
<1> QED
  BY <1>2, <1>3, <1>4, SweepWrites

\* No step breaks the invariant; the bulk jobs only read rows and spools.
LEMMA DeepStep == TypeInv /\ DeepInv /\ [Next]_vars => DeepInv'
<1> SUFFICES ASSUME TypeInv, DeepInv, [Next]_vars PROVE DeepInv'
  OBVIOUS
<1>1. CASE DeepNext
  <2>1. CASE \E d \in Searches : \/ Api(d) \/ RequestCancel(d) \/ ReadPastExpiry(d)
                                 \/ Stall(d) \/ Age(d)
    BY <2>1, DeepRequest
  <2>2. CASE \E s \in Slots : RunDeepSearch(s) \/ Watch(s)
    BY <2>2, DeepWorker, DeepProcess DEF RunDeepSearch, Works
  <2>3. CASE (\E m \in signals : Signal(m)) \/ Crash \/ Restart
    BY <2>3, DeepProcess
  <2>4. CASE Cleanup
    BY <2>4, DeepSweep
  <2> QED
    BY <1>1, <2>1, <2>2, <2>3, <2>4 DEF DeepNext
<1>2. CASE UNCHANGED deepOwn
  BY <1>2 DEF deepOwn, DeepInv, CancelWins, ClaimInv, SpoolInv, RowAndSpool, HandlerSpool,
     SweepSpool, Past
<1> QED
  BY <1>1, <1>2 DEF Next, vars

\* A search that was asked to stop is never presented as completed, however the
\* request falls between the handler's checks, its COMMIT and markCompleted.
THEOREM CancelPrevails == Spec => []CancelWins
<1>1. DeepInv => CancelWins
  BY DEF DeepInv
<1> QED
  BY TypeInit, TypeNext, DeepStart, DeepStep, <1>1, PTL DEF Spec

\* Result rows never outlive the row of their search: the sweep deletes the row
\* only after the last batch, and no handler fills the spool of a search that is
\* over.
THEOREM SpoolsHaveRows == Spec => []SpoolHasRow
<1>1. DeepInv => SpoolHasRow
  BY DEF DeepInv, SpoolInv, RowAndSpool, SpoolHasRow
<1> QED
  BY TypeInit, TypeNext, DeepStart, DeepStep, <1>1, PTL DEF Spec

\* A completed search within its retention has every result row.
CompletedWhole ==
  \A d \in Searches :
    row[d].status = "completed" /\ row[d].age = "fresh" => spool[d] = Positions

\* Whoever pages through a completed search that has not expired finds all of
\* its rows: neither another delivery of the job, nor a late cancel, nor the
\* sweep removes or adds any.
THEOREM CompletedSearchesWhole == Spec => []CompletedWhole
<1>1. DeepInv => CompletedWhole
  BY DEF DeepInv, SpoolInv, RowAndSpool, CompletedWhole
<1> QED
  BY TypeInit, TypeNext, DeepStart, DeepStep, <1>1, PTL DEF Spec

-----------------------------------------------------------------------------
(* The life cycle a search's user is promised *)

\* The refinement mapping, search by search.
StatusBar(d) == CASE row[d].status = "running" -> "claimed"
                  [] row[d].status = "completed" -> "ready"
                  [] OTHER -> row[d].status
HasResult(d) == spool[d] = Positions /\ row[d].status # "running"
HasLapsed(d) == row[d].status \in {"completed", "expired"} /\ row[d].age # "fresh"

statusBar == [d \in Searches |-> StatusBar(d)]
resultBar == {d \in Searches : HasResult(d)}
lapsedBar == {d \in Searches : HasLapsed(d)}

\* The search d does what its life cycle allows in one step.
LifeStep(d) ==
  \/ Jobs!Submit(d) \/ Jobs!Claim(d) \/ Jobs!Finish(d) \/ Jobs!Fail(d) \/ Jobs!Cancel(d)
  \/ Jobs!Lapse(d) \/ Jobs!Drop(d) \/ Jobs!Expire(d) \/ Jobs!Purge(d)
  \/ UNCHANGED Jobs!vars

\* A step that touches one search changes the mapped variables there.
LEMMA BarStep ==
  ASSUME NEW d \in Searches, OtherRows(d)
  PROVE  /\ statusBar' = [statusBar EXCEPT ![d] = StatusBar(d)']
         /\ resultBar' = IF HasResult(d)' THEN resultBar \cup {d} ELSE resultBar \ {d}
         /\ lapsedBar' = IF HasLapsed(d)' THEN lapsedBar \cup {d} ELSE lapsedBar \ {d}
<1>1. \A x \in Searches \ {d} : /\ StatusBar(x)' = StatusBar(x)
                                /\ HasResult(x)' = HasResult(x)
                                /\ HasLapsed(x)' = HasLapsed(x)
  BY DEF OtherRows, StatusBar, HasResult, HasLapsed
<1>2. statusBar' = [statusBar EXCEPT ![d] = StatusBar(d)']
  BY <1>1 DEF statusBar
<1>3. resultBar' = IF HasResult(d)' THEN resultBar \cup {d} ELSE resultBar \ {d}
  BY <1>1 DEF resultBar
<1>4. lapsedBar' = IF HasLapsed(d)' THEN lapsedBar \cup {d} ELSE lapsedBar \ {d}
  BY <1>1 DEF lapsedBar
<1> QED
  BY <1>2, <1>3, <1>4

\* The moves of the life cycle, in terms of the mapping.
BarMove(d) ==
  \/ /\ StatusBar(d)' = StatusBar(d) /\ HasResult(d)' = HasResult(d)
     /\ HasLapsed(d)' = HasLapsed(d)
  \/ /\ StatusBar(d) = "none" /\ StatusBar(d)' = "queued"
     /\ HasResult(d)' = HasResult(d) /\ HasLapsed(d)' = HasLapsed(d)
  \/ /\ StatusBar(d) = "queued" /\ StatusBar(d)' = "claimed"
     /\ ~HasResult(d) /\ ~HasResult(d)' /\ HasLapsed(d)' = HasLapsed(d)
  \/ /\ StatusBar(d) = "claimed" /\ StatusBar(d)' = "ready"
     /\ HasResult(d)' /\ HasLapsed(d)' = HasLapsed(d)
  \/ /\ StatusBar(d) = "claimed" /\ StatusBar(d)' = "failed"
     /\ HasResult(d) => HasResult(d)'
     /\ HasLapsed(d)' = HasLapsed(d)
  \/ /\ StatusBar(d) \in {"queued", "claimed"} /\ StatusBar(d)' = "cancelled"
     /\ HasResult(d)' = HasResult(d) /\ HasLapsed(d)' = HasLapsed(d)
  \/ /\ StatusBar(d) = "ready" /\ StatusBar(d)' = "ready"
     /\ HasResult(d)' = HasResult(d) /\ HasLapsed(d)'
  \/ /\ StatusBar(d)' = StatusBar(d) /\ HasResult(d) /\ ~HasResult(d)'
     /\ StatusBar(d) # "ready" \/ HasLapsed(d)
     /\ HasLapsed(d)' = HasLapsed(d)
  \/ /\ StatusBar(d) = "ready" /\ StatusBar(d)' = "expired" /\ HasLapsed(d)
     /\ HasResult(d)' = HasResult(d) /\ HasLapsed(d)'
  \/ /\ StatusBar(d) \in {"failed", "cancelled", "expired"}
     /\ StatusBar(d)' = "purged"
     /\ HasResult(d)' = HasResult(d) /\ ~HasLapsed(d)'

\* A step that moves one search along is a step of the life cycle.
LEMMA BarMoves ==
  ASSUME NEW d \in Searches, OtherRows(d), BarMove(d)
  PROVE  LifeStep(d)
<1>1. /\ statusBar' = [statusBar EXCEPT ![d] = StatusBar(d)']
      /\ resultBar' = IF HasResult(d)' THEN resultBar \cup {d} ELSE resultBar \ {d}
      /\ lapsedBar' = IF HasLapsed(d)' THEN lapsedBar \cup {d} ELSE lapsedBar \ {d}
  BY BarStep
<1>2. /\ statusBar[d] = StatusBar(d) /\ statusBar = [x \in Searches |-> statusBar[x]]
      /\ d \in resultBar <=> HasResult(d)
      /\ d \in lapsedBar <=> HasLapsed(d)
  BY DEF statusBar, resultBar, lapsedBar
<1> DEFINE to(x) == statusBar' = [statusBar EXCEPT ![d] = x]
<1> USE DEF Jobs!Move, statusBar, resultBar, lapsedBar, StatusBar, HasResult, HasLapsed
<1>3. /\ Jobs!Submit(d) <=>
           statusBar[d] = "none" /\ to("queued") /\ UNCHANGED <<resultBar, lapsedBar>>
      /\ Jobs!Claim(d) <=>
           /\ statusBar[d] = "queued" /\ to("claimed") /\ d \notin resultBar
           /\ UNCHANGED <<resultBar, lapsedBar>>
      /\ Jobs!Finish(d) <=>
           /\ statusBar[d] = "claimed" /\ to("ready") /\ resultBar' = resultBar \cup {d}
           /\ UNCHANGED lapsedBar
  BY DEF Jobs!Submit, Jobs!Claim, Jobs!Finish
<1>4. /\ Jobs!Fail(d) <=>
           /\ statusBar[d] = "claimed" /\ to("failed")
           /\ resultBar' \in {resultBar, resultBar \cup {d}} /\ UNCHANGED lapsedBar
      /\ Jobs!Cancel(d) <=>
           /\ statusBar[d] \in {"queued", "claimed"} /\ to("cancelled")
           /\ UNCHANGED <<resultBar, lapsedBar>>
      /\ Jobs!Lapse(d) <=>
           /\ statusBar[d] = "ready" /\ lapsedBar' = lapsedBar \cup {d}
           /\ UNCHANGED <<statusBar, resultBar>>
  BY DEF Jobs!Fail, Jobs!Cancel, Jobs!Lapse
<1>5. /\ Jobs!Drop(d) <=>
           /\ d \in resultBar /\ (statusBar[d] # "ready" \/ d \in lapsedBar)
           /\ resultBar' = resultBar \ {d} /\ UNCHANGED <<statusBar, lapsedBar>>
      /\ Jobs!Expire(d) <=>
           /\ statusBar[d] = "ready" /\ to("expired") /\ d \in lapsedBar
           /\ UNCHANGED <<resultBar, lapsedBar>>
      /\ Jobs!Purge(d) <=>
           /\ statusBar[d] \in {"failed", "cancelled", "expired"} /\ to("purged")
           /\ lapsedBar' = lapsedBar \ {d} /\ UNCHANGED resultBar
      /\ UNCHANGED Jobs!vars <=> UNCHANGED <<statusBar, resultBar, lapsedBar>>
  BY DEF Jobs!Drop, Jobs!Expire, Jobs!Purge, Jobs!vars
<1> HIDE DEF statusBar, resultBar, lapsedBar, StatusBar, HasResult, HasLapsed
<1> QED
  BY <1>1, <1>2, <1>3, <1>4, <1>5 DEF LifeStep, BarMove

\* Requests and the clock: Submit, Cancel, Expire or Lapse.
LEMMA LifeRequest ==
  ASSUME TypeInv, DeepInv, NEW d \in Searches,
         Api(d) \/ RequestCancel(d) \/ ReadPastExpiry(d) \/ Stall(d) \/ Age(d)
  PROVE  LifeStep(d)
<1>1. OtherRows(d) /\ UNCHANGED spool
  BY RequestWrites
<1>2. RowAndSpool(d) /\ (call[d] = "counted" => row[d].status = "none")
  BY DEF DeepInv, SpoolInv, ClaimInv
<1>3. CASE row' = row
  BY <1>1, <1>3, BarMoves DEF BarMove, StatusBar, HasResult, HasLapsed
<1>4. CASE row' # row
  <2>1. BarMove(d)
    BY <1>1, <1>2, <1>4, RequestWrites DEF BarMove, StatusBar, HasResult, HasLapsed, RowAndSpool
  <2> QED
    BY <1>1, <2>1, BarMoves
<1> QED
  BY <1>3, <1>4

\* A handler: Claim, Finish, Fail or Cancel; what it spools for a running search
\* is nobody's result yet.
LEMMA LifeWorker ==
  ASSUME TypeInv, DeepInv, SpoolSize > 0, NEW s \in Slots, Works(s)
  PROVE  \E d \in Searches : LifeStep(d)
<1>1. PICK d \in Searches : d = slot[s].d
  BY WorkerFrame
<1>2. /\ slot[s].pc \in Early => spool[d] = {}
      /\ slot[s].pc = "complete" => spool[d] = Positions
      /\ slot[s].pc \in {"mark", "last"} /\ slot[s].out = "cancelled" => spool[d] = {}
      /\ slot[s].pc \in AtWork => row[d].status = "running"
      /\ RowAndSpool(d) /\ ClaimInv
  BY <1>1 DEF DeepInv, SpoolInv, HandlerSpool, ClaimInv
<1>3. Positions # {} /\ slot[s].out \in {"failed", "cancelled"}
  <2>1. 1 \in Positions
    BY DeepAssumption DEF Positions
  <2>2. slot[s].out \in {"failed", "cancelled"}
    BY DEF TypeInv, BulkTypeOK, DeepTypeOK, Slot
  <2> QED
    BY <2>1, <2>2
<1>4. OtherRows(d)
  BY <1>1, <1>2, WorkerWrites
<1>5. BarMove(d)
  <2> USE <1>1, <1>2, <1>3, WorkerWrites DEF AtWork, Early, RowAndSpool,
          BarMove, StatusBar, HasResult, HasLapsed
  <2>1. CASE slot[s].pc = "claim"
    BY <2>1
  <2>2. CASE slot[s].pc \in Early
    BY <2>2
  <2>3. CASE slot[s].pc = "complete"
    BY <2>3
  <2>4. CASE slot[s].pc = "wipe"
    BY <2>4
  <2>5. CASE slot[s].pc \in {"mark", "last"}
    BY <2>5
  <2> QED
    BY <2>1, <2>2, <2>3, <2>4, <2>5
<1> QED
  BY <1>4, <1>5, BarMoves

\* The sweep: Drop of a spool past its retention, Expire or Purge.
LEMMA LifeSweep ==
  ASSUME TypeInv, DeepInv, Cleanup
  PROVE  UNCHANGED <<row, spool>> \/ \E d \in Searches : LifeStep(d)
<1>1. /\ spool \in [Searches -> SUBSET Positions]
      /\ sweep.pc \in {"wipe", "row"} => sweep.d \in Searches /\ Past(sweep.d)
  BY DEF TypeInv, BulkTypeOK, DeepTypeOK, SweepHasSearch, DeepInv, SpoolInv, SweepSpool
<1>2. CASE /\ UNCHANGED row /\ sweep.pc = "wipe"
           /\ \E p \in spool[sweep.d] : spool' = [spool EXCEPT ![sweep.d] = @ \ {p}]
  <2>1. PICK d \in Searches : d = sweep.d /\ Past(d)
    BY <1>1, <1>2
  <2>2. OtherRows(d) /\ spool'[d] # Positions
    BY <1>1, <1>2, <2>1 DEF OtherRows
  <2>3. BarMove(d)
    BY <1>2, <2>1, <2>2 DEF BarMove, StatusBar, HasResult, HasLapsed, Past
  <2> QED
    BY <2>2, <2>3, BarMoves
<1>3. CASE UNCHANGED spool /\ row' # row
  <2>1. PICK d \in Searches : d = sweep.d /\ Past(d) /\ RowAndSpool(d)
    BY <1>1, <1>3, SweepWrites DEF DeepInv, SpoolInv
  <2>2. /\ OtherRows(d)
        /\ \/ /\ row[d].status \in {"completed", "expired"}
              /\ row'[d].status = "expired" /\ row'[d].age = row[d].age
           \/ /\ row[d].status \in {"expired", "failed", "cancelled"}
              /\ row'[d].status = "purged"
    BY <1>3, <2>1, SweepWrites DEF OtherRows
  <2>3. BarMove(d)
    BY <1>3, <2>1, <2>2 DEF BarMove, StatusBar, HasResult, HasLapsed, Past, RowAndSpool
  <2> QED
    BY <2>2, <2>3, BarMoves
<1> QED
  BY <1>2, <1>3, SweepWrites

\* Every step is a step of the life cycle, or none.
LEMMA LifeNext ==
  ASSUME SpoolSize > 0
  PROVE  TypeInv /\ DeepInv /\ [Next]_vars => [Jobs!Next]_(Jobs!vars)
<1> SUFFICES ASSUME TypeInv, DeepInv, [Next]_vars
             PROVE  [Jobs!Next]_(Jobs!vars)
  OBVIOUS
<1>1. (\E d \in Searches : LifeStep(d)) => [Jobs!Next]_(Jobs!vars)
  BY DEF LifeStep, Jobs!Next
<1>2. UNCHANGED <<row, spool>> => [Jobs!Next]_(Jobs!vars)
  BY DEF Jobs!vars
<1>3. CASE \E d \in Searches : \/ Api(d) \/ RequestCancel(d) \/ ReadPastExpiry(d)
                               \/ Stall(d) \/ Age(d)
  BY <1>1, <1>3, LifeRequest
<1>4. CASE \E s \in Slots : Works(s)
  BY <1>1, <1>4, LifeWorker
<1>5. CASE \/ \E s \in Slots : Settle(s) \/ Watch(s) \/ \E d \in Searches : TakeJob(s, d)
           \/ (\E m \in signals : Signal(m)) \/ Crash \/ Restart
  BY <1>2, <1>5, DeepProcess
<1>6. CASE Cleanup
  BY <1>1, <1>2, <1>6, LifeSweep
<1>7. CASE UNCHANGED deepOwn
  BY <1>2, <1>7 DEF deepOwn
<1> QED
  <2>1. CASE \E s \in Slots : RunDeepSearch(s) \/ Watch(s)
    BY <1>4, <1>5, <2>1 DEF RunDeepSearch, Works
  <2>2. CASE DeepNext
    BY <1>3, <1>5, <1>6, <2>1, <2>2 DEF DeepNext
  <2> QED
    BY <1>7, <2>2 DEF Next, vars

\* Deep searches keep the promise of TrackedJobs beside their bulk jobs, for any
\* number of searches, slots, connections and crashes: a completed search has all
\* its result rows until its retention lapses, and a status only moves along the
\* life cycle (ioc-deep-search-worker.js, deepSearchStore.js).  A search without matches
\* has no result rows that could be missing, so SpoolSize is positive.
THEOREM LifeCycle ==
  ASSUME SpoolSize > 0
  PROVE  Spec => DeepPromise
<1>1. Init => Jobs!Init
  <2>1. Positions # {}
    BY DeepAssumption DEF Positions
  <2> QED
    BY <2>1 DEF Init, DeepInit, Jobs!Init, NoRow
<1> QED
  BY <1>1, TypeInit, TypeNext, DeepStart, DeepStep, LifeNext, PTL
     DEF Spec, DeepPromise, Jobs!Spec

-----------------------------------------------------------------------------
(* What a bulk job applies and reports *)

Owning == {"load", "page", "apply", "finish"}

\* Nothing exists at the start.
LEMMA BulkStart == Init => OwnerInv /\ PageInv
<1> SUFFICES ASSUME Init PROVE OwnerInv /\ PageInv
  OBVIOUS
<1>1. OwnerInv
  BY DEF Init, OwnerInv, NoBulk, BulkIdle
<1>2. PageInv
  BY DEF Init, PageInv, InTime, PagesCounted, NoBulk, BulkIdle
<1> QED
  BY <1>1, <1>2

\* What a request, the stalled check or the retention does to a bulk row.
LEMMA BulkRequestWrites ==
  ASSUME TypeInv, NEW b \in Bulks,
         BulkApi(b) \/ StallBulk(b) \/ AgeBulk(b) \/ PurgeBulk(b)
  PROVE  /\ UNCHANGED bulkSlot
         /\ \A a \in Bulks \ {b} : bulkRow'[a] = bulkRow[a] /\ bulkCall'[a] = bulkCall[a]
         /\ \/ /\ bulkRow' = bulkRow
               /\ bulkCall'[b].at \in {"new", "resolved"} => bulkCall[b].at \in {"new", "resolved"}
            \/ /\ bulkCall[b].at = "resolved" /\ bulkCall'[b].at = "inserted"
               /\ bulkRow'[b].status = "queued" /\ bulkRow'[b].d = bulkCall[b].d
               /\ bulkRow'[b].timely = Browsable(bulkCall[b].d)
            \/ /\ UNCHANGED bulkCall /\ bulkRow[b].status # "none"
               /\ bulkRow'[b].status \in {"completed", "failed", "purged"}
<1>1. /\ bulkRow \in [Bulks -> BulkRecord] /\ bulkRow[b] \in BulkRecord
      /\ bulkCall \in [Bulks -> BulkRequest] /\ bulkCall[b] \in BulkRequest
  BY DEF TypeInv, BulkTypeOK, DeepTypeOK, BulkRecord, BulkRequest
<1>2. UNCHANGED bulkSlot
  BY DEF BulkApi, ResolveTarget, CreateBulkQueryJob, AddBulkJob, StallBulk, AgeBulk, PurgeBulk
<1>3. \A a \in Bulks \ {b} : bulkRow'[a] = bulkRow[a] /\ bulkCall'[a] = bulkCall[a]
  BY <1>1 DEF BulkApi, ResolveTarget, CreateBulkQueryJob, AddBulkJob, StallBulk, AgeBulk,
     PurgeBulk, BulkStatusTo
<1>4. CASE ResolveTarget(b) \/ AddBulkJob(b)
  BY <1>1, <1>2, <1>3, <1>4 DEF ResolveTarget, AddBulkJob, BulkRequest
<1>5. CASE CreateBulkQueryJob(b)
  <2>1. bulkCall[b].at = "resolved"
    BY <1>5 DEF CreateBulkQueryJob
  <2>2. CASE UNCHANGED bulkRow
    BY <1>2, <1>3, <2>1, <2>2
  <2>3. CASE /\ bulkCall' = [bulkCall EXCEPT ![b].at = "inserted"]
             /\ bulkRow' = [bulkRow EXCEPT ![b] =
                  [NoBulk EXCEPT !.status = "queued", !.d = bulkCall[b].d,
                                 !.timely = Browsable(bulkCall[b].d)]]
    <3>1. bulkCall'[b].at = "inserted"
      BY <1>1, <2>3 DEF BulkRequest
    <3>2. /\ bulkRow'[b].status = "queued" /\ bulkRow'[b].d = bulkCall[b].d
          /\ bulkRow'[b].timely = Browsable(bulkCall[b].d)
      BY <1>1, <2>3 DEF NoBulk
    <3> QED
      BY <1>2, <1>3, <2>1, <3>1, <3>2
  <2> QED
    BY <1>5, <2>2, <2>3 DEF CreateBulkQueryJob
<1>6. CASE StallBulk(b)
  <2>1. /\ UNCHANGED bulkCall /\ bulkRow[b].status # "none"
        /\ UNCHANGED bulkRow \/ BulkStatusTo(b, "failed")
    BY <1>6 DEF StallBulk, TypeInv, CallHasSearch
  <2>2. CASE BulkStatusTo(b, "failed")
    BY <1>2, <1>3, <2>1, <2>2, StatusWritten
  <2> QED
    BY <1>2, <1>3, <2>1, <2>2
<1>7. CASE AgeBulk(b) \/ PurgeBulk(b)
  <2>1. bulkRow[b].status # "none" /\ bulkRow'[b].status \in {"completed", "failed", "purged"}
    BY <1>1, <1>7 DEF AgeBulk, PurgeBulk, BulkRecord
  <2>2. UNCHANGED bulkCall
    BY <1>7 DEF AgeBulk, PurgeBulk
  <2> QED
    BY <1>2, <1>3, <2>1, <2>2
<1> QED
  BY <1>4, <1>5, <1>6, <1>7 DEF BulkApi

\* A job is claimed once.
LEMMA OwnerNext == TypeInv /\ OwnerInv /\ [Next]_vars => OwnerInv'
<1> SUFFICES ASSUME TypeInv, OwnerInv, [Next]_vars PROVE OwnerInv'
  OBVIOUS
<1>1. ASSUME NEW b \in Bulks, BulkApi(b) \/ StallBulk(b) \/ AgeBulk(b) \/ PurgeBulk(b)
      PROVE  OwnerInv'
  <2>1. /\ bulkRow'[b].status \in {"none", "queued"} => bulkRow[b].status \in {"none", "queued"}
        /\ bulkCall'[b].at \in {"new", "resolved"} => bulkRow'[b].status = "none"
    BY <1>1, BulkRequestWrites DEF OwnerInv
  <2>2. /\ UNCHANGED bulkSlot
        /\ \A a \in Bulks \ {b} : bulkRow'[a] = bulkRow[a] /\ bulkCall'[a] = bulkCall[a]
    BY <1>1, BulkRequestWrites
  <2> QED
    BY <2>1, <2>2 DEF OwnerInv, TypeInv, BulkSlotsHaveJob
<1>2. ASSUME NEW s \in BulkSlots, Pages(s) PROVE OwnerInv'
  <2>1. PICK b \in Bulks : b = bulkSlot[s].b /\ bulkRow[b].status # "none"
    BY <1>2, PagerFrame DEF TypeInv, BulkSlotsHaveJob
  <2>2. /\ \A a \in Bulks \ {b} : bulkRow'[a] = bulkRow[a]
        /\ bulkRow'[b].status \in {"none", "queued"} => bulkRow[b].status = "queued" /\ bulkRow' = bulkRow
        /\ bulkRow[b].status # "queued" => bulkRow'[b].status \notin {"none", "queued"}
    BY <1>2, <2>1, PagerWrites, StatusWritten
  <2>3. /\ bulkSlot'[s].b = b /\ UNCHANGED bulkCall
        /\ \A t \in BulkSlots \ {s} : bulkSlot'[t] = bulkSlot[t]
    BY <1>2, <2>1, PagerFrame
  <2>4. \/ bulkSlot'[s].pc \notin Owning
        \/ bulkSlot[s].pc \in Owning
        \/ bulkRow[b].status = "queued" /\ bulkRow'[b].status = "processing"
    <3>1. bulkSlot[s].pc \in Owning \cup {"claim", "mark"}
      BY <1>2 DEF Pages, BulkAt, ClaimBulk, LoadTarget, NextPage, ApplyChunk, FinishBulk,
         MarkBulkFailed, Owning
    <3> QED
      BY <1>2, <2>1, <3>1, PagerWrites, StatusWritten DEF Owning
  <2>5. \A t \in BulkSlots : bulkSlot[t].pc \in Owning /\ bulkSlot[t].b = b
                               => bulkRow[b].status \notin {"none", "queued"}
    BY DEF OwnerInv, Owning
  <2>6. bulkSlot'[s].pc \in Owning =>
          /\ bulkRow'[b].status \notin {"none", "queued"}
          /\ \A t \in BulkSlots \ {s} : bulkSlot[t].pc \in Owning => bulkSlot[t].b # b
    <3>1. CASE bulkSlot[s].pc \in Owning
      BY <2>1, <2>2, <2>5, <3>1 DEF OwnerInv, Owning
    <3>2. CASE bulkSlot[s].pc \notin Owning
      BY <2>4, <2>5, <3>2
    <3> QED
      BY <3>1, <3>2
  <2>7. \A t \in BulkSlots \ {s} : bulkSlot'[t].pc \in Owning =>
          bulkRow'[bulkSlot'[t].b].status \notin {"none", "queued"}
    BY <2>1, <2>2, <2>3, <2>5 DEF OwnerInv, Owning, TypeInv, BulkSlotsHaveJob
  <2>8. \A a \in Bulks : bulkCall[a].at \in {"new", "resolved"} => bulkRow'[a].status = "none"
    BY <2>1, <2>2 DEF OwnerInv
  <2> QED
    BY <2>3, <2>6, <2>7, <2>8 DEF OwnerInv, Owning
<1>3. ASSUME \/ CrashBulk \/ RestartBulk
             \/ \E s \in BulkSlots : SettleBulk(s) \/ \E b \in Bulks : TakeBulkJob(s, b)
      PROVE  OwnerInv'
  <2>1. bulkSlot \in [BulkSlots -> BulkHandler]
    BY DEF TypeInv, BulkTypeOK, BulkHandler
  <2>2. \A s \in BulkSlots : bulkSlot'[s] = bulkSlot[s] \/ bulkSlot'[s].pc \in {"idle", "claim"}
    <3>1. CASE CrashBulk \/ RestartBulk
      BY <3>1 DEF CrashBulk, RestartBulk, BulkIdle
    <3>2. CASE \E s \in BulkSlots : SettleBulk(s)
      BY <2>1, <3>2 DEF SettleBulk, BulkIdle
    <3>3. CASE \E s \in BulkSlots : \E b \in Bulks : TakeBulkJob(s, b)
      BY <2>1, <3>3 DEF TakeBulkJob, BulkIdle
    <3> QED
      BY <1>3, <3>1, <3>2, <3>3
  <2>3. UNCHANGED <<bulkRow, bulkCall>>
    BY <1>3 DEF CrashBulk, RestartBulk, SettleBulk, TakeBulkJob
  <2> QED
    BY <2>2, <2>3 DEF OwnerInv
<1>4. ASSUME UNCHANGED bulkOwn PROVE OwnerInv'
  BY <1>4 DEF bulkOwn, OwnerInv
<1>5. CASE BulkNext
  BY <1>1, <1>2, <1>3, <1>5 DEF BulkNext, ProcessJob, Pages
<1> QED
  BY <1>4, <1>5 DEF Next, vars

\* A bulk job that BullMQ hands out again is not applied a second time beside the
\* handler that has it: claimForProcessing takes a queued row only, and no row
\* becomes queued again.
THEOREM OneApplies == Spec => []AppliedByOne
<1>1. OwnerInv => AppliedByOne
  <2> SUFFICES ASSUME OwnerInv, NEW b \in Bulks
               PROVE  Cardinality(Applying(b)) <= 1
    BY DEF AppliedByOne
  <2>1. \A s, t \in Applying(b) : s = t
    BY DEF Applying, OwnerInv
  <2>2. CASE Applying(b) = {}
    BY <2>2, FS_EmptySet
  <2>3. CASE Applying(b) # {}
    <3>1. PICK s : Applying(b) = {s}
      BY <2>1, <2>3
    <3>2. Cardinality(Applying(b)) = 1
      BY <3>1, FS_Singleton
    <3> QED
      BY <3>2
  <2> QED
    BY <2>2, <2>3
<1> QED
  BY TypeInit, TypeNext, BulkStart, OwnerNext, <1>1, PTL DEF Spec

\* No step of the deep searches takes the spool from under an active bulk job
\* that found it whole: handlers write running searches only, and the sweep asks
\* hasActiveBulkJobForDeepSearch before it starts on a search.
LEMMA SpoolKeptDeep ==
  ASSUME TypeInv, DeepInv, DeepNext, NEW d, SpoolKept(d), HasActiveBulkJob(d)
  PROVE  SpoolKept(d)'
<1>1. /\ d \in Searches /\ row[d].status \in {"completed", "expired"} /\ spool[d] = Positions
      /\ sweep.pc \in {"wipe", "row"} => sweep.d # d
  BY DEF SpoolKept
<1>2. ASSUME NEW x \in Searches,
             Api(x) \/ RequestCancel(x) \/ ReadPastExpiry(x) \/ Stall(x) \/ Age(x)
      PROVE  SpoolKept(d)'
  <2>1. OtherRows(x) /\ UNCHANGED <<spool, sweep>>
    BY <1>2, RequestWrites
  <2>2. x = d => row'[d].status \in {"completed", "expired"}
    <3>1. row[x].status # "none" => call[x] # "counted"
      BY DEF DeepInv, ClaimInv
    <3> QED
      BY <1>1, <1>2, <3>1, RequestWrites
  <2> QED
    BY <1>1, <2>1, <2>2 DEF SpoolKept, OtherRows
<1>3. ASSUME NEW s \in Slots, Works(s) PROVE SpoolKept(d)'
  <2>1. PICK x \in Searches : x = slot[s].d
    BY <1>3, WorkerFrame
  <2>2. OtherRows(x) /\ UNCHANGED sweep
    BY <1>3, <2>1, WorkerFrame, WorkerWrites DEF DeepInv
  <2>3. CASE x = d
    <3>1. slot[s].pc \notin AtWork
      BY <1>1, <2>1, <2>3 DEF DeepInv, ClaimInv
    <3>2. UNCHANGED <<row, spool>>
      BY <1>1, <1>3, <2>1, <2>3, <3>1, WorkerWrites DEF DeepInv, AtWork, Early
    <3> QED
      BY <1>1, <2>2, <3>2 DEF SpoolKept
  <2>4. CASE x # d
    BY <1>1, <2>2, <2>4 DEF SpoolKept, OtherRows
  <2> QED
    BY <2>3, <2>4
<1>4. ASSUME \/ \E s \in Slots : Settle(s) \/ Watch(s) \/ \E x \in Searches : TakeJob(s, x)
             \/ (\E m \in signals : Signal(m)) \/ Crash \/ Restart
      PROVE  SpoolKept(d)'
  BY <1>1, <1>4, DeepProcess DEF SpoolKept, NoSweep
<1>5. ASSUME Cleanup PROVE SpoolKept(d)'
  <2>1. spool \in [Searches -> SUBSET Positions]
    BY DEF TypeInv, BulkTypeOK, DeepTypeOK
  <2>2. sweep.pc \in {"wipe", "row"} => sweep.d \in Searches
    BY DEF TypeInv, SweepHasSearch
  <2>3. row'[d] = row[d] /\ spool'[d] = spool[d]
    BY <1>1, <1>5, <2>1, <2>2, SweepWrites
  <2>4. sweep'.pc \in {"wipe", "row"} => sweep'.d # d
    BY <1>1, <1>5, SweepWrites
  <2> QED
    BY <1>1, <2>3, <2>4 DEF SpoolKept
<1>6. CASE \E s \in Slots : RunDeepSearch(s) \/ Watch(s)
  BY <1>3, <1>4, <1>6 DEF RunDeepSearch, Works
<1> QED
  BY <1>2, <1>4, <1>5, <1>6 DEF DeepNext

\* How a bulk handler counts its pages.
LEMMA PagerCounts ==
  ASSUME TypeInv, NEW s \in BulkSlots, Pages(s), PagesCounted(s),
         NEW b, b = bulkSlot[s].b, InTime(b) => SpoolKept(bulkRow[b].d)
  PROVE  /\ bulkSlot'[s].pc \in {"claim", "load"} => bulkSlot'[s].after = 0 /\ bulkSlot'[s].got = 0
         /\ bulkSlot'[s].pc \in {"page", "apply", "finish"} /\ InTime(b) =>
              /\ bulkSlot'[s].pc = "page" => bulkSlot'[s].got = bulkSlot'[s].after
              /\ bulkSlot'[s].pc = "apply" => bulkSlot'[s].got + 1 = bulkSlot'[s].after
              /\ bulkSlot'[s].pc = "finish" => bulkSlot'[s].got = SpoolSize
<1>1. /\ bulkSlot \in [BulkSlots -> BulkHandler] /\ bulkSlot[s] \in BulkHandler
      /\ bulkSlot[s].after \in 0 .. SpoolSize /\ bulkSlot[s].got \in 0 .. SpoolSize
  BY DEF TypeInv, BulkTypeOK, BulkHandler
<1>2. ASSUME NEW pc, BulkGoto(s, pc)
      PROVE  /\ bulkSlot'[s].pc = pc /\ bulkSlot'[s].after = bulkSlot[s].after
             /\ bulkSlot'[s].got = bulkSlot[s].got
  BY <1>1, <1>2 DEF BulkGoto, BulkHandler
<1>3. CASE ClaimBulk(s)
  BY <1>2, <1>3 DEF ClaimBulk, BulkAt, PagesCounted
<1>4. CASE LoadTarget(s)
  BY <1>2, <1>4 DEF LoadTarget, BulkAt, PagesCounted
<1>5. CASE NextPage(s)
  <2> DEFINE rest == {p \in spool[bulkRow[b].d] : p > bulkSlot[s].after}
  <2>1. bulkSlot[s].pc = "page" /\ (InTime(b) => bulkSlot[s].got = bulkSlot[s].after)
    BY <1>5 DEF NextPage, BulkAt, PagesCounted
  <2>2. InTime(b) => rest = {p \in 1 .. SpoolSize : p > bulkSlot[s].after}
    BY DEF SpoolKept, Positions
  <2>3. CASE rest = {} /\ BulkGoto(s, "finish")
    <3>1. InTime(b) => bulkSlot[s].after = SpoolSize
      <4> SUFFICES ASSUME InTime(b) PROVE bulkSlot[s].after = SpoolSize
        OBVIOUS
      <4>1. bulkSlot[s].after + 1 \notin {p \in 1 .. SpoolSize : p > bulkSlot[s].after}
        BY <2>2, <2>3
      <4> QED
        BY <1>1, <4>1, DeepAssumption
    <3> QED
      BY <1>2, <2>1, <2>3, <3>1
  <2>4. CASE BulkGoto(s, "mark")
    BY <1>2, <2>4
  <2>5. CASE \E p \in rest :
               /\ \A q \in rest : p <= q
               /\ bulkSlot' = [bulkSlot EXCEPT ![s].pc = "apply", ![s].after = p]
    <3>1. PICK p \in rest :
               /\ \A q \in rest : p <= q
               /\ bulkSlot' = [bulkSlot EXCEPT ![s].pc = "apply", ![s].after = p]
      BY <2>5
    <3>2. bulkSlot'[s].pc = "apply" /\ bulkSlot'[s].after = p /\ bulkSlot'[s].got = bulkSlot[s].got
      BY <1>1, <3>1 DEF BulkHandler
    <3>3. InTime(b) => p = bulkSlot[s].after + 1
      <4> SUFFICES ASSUME InTime(b) PROVE p = bulkSlot[s].after + 1
        OBVIOUS
      <4>1. p \in 1 .. SpoolSize /\ p > bulkSlot[s].after
        BY <2>2, <3>1
      <4>2. bulkSlot[s].after + 1 \in {q \in 1 .. SpoolSize : q > bulkSlot[s].after}
        BY <1>1, <4>1, DeepAssumption
      <4>3. p <= bulkSlot[s].after + 1
        BY <2>2, <3>1, <4>2
      <4> QED
        BY <1>1, <4>1, <4>3, DeepAssumption
    <3> QED
      BY <1>1, <2>1, <3>2, <3>3
  <2> QED
    BY <1>5, <2>3, <2>4, <2>5 DEF NextPage
<1>6. CASE ApplyChunk(s)
  <2>1. bulkSlot[s].pc = "apply" /\ (InTime(b) => bulkSlot[s].got + 1 = bulkSlot[s].after)
    BY <1>6 DEF ApplyChunk, BulkAt, PagesCounted
  <2>2. CASE bulkSlot' = [bulkSlot EXCEPT ![s].pc = "page", ![s].got = @ + 1]
    <3>1. /\ bulkSlot'[s].pc = "page" /\ bulkSlot'[s].after = bulkSlot[s].after
          /\ bulkSlot'[s].got = bulkSlot[s].got + 1
      BY <1>1, <2>2 DEF BulkHandler
    <3> QED
      BY <2>1, <3>1
  <2> QED
    BY <1>2, <1>6, <2>2 DEF ApplyChunk
<1>7. CASE FinishBulk(s) \/ MarkBulkFailed(s)
  BY <1>2, <1>7 DEF FinishBulk, MarkBulkFailed
<1> QED
  BY <1>3, <1>4, <1>5, <1>6, <1>7 DEF Pages

\* The spool of a timely job stays, and its handler counts every page.
LEMMA PageNext == TypeInv /\ DeepInv /\ OwnerInv /\ PageInv /\ [Next]_vars => PageInv'
<1> SUFFICES ASSUME TypeInv, DeepInv, OwnerInv, PageInv, [Next]_vars PROVE PageInv'
  OBVIOUS
<1>1. ASSUME DeepNext, UNCHANGED bulkOwn PROVE PageInv'
  <2>1. \A b \in Bulks : InTime(b)' <=> InTime(b)
    BY <1>1 DEF InTime, bulkOwn
  <2>2. ASSUME NEW b \in Bulks, InTime(b) PROVE SpoolKept(bulkRow[b].d)'
    <3>1. PICK d : d = bulkRow[b].d
      OBVIOUS
    <3>2. SpoolKept(d) /\ HasActiveBulkJob(d)
      BY <2>2, <3>1 DEF PageInv, HasActiveBulkJob, InTime
    <3>3. SpoolKept(d)'
      BY <1>1, <3>2, SpoolKeptDeep
    <3>4. d = bulkRow'[b].d
      BY <1>1, <3>1 DEF bulkOwn
    <3> QED
      BY <3>3, <3>4
  <2>3. \A s \in BulkSlots : PagesCounted(s)'
    BY <1>1 DEF PageInv, PagesCounted, InTime, bulkOwn
  <2> QED
    BY <2>1, <2>2, <2>3 DEF PageInv
<1>2. ASSUME NEW b \in Bulks, UNCHANGED deepOwn,
             BulkApi(b) \/ StallBulk(b) \/ AgeBulk(b) \/ PurgeBulk(b)
      PROVE  PageInv'
  <2>1. /\ UNCHANGED bulkSlot /\ UNCHANGED <<row, spool, sweep>>
        /\ \A a \in Bulks \ {b} : bulkRow'[a] = bulkRow[a]
    BY <1>2, BulkRequestWrites DEF deepOwn
  <2>2. CASE bulkRow' = bulkRow
    BY <2>1, <2>2 DEF PageInv, InTime, SpoolKept, PagesCounted
  <2>3. CASE bulkRow[b].status # "none" /\ bulkRow'[b].status \in {"completed", "failed", "purged"}
    <3>1. \A a \in Bulks : InTime(a)' => InTime(a) /\ bulkRow'[a] = bulkRow[a]
      BY <2>1, <2>3 DEF InTime
    <3>2. \A a \in Bulks : InTime(a)' => SpoolKept(bulkRow[a].d)'
      BY <2>1, <3>1 DEF PageInv, SpoolKept
    <3>3. \A s \in BulkSlots : PagesCounted(s)'
      BY <2>1, <3>1 DEF PageInv, PagesCounted, TypeInv, BulkSlotsHaveJob
    <3> QED
      BY <3>2, <3>3 DEF PageInv
  <2>4. CASE /\ bulkRow[b].status = "none" /\ bulkCall[b].at = "resolved"
             /\ bulkRow'[b].d = bulkCall[b].d /\ bulkRow'[b].timely = Browsable(bulkCall[b].d)
    <3>1. PICK d \in Searches : d = bulkCall[b].d
      BY <2>4 DEF TypeInv, CallHasSearch
    <3>2. Browsable(d) => SpoolKept(d)
      BY DEF Browsable, SpoolKept, DeepInv, SpoolInv, RowAndSpool, SweepSpool, Past
    <3>3. InTime(b)' => SpoolKept(bulkRow[b].d)'
      BY <2>1, <2>4, <3>1, <3>2 DEF InTime, SpoolKept
    <3>4. \A a \in Bulks \ {b} : /\ InTime(a)' <=> InTime(a)
                                 /\ InTime(a) => SpoolKept(bulkRow[a].d)'
      BY <2>1 DEF PageInv, InTime, SpoolKept
    <3>5. \A s \in BulkSlots : bulkSlot[s].pc # "idle" => bulkSlot[s].b \in Bulks \ {b}
      BY <2>4 DEF TypeInv, BulkSlotsHaveJob
    <3>6. \A s \in BulkSlots : PagesCounted(s)'
      BY <2>1, <3>4, <3>5 DEF PageInv, PagesCounted
    <3> QED
      BY <3>3, <3>4, <3>6 DEF PageInv
  <2> QED
    BY <1>2, <2>2, <2>3, <2>4, BulkRequestWrites DEF OwnerInv
<1>3. ASSUME NEW s \in BulkSlots, UNCHANGED deepOwn, Pages(s) PROVE PageInv'
  <2>1. PICK b \in Bulks : b = bulkSlot[s].b
    BY <1>3, PagerFrame
  <2>2. \A a \in Bulks : bulkRow'[a].d = bulkRow[a].d /\ (InTime(a)' => InTime(a))
    BY <1>3, <2>1, PagerWrites, StatusWritten DEF InTime
  <2>3. UNCHANGED <<row, spool, sweep>>
    BY <1>3 DEF deepOwn
  <2>4. \A a \in Bulks : InTime(a)' => SpoolKept(bulkRow[a].d)'
    BY <2>2, <2>3 DEF PageInv, SpoolKept
  <2>5. /\ bulkSlot'[s].b = b /\ \A t \in BulkSlots \ {s} : bulkSlot'[t] = bulkSlot[t]
    BY <1>3, <2>1, PagerFrame
  <2>6. \A t \in BulkSlots \ {s} : PagesCounted(t)'
    BY <2>2, <2>5 DEF PageInv, PagesCounted, TypeInv, BulkSlotsHaveJob
  <2>7. PagesCounted(s)'
    BY <1>3, <2>1, <2>2, <2>5, PagerCounts DEF PageInv, PagesCounted
  <2> QED
    BY <2>4, <2>6, <2>7 DEF PageInv
<1>4. ASSUME UNCHANGED deepOwn,
             \/ CrashBulk \/ RestartBulk
             \/ \E s \in BulkSlots : SettleBulk(s) \/ \E b \in Bulks : TakeBulkJob(s, b)
      PROVE  PageInv'
  <2>1. bulkSlot \in [BulkSlots -> BulkHandler]
    BY DEF TypeInv, BulkTypeOK, BulkHandler
  <2>2. \A s \in BulkSlots : \/ bulkSlot'[s] = bulkSlot[s]
                             \/ /\ bulkSlot'[s].pc \in {"idle", "claim"}
                                /\ bulkSlot'[s].after = 0 /\ bulkSlot'[s].got = 0
    <3>1. CASE CrashBulk \/ RestartBulk
      BY <3>1 DEF CrashBulk, RestartBulk, BulkIdle
    <3>2. CASE \E s \in BulkSlots : SettleBulk(s)
      BY <2>1, <3>2 DEF SettleBulk, BulkIdle
    <3>3. CASE \E s \in BulkSlots : \E b \in Bulks : TakeBulkJob(s, b)
      BY <2>1, <3>3 DEF TakeBulkJob, BulkIdle
    <3> QED
      BY <1>4, <3>1, <3>2, <3>3
  <2>3. UNCHANGED <<bulkRow, row, spool, sweep>>
    BY <1>4 DEF CrashBulk, RestartBulk, SettleBulk, TakeBulkJob, deepOwn
  <2> QED
    BY <2>2, <2>3 DEF PageInv, InTime, SpoolKept, PagesCounted
<1>5. CASE UNCHANGED vars
  BY <1>5 DEF vars, deepOwn, bulkOwn, PageInv, InTime, SpoolKept, PagesCounted
<1>6. CASE BulkNext /\ UNCHANGED deepOwn
  BY <1>2, <1>3, <1>4, <1>6 DEF BulkNext, ProcessJob, Pages
<1> QED
  BY <1>1, <1>5, <1>6 DEF Next

\* A bulk job whose row was inserted while its search could be browsed reports
\* every match of the search, though the search may expire, be read past its
\* expiry and be swept while the job pages through its spool.
THEOREM TimelyExact == Spec => []TimelyBulkIsExact
<1>1. PageInv => TimelyBulkIsExact
  BY DEF PageInv, PagesCounted, InTime, TimelyBulkIsExact, Reporting
<1> QED
  BY TypeInit, TypeNext, DeepStart, DeepStep, BulkStart, OwnerNext, PageNext, <1>1, PTL DEF Spec

=============================================================================
