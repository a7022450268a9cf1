------------------------- MODULE SearchExportProofs -------------------------
(***************************************************************************)
(* Exports for any number of exports, slots and crashes: the types, one    *)
(* writer per file, whole files while they are offered, and the refinement *)
(* of the life cycle of TrackedJobs.  Then exports, searches, bulk jobs    *)
(* and AI requests together, as MCBackendJobs runs them.                   *)
(***************************************************************************)
EXTENDS MCBackendJobs, BulkQueryProofs, InferenceProofs, TLAPS, FiniteSetTheorems

\* Whoever works has something to work on.
HandlersHaveExport ==
  \A s \in Slots : handler[s].pc # "idle" => handler[s].e \in Exports

SweepHasExport == janitor.pc \in {"flip", "purge"} => janitor.e \in Exports

ExportTypeInv == ExportTypeOK /\ HandlersHaveExport /\ SweepHasExport

-----------------------------------------------------------------------------
(* Types *)

\* What BullMQ does to the queue leaves a queue.
LEMMA ExportQueueType ==
  ASSUME NEW q \in [Exports -> JobEntry(Slots)], NEW e \in Exports
  PROVE  /\ Added(q, e) \in [Exports -> JobEntry(Slots)]
         /\ TakenBack(q, e) \in [Exports -> JobEntry(Slots)]
         /\ \A s \in Slots : /\ Taken(q, e, s) \in [Exports -> JobEntry(Slots)]
                             /\ Settled(q, e, s) \in [Exports -> JobEntry(Slots)]
<1>1. q[e] \in JobEntry(Slots) /\ q[e].stalls \in 0 .. MaxStalledCount
  BY DEF JobEntry
<1>2. [NoEntry EXCEPT !.st = "waiting"] \in JobEntry(Slots)
  BY QueueAssumption DEF JobEntry, NoEntry
<1>3. \A s \in Slots : [q[e] EXCEPT !.st = "active", !.by = s] \in JobEntry(Slots)
  BY <1>1 DEF JobEntry
<1>4. [q[e] EXCEPT !.st = "ended", !.by = None] \in JobEntry(Slots)
  BY <1>1 DEF JobEntry
<1>5. ~GivenUp(q, e) => q[e].stalls + 1 \in 0 .. MaxStalledCount
  BY <1>1, QueueAssumption DEF GivenUp
<1>6. ~GivenUp(q, e)
        => [st |-> "waiting", by |-> None, stalls |-> q[e].stalls + 1] \in JobEntry(Slots)
  BY <1>5 DEF JobEntry
<1> QED
  BY <1>2, <1>3, <1>4, <1>6 DEF Added, Taken, Settled, TakenBack

\* The tables, queues and disk start empty.
LEMMA ExportTypeInit == ExportInit => ExportTypeInv
  BY QueueAssumption DEF ExportInit, ExportTypeInv, ExportTypeOK, HandlersHaveExport,
     SweepHasExport, NoExport, ExportRow, ExportStatus, NoEntry, JobEntry, ExportIdle,
     ExportSlot, NoExportSweep, ExportSweep

\* Requests, the stalled check and the clock write rows and the queue.
LEMMA TypeExportCall ==
  ASSUME ExportTypeInv, NEW e \in Exports,
         ExportApi(e) \/ CancelExport(e) \/ ReadExport(e) \/ StallExport(e) \/ AgeExport(e)
  PROVE  ExportTypeInv'
<1>1. /\ ExportTypeOK /\ table[e] \in ExportRow
      /\ table \in [Exports -> ExportRow] /\ jobs \in [Exports -> JobEntry(Slots)]
  BY DEF ExportTypeInv, ExportTypeOK
<1>2. UNCHANGED <<files, handler, janitor, alive, stops>>
  BY DEF ExportApi, CountExports, CreateExport, AddExportJob, CancelExport, ReadExport,
     StallExport, AgeExport
<1>3. table' \in [Exports -> ExportRow]
  <2>1. CASE CreateExport(e) \/ AgeExport(e)
    BY <1>1, <2>1 DEF CreateExport, AgeExport, ExportRow, ExportStatus
  <2>2. CASE CancelExport(e)
    BY <1>1, <2>2 DEF CancelExport, ExportRow, ExportStatus
  <2>3. CASE ReadExport(e)
    BY <1>1, <2>3 DEF ReadExport, ExpiredExport, ExportRow, ExportStatus
  <2>4. CASE UNCHANGED table
    BY <1>1, <2>4
  <2> QED
    BY <2>1, <2>2, <2>3, <2>4 DEF ExportApi, CountExports, AddExportJob, StallExport
<1>4. jobs' \in [Exports -> JobEntry(Slots)]
  <2>1. jobs' \in {jobs, Added(jobs, e), TakenBack(jobs, e)}
    BY DEF ExportApi, CountExports, CreateExport, AddExportJob, CancelExport, ReadExport,
       StallExport, AgeExport
  <2> QED
    BY <1>1, <2>1, ExportQueueType
<1>5. requests' \in [Exports -> {"new", "counted", "inserted", "over"}]
  BY <1>1 DEF ExportTypeOK, ExportApi, CountExports, CreateExport, AddExportJob,
     CancelExport, ReadExport, StallExport, AgeExport
<1> QED
  BY <1>1, <1>2, <1>3, <1>4, <1>5
  DEF ExportTypeInv, ExportTypeOK, HandlersHaveExport, SweepHasExport

\* A handler that goes on to pc keeps its export; the other handlers stay.
Enters(s, pc) ==
  /\ handler'[s].pc = pc /\ handler'[s].e = handler[s].e
  /\ \A t \in Slots \ {s} : handler'[t] = handler[t]

\* Proceed and Conclude.
LEMMA Entered ==
  ASSUME ExportTypeInv, NEW s \in Slots,
         NEW pc \in {"parse", "stream", "fetch", "ready", "drop", "mark", "settle"},
         Proceed(s, pc) \/ \E out \in {"failed", "cancelled"} : Conclude(s, pc, out)
  PROVE  Enters(s, pc) /\ handler' \in [Slots -> ExportSlot]
<1>1. handler \in [Slots -> ExportSlot] /\ handler[s] \in ExportSlot
  BY DEF ExportTypeInv, ExportTypeOK
<1> QED
  BY <1>1 DEF Proceed, Conclude, Enters, ExportSlot

\* The steps of a handler between its claim and its report to BullMQ.
Handles(s) ==
  \/ ClaimExport(s) \/ OpenFile(s) \/ CheckExport(s) \/ FetchMore(s)
  \/ FetchLast(s) \/ MarkReady(s) \/ DropFile(s) \/ MarkExport(s)

\* Where each of them goes on.
LEMMA HandlerGoes ==
  ASSUME ExportTypeInv, NEW s \in Slots, Handles(s)
  PROVE  /\ handler' \in [Slots -> ExportSlot]
         /\ ClaimExport(s) => Enters(s, "parse") \/ Enters(s, "settle")
         /\ OpenFile(s) => Enters(s, "mark") \/ Enters(s, "stream")
         /\ CheckExport(s) => Enters(s, "drop") \/ Enters(s, "fetch")
         /\ FetchMore(s) => Enters(s, "stream")
         /\ FetchLast(s) => Enters(s, "ready") \/ Enters(s, "drop")
         /\ MarkReady(s) => Enters(s, "settle") \/ Enters(s, "drop")
         /\ DropFile(s) => Enters(s, "mark")
         /\ MarkExport(s) => Enters(s, "settle") \/ Enters(s, "drop")
<1>1. CASE ClaimExport(s) \/ OpenFile(s) \/ CheckExport(s)
  BY <1>1, Entered DEF ClaimExport, OpenFile, CheckExport, HandlerAt, FetchMore, FetchLast,
     MarkReady, DropFile, MarkExport
<1>2. CASE FetchMore(s) \/ FetchLast(s) \/ MarkReady(s)
  BY <1>2, Entered DEF ClaimExport, OpenFile, CheckExport, HandlerAt, FetchMore, FetchLast,
     MarkReady, DropFile, MarkExport
<1>3. CASE DropFile(s) \/ MarkExport(s)
  BY <1>3, Entered DEF ClaimExport, OpenFile, CheckExport, HandlerAt, FetchMore, FetchLast,
     MarkReady, DropFile, MarkExport
<1> QED
  BY <1>1, <1>2, <1>3 DEF Handles

\* A handler writes rows and files of the right type.
LEMMA TypeHandler ==
  ASSUME ExportTypeInv, NEW s \in Slots, Handles(s)
  PROVE  ExportTypeInv'
<1>1. /\ ExportTypeOK /\ handler[s] \in ExportSlot /\ handler[s].pc # "idle"
      /\ handler[s].e \in Exports /\ table[handler[s].e] \in ExportRow
  BY DEF ExportTypeInv, ExportTypeOK, HandlersHaveExport, Handles, HandlerAt, ClaimExport,
     OpenFile, CheckExport, FetchMore, FetchLast, MarkReady, DropFile, MarkExport
<1>2. /\ handler' \in [Slots -> ExportSlot] /\ handler'[s].e = handler[s].e
      /\ \A t \in Slots \ {s} : handler'[t] = handler[t]
  BY HandlerGoes DEF Handles, Enters
<1>3. HandlersHaveExport'
  BY <1>1, <1>2 DEF ExportTypeInv, HandlersHaveExport
<1>4. table' \in [Exports -> ExportRow]
  <2>1. CASE ClaimExport(s) \/ MarkExport(s)
    <3>1. \A st \in {"processing", "failed", "cancelled"} :
            [table[handler[s].e] EXCEPT !.status = st, !.age = "fresh"] \in ExportRow
      BY <1>1 DEF ExportRow, ExportStatus
    <3>2. handler[s].out \in {"failed", "cancelled"}
      BY <1>1 DEF ExportSlot
    <3>3. \/ UNCHANGED table
          \/ \E st \in {"processing", "failed", "cancelled"} : SetExport(handler[s].e, st)
      BY <2>1, <3>2 DEF ClaimExport, MarkExport
    <3> QED
      BY <1>1, <3>1, <3>3 DEF SetExport, ExportTypeOK
  <2>2. CASE MarkReady(s)
    <3>1. [table[handler[s].e] EXCEPT !.status = "ready", !.path = TRUE, !.age = "fresh"]
            \in ExportRow
      BY <1>1 DEF ExportRow, ExportStatus
    <3> QED
      BY <1>1, <2>2, <3>1 DEF MarkReady, ExportTypeOK
  <2>3. CASE OpenFile(s) \/ CheckExport(s) \/ FetchMore(s) \/ FetchLast(s) \/ DropFile(s)
    BY <1>1, <2>3 DEF OpenFile, CheckExport, FetchMore, FetchLast, DropFile, ExportTypeOK
  <2> QED
    BY <2>1, <2>2, <2>3 DEF Handles
<1>5. files' \in [Exports -> {"none", "partial", "whole"}]
  BY <1>1 DEF ExportTypeOK, Handles, ClaimExport, OpenFile, CheckExport, FetchMore,
     FetchLast, MarkReady, DropFile, MarkExport
<1>6. UNCHANGED <<jobs, requests, janitor, alive, stops>>
  BY DEF Handles, ClaimExport, OpenFile, CheckExport, FetchMore, FetchLast, MarkReady,
     DropFile, MarkExport
<1> QED
  BY <1>1, <1>2, <1>3, <1>4, <1>5, <1>6 DEF ExportTypeInv, ExportTypeOK, SweepHasExport

\* A slot takes a job, or reports its end.
LEMMA TypeExportSlot ==
  ASSUME ExportTypeInv, NEW s \in Slots, SettleExport(s) \/ \E e \in Exports : TakeExport(s, e)
  PROVE  ExportTypeInv'
<1>1. /\ ExportTypeOK /\ handler \in [Slots -> ExportSlot] /\ handler[s] \in ExportSlot
      /\ jobs \in [Exports -> JobEntry(Slots)]
  BY DEF ExportTypeInv, ExportTypeOK
<1>2. CASE SettleExport(s)
  <2>1. handler' \in [Slots -> ExportSlot] /\ HandlersHaveExport'
    BY <1>1, <1>2 DEF SettleExport, ExportSlot, ExportIdle, ExportTypeInv, HandlersHaveExport
  <2>2. handler[s].e \in Exports
    BY <1>2 DEF SettleExport, HandlerAt, ExportTypeInv, HandlersHaveExport
  <2>3. jobs' \in [Exports -> JobEntry(Slots)]
    BY <1>1, <1>2, <2>2, ExportQueueType DEF SettleExport
  <2> QED
    BY <1>1, <1>2, <2>1, <2>3 DEF SettleExport, ExportTypeInv, ExportTypeOK, SweepHasExport
<1>3. CASE \E e \in Exports : TakeExport(s, e)
  <2>1. PICK e \in Exports : TakeExport(s, e)
    BY <1>3
  <2>2. handler' \in [Slots -> ExportSlot] /\ HandlersHaveExport'
    BY <1>1, <2>1 DEF TakeExport, ExportSlot, ExportTypeInv, HandlersHaveExport
  <2>3. jobs' \in [Exports -> JobEntry(Slots)]
    BY <1>1, <2>1, ExportQueueType DEF TakeExport
  <2> QED
    BY <1>1, <2>1, <2>2, <2>3 DEF TakeExport, ExportTypeInv, ExportTypeOK, SweepHasExport
<1> QED
  BY <1>2, <1>3

\* The sweep remembers exports only.
LEMMA TypeJanitor ==
  ASSUME ExportTypeInv, ExportCleanup
  PROVE  ExportTypeInv'
<1>1. /\ ExportTypeOK /\ janitor \in ExportSweep /\ table \in [Exports -> ExportRow]
      /\ files \in [Exports -> {"none", "partial", "whole"}]
  BY DEF ExportTypeInv, ExportTypeOK
<1>2. UNCHANGED <<jobs, requests, handler, alive, stops>>
  BY DEF ExportCleanup, BeginExportSweep, UnlinkExpired, FlipExpired, ListStaleExports,
     UnlinkStale, PurgeExport, EndExportSweep
<1>3. janitor' \in ExportSweep /\ SweepHasExport'
  <2>1. CASE BeginExportSweep \/ EndExportSweep
    <3>1. PICK pc \in {"idle", "expire"}, todo \in SUBSET Exports :
            janitor' = [pc |-> pc, todo |-> todo, named |-> {}, e |-> None]
      BY <2>1 DEF BeginExportSweep, EndExportSweep, NoExportSweep
    <3> QED
      BY <3>1 DEF ExportSweep, SweepHasExport
  <2>4. CASE ListStaleExports
    <3>1. PICK stale \in SUBSET Exports, named \in SUBSET Exports :
            janitor' = [pc |-> "unlink", todo |-> stale, e |-> None, named |-> named]
      BY <2>4 DEF ListStaleExports
    <3> QED
      BY <3>1 DEF ExportSweep, SweepHasExport
  <2>2. CASE UnlinkExpired \/ UnlinkStale
    <3>1. PICK e \in janitor.todo, pc \in {"flip", "purge"} :
            janitor' = [janitor EXCEPT !.pc = pc, !.todo = @ \ {e}, !.e = e]
      BY <2>2 DEF UnlinkExpired, UnlinkStale
    <3> QED
      BY <1>1, <3>1 DEF ExportSweep, SweepHasExport
  <2>3. CASE FlipExpired \/ PurgeExport
    BY <1>1, <2>3 DEF FlipExpired, PurgeExport, ExportSweep, SweepHasExport
  <2> QED
    BY <2>1, <2>2, <2>3, <2>4 DEF ExportCleanup
<1>4. table' \in [Exports -> ExportRow]
  <2>1. CASE FlipExpired
    <3>1. janitor.e \in Exports /\ table[janitor.e] \in ExportRow
      BY <1>1, <2>1 DEF FlipExpired, ExportTypeInv, SweepHasExport
    <3>2. ExpiredExport(table[janitor.e]) \in ExportRow
      BY <3>1 DEF ExpiredExport, ExportRow, ExportStatus
    <3> QED
      BY <1>1, <2>1, <3>2 DEF FlipExpired
  <2>2. CASE PurgeExport
    <3>1. janitor.e \in Exports /\ table[janitor.e] \in ExportRow
      BY <1>1, <2>2 DEF PurgeExport, ExportTypeInv, SweepHasExport
    <3> QED
      BY <1>1, <2>2, <3>1 DEF PurgeExport, ExportRow, ExportStatus
  <2>3. CASE UNCHANGED table
    BY <1>1, <2>3
  <2> QED
    BY <2>1, <2>2, <2>3 DEF ExportCleanup, BeginExportSweep, UnlinkExpired,
       ListStaleExports, UnlinkStale, EndExportSweep
<1>5. files' \in [Exports -> {"none", "partial", "whole"}]
  BY <1>1 DEF ExportCleanup, BeginExportSweep, UnlinkExpired, FlipExpired,
     ListStaleExports, UnlinkStale, PurgeExport, EndExportSweep, ExportSweep
<1> QED
  BY <1>1, <1>2, <1>3, <1>4, <1>5 DEF ExportTypeInv, ExportTypeOK, HandlersHaveExport

\* A crash ends handlers and sweep.
LEMMA TypeCrash ==
  ASSUME ExportTypeInv, CrashExport \/ RestartExport
  PROVE  ExportTypeInv'
<1>1. ExportIdle \in ExportSlot /\ NoExportSweep \in ExportSweep
  BY DEF ExportIdle, ExportSlot, NoExportSweep, ExportSweep
<1>2. stops' \in 0 .. MaxStops /\ UNCHANGED <<table, jobs, files, requests>>
  BY QueueAssumption DEF ExportTypeInv, ExportTypeOK, CrashExport, RestartExport
<1>3. handler' \in [Slots -> ExportSlot] /\ janitor' \in ExportSweep /\ alive' \in BOOLEAN
  BY <1>1 DEF ExportTypeInv, ExportTypeOK, CrashExport, RestartExport
<1>4. HandlersHaveExport' /\ SweepHasExport'
  BY DEF ExportTypeInv, HandlersHaveExport, SweepHasExport, CrashExport, RestartExport,
     ExportIdle, NoExportSweep
<1> QED
  BY <1>2, <1>3, <1>4 DEF ExportTypeInv, ExportTypeOK

\* No step breaks the types.
LEMMA ExportTypeNext == ExportTypeInv /\ [ExportNext]_exportVars => ExportTypeInv'
<1> SUFFICES ASSUME ExportTypeInv, [ExportNext]_exportVars PROVE ExportTypeInv'
  OBVIOUS
<1>1. CASE \E e \in Exports : \/ ExportApi(e) \/ CancelExport(e) \/ ReadExport(e)
                              \/ StallExport(e) \/ AgeExport(e)
  BY <1>1, TypeExportCall
<1>2. CASE \E s \in Slots : RunExport(s)
  BY <1>2, TypeHandler, TypeExportSlot DEF RunExport, Handles
<1>3. CASE ExportCleanup \/ CrashExport \/ RestartExport
  BY <1>3, TypeJanitor, TypeCrash
<1>4. CASE UNCHANGED exportVars
  BY <1>4 DEF exportVars, ExportTypeInv, ExportTypeOK, HandlersHaveExport, SweepHasExport
<1> QED
  BY <1>1, <1>2, <1>3, <1>4 DEF ExportNext

\* Rows, queue, files, handlers and sweep of the exports are always well formed.
THEOREM ExportTypeCorrect == ExportSpec => []ExportTypeOK
<1>1. ExportTypeInv => ExportTypeOK
  BY DEF ExportTypeInv
<1> QED
  BY ExportTypeInit, ExportTypeNext, <1>1, PTL DEF ExportSpec

-----------------------------------------------------------------------------
(* One writer *)

Writing == {"parse", "stream", "fetch", "ready", "drop", "mark"}

\* A handler that may still write has claimed the row, and it alone.
WriterClaimed ==
  /\ \A s \in Slots : handler[s].pc \in Writing => table[handler[s].e].status = "processing"
  /\ \A s, t \in Slots :
       handler[s].pc \in Writing /\ handler[t].pc \in Writing /\ handler[s].e = handler[t].e
         => s = t

\* The file when a handler offers it, and when it gives up.
WriterFile ==
  \A s \in Slots : /\ handler[s].pc = "ready" => files[handler[s].e] = "whole"
                   /\ handler[s].pc \in {"parse", "mark"} => files[handler[s].e] # "whole"

\* An export that is being created has no row yet.
NotBegun ==
  \A e \in Exports : requests[e] \in {"new", "counted"} => table[e].status = "none"

\* The expiry of the export was passed: nobody claims or offers it any more.
PastExpiry(e) ==
  \/ table[e].status = "ready" /\ table[e].age # "fresh"
  \/ table[e].status \in {"expired", "purged"}

\* What a row says of the file.
RowAndFile(e) ==
  /\ table[e].status \in {"none", "queued", "failed", "cancelled"} => files[e] # "whole"
  /\ table[e].status = "ready" /\ table[e].age = "fresh" => files[e] = "whole"
  /\ table[e].path => table[e].status = "ready"
  /\ table[e].status = "expired" => table[e].age # "fresh"

\* The sweep unlinks what is past its expiry, and finds no path in a row that
\* is over otherwise.
SweepLate ==
  /\ janitor.pc \in {"expire", "flip"} => \A e \in janitor.todo : PastExpiry(e)
  /\ janitor.pc = "flip" => PastExpiry(janitor.e)
  /\ janitor.named = {}

WriterInv ==
  /\ WriterClaimed /\ WriterFile /\ NotBegun /\ SweepLate
  /\ \A e \in Exports : RowAndFile(e)

\* Nothing exists at the start.
LEMMA WriterInit == ExportInit => WriterInv
  BY DEF ExportInit, WriterInv, WriterClaimed, WriterFile, NotBegun, SweepLate, RowAndFile,
     ExportIdle, NoExport, NoExportSweep, Writing

\* Rows of exports that a step does not touch.
OtherExports(e) == \A x \in Exports \ {e} : table'[x] = table[x] /\ files'[x] = files[x]

\* A step of a request, of the stalled check or of the clock: the rows that are
\* claimed stay claimed.
LEMMA WriterRequest ==
  ASSUME ExportTypeInv, WriterInv, NEW e \in Exports,
         ExportApi(e) \/ CancelExport(e) \/ ReadExport(e) \/ StallExport(e) \/ AgeExport(e)
  PROVE  WriterInv'
<1>1. /\ table \in [Exports -> ExportRow] /\ table[e] \in ExportRow
      /\ requests \in [Exports -> {"new", "counted", "inserted", "over"}]
      /\ janitor \in ExportSweep
  BY DEF ExportTypeInv, ExportTypeOK
<1>2. UNCHANGED <<files, handler, janitor, alive, stops>>
  BY DEF ExportApi, CountExports, CreateExport, AddExportJob, CancelExport, ReadExport,
     StallExport, AgeExport
<1>3. OtherExports(e)
  BY <1>1, <1>2 DEF ExportApi, CountExports, CreateExport, AddExportJob, CancelExport,
     ReadExport, StallExport, AgeExport, OtherExports
<1>4. /\ table[e].status = "processing" => table'[e].status = "processing"
      /\ PastExpiry(e) => PastExpiry(e)'
      /\ RowAndFile(e)'
      /\ requests'[e] \in {"new", "counted"} => table'[e].status = "none"
  <2>1. RowAndFile(e) /\ (requests[e] \in {"new", "counted"} => table[e].status = "none")
    BY DEF WriterInv, NotBegun
  <2>2. CASE CreateExport(e)
    BY <1>1, <1>2, <2>1, <2>2 DEF CreateExport, ExportRow, RowAndFile, PastExpiry
  <2>3. CASE CancelExport(e)
    BY <1>1, <1>2, <2>1, <2>3 DEF CancelExport, ExportRow, RowAndFile, PastExpiry
  <2>4. CASE ReadExport(e)
    BY <1>1, <1>2, <2>1, <2>4 DEF ReadExport, ExpiredExport, ExportRow, RowAndFile, PastExpiry
  <2>5. CASE AgeExport(e)
    BY <1>1, <1>2, <2>1, <2>5 DEF AgeExport, ExportRow, RowAndFile, PastExpiry
  <2>6. CASE CountExports(e) \/ AddExportJob(e) \/ StallExport(e)
    BY <1>1, <1>2, <2>1, <2>6 DEF CountExports, AddExportJob, StallExport, RowAndFile, PastExpiry
  <2> QED
    BY <2>2, <2>3, <2>4, <2>5, <2>6 DEF ExportApi
<1>5. \A x \in Exports \ {e} : requests'[x] = requests[x]
  BY <1>1 DEF ExportApi, CountExports, CreateExport, AddExportJob, CancelExport,
     ReadExport, StallExport, AgeExport
<1>6. \A x \in Exports : /\ table[x].status = "processing" => table'[x].status = "processing"
                         /\ PastExpiry(x) => PastExpiry(x)'
                         /\ RowAndFile(x)'
  BY <1>3, <1>4 DEF OtherExports, PastExpiry, RowAndFile, WriterInv
<1>7. WriterClaimed' /\ WriterFile'
  BY <1>2, <1>6 DEF ExportTypeInv, HandlersHaveExport, WriterInv, WriterClaimed, WriterFile, Writing
<1>8. NotBegun'
  BY <1>3, <1>4, <1>5 DEF NotBegun, WriterInv, OtherExports
<1>9. SweepLate'
  BY <1>1, <1>2, <1>6 DEF WriterInv, SweepLate, ExportTypeInv, SweepHasExport, ExportSweep
<1> QED
  BY <1>6, <1>7, <1>8, <1>9 DEF WriterInv

\* What a handler does to its row and file.
LEMMA HandlerWrites ==
  ASSUME ExportTypeInv, WriterInv, NEW s \in Slots, Handles(s)
  PROVE  LET e == handler[s].e IN
         /\ e \in Exports /\ OtherExports(e)
         /\ UNCHANGED <<jobs, requests, janitor, alive, stops>>
         /\ \/ /\ Enters(s, "settle") /\ UNCHANGED <<table, files>>
            \/ /\ Enters(s, "parse") /\ handler[s].pc = "claim" /\ UNCHANGED files
               /\ table[e].status \in {"queued", "failed"}
               /\ table'[e] = [table[e] EXCEPT !.status = "processing", !.age = "fresh"]
            \/ /\ handler[s].pc \in Writing /\ UNCHANGED table
               /\ \/ Enters(s, "mark") /\ files'[e] # "whole"
                  \/ Enters(s, "stream")
                  \/ Enters(s, "fetch")
                  \/ Enters(s, "drop")
                  \/ Enters(s, "ready") /\ files'[e] = "whole"
            \/ /\ Enters(s, "settle") /\ handler[s].pc = "ready" /\ UNCHANGED files
               /\ table'[e] = [table[e] EXCEPT !.status = "ready", !.path = TRUE, !.age = "fresh"]
            \/ /\ Enters(s, "settle") /\ handler[s].pc = "mark" /\ UNCHANGED files
               /\ handler[s].out \in {"failed", "cancelled"}
               /\ table'[e] = [table[e] EXCEPT !.status = handler[s].out, !.age = "fresh"]
<1> DEFINE e == handler[s].e
<1>1. /\ table \in [Exports -> ExportRow] /\ table[e] \in ExportRow
      /\ files \in [Exports -> {"none", "partial", "whole"}]
      /\ handler[s] \in ExportSlot
      /\ e \in Exports
  BY DEF ExportTypeInv, ExportTypeOK, HandlersHaveExport, Handles, HandlerAt, ClaimExport,
     OpenFile, CheckExport, FetchMore, FetchLast, MarkReady, DropFile, MarkExport
<1>2. UNCHANGED <<jobs, requests, janitor, alive, stops>>
  BY DEF Handles, ClaimExport, OpenFile, CheckExport, FetchMore, FetchLast, MarkReady,
     DropFile, MarkExport
<1>3. handler[s].pc \in Writing => table[e].status = "processing"
  BY DEF WriterInv, WriterClaimed
<1>4. OtherExports(e)
  BY <1>1 DEF OtherExports, Handles, ClaimExport, OpenFile, CheckExport, FetchMore, FetchLast,
     MarkReady, DropFile, MarkExport, SetExport
<1>5. CASE ClaimExport(s)
  BY <1>1, <1>2, <1>4, <1>5, Entered DEF ClaimExport, HandlerAt, SetExport, ClaimableExports
<1>6. CASE OpenFile(s)
  BY <1>1, <1>2, <1>4, <1>6, Entered DEF OpenFile, HandlerAt, Writing, WriterInv, WriterFile
<1>7. CASE CheckExport(s) \/ FetchMore(s) \/ FetchLast(s)
  BY <1>1, <1>2, <1>4, <1>7, Entered DEF CheckExport, FetchMore, FetchLast, HandlerAt, Writing
<1>8. CASE MarkReady(s)
  BY <1>1, <1>2, <1>3, <1>4, <1>8, Entered DEF MarkReady, HandlerAt, Writing
<1>9. CASE DropFile(s)
  <2>1. Enters(s, "mark")
    BY <1>9, Entered DEF DropFile
  <2>2. files'[e] = "none"
    BY <1>1, <1>9 DEF DropFile
  <2> QED
    BY <1>1, <1>2, <1>4, <1>9, <2>1, <2>2 DEF DropFile, HandlerAt, Writing
<1>10. CASE MarkExport(s)
  <2>1. handler[s].out \in {"failed", "cancelled"}
    BY <1>1 DEF ExportSlot
  <2> QED
    BY <1>1, <1>2, <1>3, <1>4, <1>10, <2>1, Entered DEF MarkExport, HandlerAt, Writing, SetExport
<1> QED
  BY <1>5, <1>6, <1>7, <1>8, <1>9, <1>10 DEF Handles

\* A handler claims a row nobody has claimed, and gives the row up with its own
\* last write.
LEMMA WriterHandler ==
  ASSUME ExportTypeInv, WriterInv, NEW s \in Slots, Handles(s)
  PROVE  WriterInv'
<1> DEFINE e == handler[s].e
<1>1. /\ e \in Exports /\ OtherExports(e) /\ UNCHANGED <<requests, janitor>>
      /\ table[e] \in ExportRow /\ janitor \in ExportSweep
  BY HandlerWrites DEF ExportTypeInv, ExportTypeOK
<1>2. \A t \in Slots \ {s} :
        handler'[t] = handler[t] /\ (handler[t].pc # "idle" => handler[t].e \in Exports)
  BY HandlerWrites DEF Enters, ExportTypeInv, HandlersHaveExport
<1>3. handler'[s].e = e
  BY HandlerWrites DEF Enters
<1>4. \A t \in Slots \ {s} : handler[t].pc \in Writing => handler[t].e # e \/ handler[s].pc \notin Writing
  BY DEF WriterInv, WriterClaimed
<1>5. /\ handler[s].pc \in Writing => table[e].status = "processing"
      /\ \A t \in Slots : handler[t].pc \in Writing /\ handler[t].e = e => table[e].status = "processing"
      /\ RowAndFile(e)
  BY <1>1 DEF WriterInv, WriterClaimed
<1>6. SUFFICES /\ handler'[s].pc \in Writing =>
                    /\ table'[e].status = "processing"
                    /\ \A t \in Slots \ {s} : handler[t].pc \in Writing => handler[t].e # e
               /\ handler'[s].pc = "ready" => files'[e] = "whole"
               /\ handler'[s].pc \in {"parse", "mark"} => files'[e] # "whole"
               /\ \A t \in Slots \ {s} : handler[t].pc \in Writing /\ handler[t].e = e =>
                     UNCHANGED <<table, files>>
               /\ requests[e] \in {"new", "counted"} => table'[e].status = "none"
               /\ PastExpiry(e) => PastExpiry(e)'
               /\ RowAndFile(e)'
  <2>1. WriterClaimed'
    BY <1>1, <1>2, <1>3, <1>6 DEF WriterInv, WriterClaimed, OtherExports, Writing
  <2>2. WriterFile'
    BY <1>1, <1>2, <1>3, <1>6 DEF WriterInv, WriterFile, OtherExports, Writing
  <2>3. NotBegun'
    BY <1>1, <1>6 DEF WriterInv, NotBegun, OtherExports
  <2>4. \A x \in Exports : RowAndFile(x)' /\ (PastExpiry(x) => PastExpiry(x)')
    <3>1. \A x \in Exports \ {e} : RowAndFile(x)' /\ (PastExpiry(x) => PastExpiry(x)')
      BY <1>1 DEF WriterInv, RowAndFile, PastExpiry, OtherExports
    <3> QED
      BY <1>3, <1>6, <3>1
  <2>5. SweepLate'
    BY <1>1, <2>4 DEF WriterInv, SweepLate, ExportTypeInv, SweepHasExport, ExportSweep
  <2> QED
    BY <2>1, <2>2, <2>3, <2>4, <2>5 DEF WriterInv
<1>7. CASE Enters(s, "settle") /\ UNCHANGED <<table, files>>
  BY <1>1, <1>5, <1>7 DEF Enters, Writing, WriterInv, NotBegun, PastExpiry, RowAndFile
<1>8. CASE /\ Enters(s, "parse") /\ handler[s].pc = "claim" /\ UNCHANGED files
           /\ table[e].status \in {"queued", "failed"}
           /\ table'[e] = [table[e] EXCEPT !.status = "processing", !.age = "fresh"]
  <2>1. table'[e].status = "processing" /\ table'[e].path = table[e].path
    BY <1>1, <1>8 DEF ExportRow
  <2> QED
    BY <1>1, <1>5, <1>8, <2>1 DEF Enters, Writing, WriterInv, NotBegun, PastExpiry, RowAndFile
<1>9. CASE handler[s].pc \in Writing /\ UNCHANGED table
  <2>1. table[e].status = "processing"
    BY <1>5, <1>9
  <2>2. handler'[s].pc = "ready" => files'[e] = "whole"
    BY <1>9, HandlerWrites DEF Enters
  <2>3. handler'[s].pc \in {"parse", "mark"} => files'[e] # "whole"
    BY <1>9, HandlerWrites DEF Enters, WriterInv, WriterFile, Writing
  <2>4. RowAndFile(e)' /\ (PastExpiry(e) => PastExpiry(e)')
    BY <1>3, <1>5, <1>9, <2>1 DEF PastExpiry, RowAndFile
  <2>5. requests[e] \in {"new", "counted"} => table'[e].status = "none"
    BY <1>1, <1>9 DEF WriterInv, NotBegun
  <2> QED
    BY <1>4, <1>9, <2>1, <2>2, <2>3, <2>4, <2>5
<1>10. CASE /\ Enters(s, "settle") /\ handler[s].pc = "ready" /\ UNCHANGED files
            /\ table'[e] = [table[e] EXCEPT !.status = "ready", !.path = TRUE, !.age = "fresh"]
  <2>1. table'[e].status = "ready" /\ files[e] = "whole" /\ table[e].status = "processing"
    BY <1>1, <1>5, <1>10 DEF ExportRow, WriterInv, WriterFile, Writing
  <2> QED
    BY <1>1, <1>4, <1>5, <1>10, <2>1 DEF Enters, Writing, WriterInv, NotBegun, PastExpiry, RowAndFile
<1>11. CASE /\ Enters(s, "settle") /\ handler[s].pc = "mark" /\ UNCHANGED files
            /\ handler[s].out \in {"failed", "cancelled"}
            /\ table'[e] = [table[e] EXCEPT !.status = handler[s].out, !.age = "fresh"]
  <2>1. /\ table'[e].status \in {"failed", "cancelled"} /\ table'[e].path = table[e].path
        /\ files[e] # "whole" /\ table[e].status = "processing"
    BY <1>1, <1>5, <1>11 DEF ExportRow, WriterInv, WriterFile, Writing
  <2> QED
    BY <1>1, <1>4, <1>5, <1>11, <2>1 DEF Enters, Writing, WriterInv, NotBegun, PastExpiry, RowAndFile
<1> QED
  BY <1>7, <1>8, <1>9, <1>10, <1>11, HandlerWrites

\* Taking and reporting a job touches neither rows nor files.
LEMMA WriterSlot ==
  ASSUME ExportTypeInv, WriterInv, NEW s \in Slots,
         SettleExport(s) \/ \E e \in Exports : TakeExport(s, e)
  PROVE  WriterInv'
<1>1. UNCHANGED <<table, files, requests, janitor>>
  BY DEF SettleExport, TakeExport
<1>2. handler \in [Slots -> ExportSlot]
  BY DEF ExportTypeInv, ExportTypeOK
<1>3. /\ handler'[s].pc \in {"idle", "claim"}
      /\ \A t \in Slots \ {s} : handler'[t] = handler[t]
  BY <1>2 DEF SettleExport, TakeExport, ExportIdle, ExportSlot
<1> QED
  BY <1>1, <1>3 DEF WriterInv, WriterClaimed, WriterFile, NotBegun, SweepLate, PastExpiry,
     RowAndFile, Writing

\* The sweep deletes files of exports past their expiry only.
LEMMA WriterSweep ==
  ASSUME ExportTypeInv, WriterInv, ExportCleanup
  PROVE  WriterInv'
<1>1. /\ janitor \in ExportSweep /\ table \in [Exports -> ExportRow]
      /\ files \in [Exports -> {"none", "partial", "whole"}]
  BY DEF ExportTypeInv, ExportTypeOK
<1>2. UNCHANGED <<requests, handler>>
  BY DEF ExportCleanup, BeginExportSweep, UnlinkExpired, FlipExpired, ListStaleExports,
     UnlinkStale, PurgeExport, EndExportSweep
<1>3. \A e \in Exports : RowAndFile(e) /\ (table[e].path => table[e].status = "ready")
  BY DEF WriterInv, RowAndFile
<1>4. CASE BeginExportSweep \/ EndExportSweep
  <2>1. PICK pc \in {"idle", "expire"}, late \in SUBSET {e \in Exports : PastExpiry(e)} :
          janitor' = [pc |-> pc, todo |-> late, named |-> {}, e |-> None]
    <3>1. {e \in Exports : table[e].status = "ready" /\ table[e].age = "expired"}
            \in SUBSET {e \in Exports : PastExpiry(e)}
      BY DEF PastExpiry
    <3> QED
      BY <1>4, <3>1 DEF BeginExportSweep, EndExportSweep, NoExportSweep
  <2>2. UNCHANGED <<table, files>>
    BY <1>4 DEF BeginExportSweep, EndExportSweep
  <2> QED
    BY <1>2, <2>1, <2>2 DEF WriterInv, WriterClaimed, WriterFile, NotBegun, SweepLate, PastExpiry,
       RowAndFile
<1>5. CASE ListStaleExports
  <2>1. UNCHANGED <<table, files>> /\ janitor'.pc = "unlink" /\ janitor'.named = {}
    BY <1>3, <1>5 DEF ListStaleExports
  <2> QED
    BY <1>2, <2>1 DEF WriterInv, WriterClaimed, WriterFile, NotBegun, SweepLate, PastExpiry,
       RowAndFile
<1>6. CASE UnlinkExpired
  <2>1. PICK e \in janitor.todo :
          /\ files' = [files EXCEPT ![e] = "none"]
          /\ janitor' = [janitor EXCEPT !.pc = "flip", !.todo = @ \ {e}, !.e = e]
    BY <1>6 DEF UnlinkExpired
  <2>2. UNCHANGED table /\ PastExpiry(e) /\ e \in Exports /\ \A x \in janitor.todo : PastExpiry(x)
    BY <1>1, <1>6 DEF UnlinkExpired, WriterInv, SweepLate, ExportSweep
  <2>3. janitor'.pc = "flip" /\ janitor'.e = e /\ janitor'.todo \subseteq janitor.todo /\ janitor'.named = {}
    BY <1>1, <2>1 DEF ExportSweep, WriterInv, SweepLate
  <2>4. SweepLate'
    BY <2>2, <2>3 DEF SweepLate, PastExpiry
  <2>5. \A x \in Exports : RowAndFile(x)'
    BY <1>1, <1>3, <2>1, <2>2 DEF RowAndFile, PastExpiry
  <2>6. WriterFile'
    BY <1>1, <1>2, <2>1, <2>2 DEF WriterInv, WriterFile, WriterClaimed, PastExpiry, Writing
  <2> QED
    BY <1>2, <2>2, <2>4, <2>5, <2>6 DEF WriterInv, WriterClaimed, NotBegun
<1>7. CASE FlipExpired
  <2>1. janitor.e \in Exports /\ PastExpiry(janitor.e) /\ table[janitor.e] \in ExportRow
    BY <1>1, <1>7 DEF FlipExpired, ExportTypeInv, SweepHasExport, WriterInv, SweepLate
  <2>2. /\ UNCHANGED files
        /\ table' = [table EXCEPT ![janitor.e] = ExpiredExport(@)]
        /\ janitor' = [janitor EXCEPT !.pc = "expire", !.e = None]
        /\ \A x \in janitor.todo : PastExpiry(x)
    BY <1>7 DEF FlipExpired, WriterInv, SweepLate
  <2>3. /\ table'[janitor.e].status \in {"expired", "purged"}
        /\ table'[janitor.e].age = table[janitor.e].age
        /\ table'[janitor.e].path => table'[janitor.e].status = "ready"
        /\ table[janitor.e].status = "purged" => table'[janitor.e].status = "purged"
        /\ table[janitor.e].status # "purged" => table[janitor.e].age # "fresh"
    BY <1>1, <1>3, <2>1, <2>2 DEF ExpiredExport, ExportRow, PastExpiry, RowAndFile
  <2>4. \A x \in Exports \ {janitor.e} : table'[x] = table[x]
    BY <1>1, <2>2
  <2>5. \A x \in Exports : RowAndFile(x)' /\ (PastExpiry(x) => PastExpiry(x)')
    BY <1>3, <2>1, <2>2, <2>3, <2>4 DEF RowAndFile, PastExpiry
  <2>6. SweepLate'
    BY <1>1, <2>2, <2>5 DEF SweepLate, ExportSweep, WriterInv
  <2>7. WriterClaimed' /\ WriterFile'
    BY <1>2, <2>1, <2>2, <2>4 DEF WriterInv, WriterFile, WriterClaimed, PastExpiry, Writing,
       ExportTypeInv, HandlersHaveExport
  <2>8. NotBegun'
    BY <1>2, <2>1, <2>4 DEF WriterInv, NotBegun, PastExpiry
  <2> QED
    BY <2>5, <2>6, <2>7, <2>8 DEF WriterInv
<1>8. CASE UnlinkStale
  <2>1. PICK e \in janitor.todo :
          /\ files' = [files EXCEPT ![e] = IF e \in janitor.named THEN "none" ELSE @]
          /\ janitor' = [janitor EXCEPT !.pc = "purge", !.todo = @ \ {e}, !.e = e]
    BY <1>8 DEF UnlinkStale
  <2>2. UNCHANGED <<table, files>>
    BY <1>1, <1>8, <2>1 DEF UnlinkStale, WriterInv, SweepLate, ExportSweep
  <2>3. janitor'.pc = "purge" /\ janitor'.named = {}
    BY <1>1, <2>1 DEF ExportSweep, WriterInv, SweepLate
  <2> QED
    BY <1>2, <2>2, <2>3 DEF WriterInv, WriterClaimed, WriterFile, NotBegun, SweepLate, PastExpiry,
       RowAndFile
<1>9. CASE PurgeExport
  <2> DEFINE e == janitor.e
  <2>1. e \in Exports /\ table[e] \in ExportRow
    BY <1>1, <1>9 DEF PurgeExport, ExportTypeInv, SweepHasExport
  <2>2. /\ UNCHANGED files /\ \A x \in Exports \ {e} : table'[x] = table[x]
        /\ \/ table'[e] = table[e]
           \/ /\ table[e].status \in {"expired", "failed", "cancelled"}
              /\ table'[e].status = "purged" /\ table'[e].path = table[e].path
    BY <1>1, <1>9, <2>1 DEF PurgeExport, ExportRow
  <2>3. janitor'.pc = "unlink" /\ janitor'.named = {}
    BY <1>1, <1>9 DEF PurgeExport, ExportSweep, WriterInv, SweepLate
  <2>4. \A x \in Exports : RowAndFile(x)'
    BY <1>3, <2>1, <2>2 DEF RowAndFile
  <2>5. WriterClaimed' /\ WriterFile'
    BY <1>2, <2>1, <2>2 DEF WriterInv, WriterFile, WriterClaimed, Writing, ExportTypeInv, HandlersHaveExport
  <2>6. NotBegun' /\ SweepLate'
    BY <1>2, <2>2, <2>3 DEF WriterInv, NotBegun, SweepLate
  <2> QED
    BY <2>4, <2>5, <2>6 DEF WriterInv
<1> QED
  BY <1>4, <1>5, <1>6, <1>7, <1>8, <1>9 DEF ExportCleanup

\* No step lets a second handler in.
LEMMA WriterNext == ExportTypeInv /\ WriterInv /\ [ExportNext]_exportVars => WriterInv'
<1> SUFFICES ASSUME ExportTypeInv, WriterInv, [ExportNext]_exportVars PROVE WriterInv'
  OBVIOUS
<1>1. CASE \E e \in Exports : \/ ExportApi(e) \/ CancelExport(e) \/ ReadExport(e)
                              \/ StallExport(e) \/ AgeExport(e)
  BY <1>1, WriterRequest
<1>2. CASE \E s \in Slots : RunExport(s)
  BY <1>2, WriterHandler, WriterSlot DEF RunExport, Handles
<1>3. CASE ExportCleanup
  BY <1>3, WriterSweep
<1>4. CASE CrashExport
  BY <1>4 DEF CrashExport, WriterInv, WriterClaimed, WriterFile, NotBegun, SweepLate,
     PastExpiry, RowAndFile, Writing, ExportIdle, NoExportSweep
<1>5. CASE RestartExport \/ UNCHANGED exportVars
  BY <1>5 DEF RestartExport, exportVars, WriterInv, WriterClaimed, WriterFile, NotBegun,
     SweepLate, PastExpiry, RowAndFile
<1> QED
  BY <1>1, <1>2, <1>3, <1>4, <1>5 DEF ExportNext

\* Two handlers never write the same export: a job that BullMQ hands out twice
\* finds the row claimed (claimForProcessing), and a failed row is claimed again
\* only after the last write of the attempt that failed.
THEOREM SingleWriter == ExportSpec => []OneWriter
<1>1. WriterInv => OneWriter
  <2> SUFFICES ASSUME WriterInv, NEW e \in Exports
               PROVE  Cardinality(WorkingOn(e)) <= 1
    BY DEF OneWriter
  <2>1. \A s, t \in WorkingOn(e) : s = t
    BY DEF WorkingOn, WriterInv, WriterClaimed, Writing
  <2>2. CASE WorkingOn(e) = {}
    BY <2>2, FS_EmptySet
  <2>3. CASE WorkingOn(e) # {}
    <3>1. PICK s : WorkingOn(e) = {s}
      BY <2>1, <2>3
    <3>2. Cardinality(WorkingOn(e)) = 1
      BY <3>1, FS_Singleton
    <3> QED
      BY <3>2
  <2> QED
    BY <2>2, <2>3
<1> QED
  BY ExportTypeInit, ExportTypeNext, WriterInit, WriterNext, <1>1, PTL DEF ExportSpec

\* A ready export within its retention has its whole file, and an export that
\* failed or was cancelled has none to offer.
OfferedWhole ==
  \A e \in Exports :
    /\ table[e].status = "ready" /\ table[e].age = "fresh" => files[e] = "whole"
    /\ table[e].status \in {"failed", "cancelled"} => files[e] # "whole" /\ ~table[e].path

\* Whatever retries, stalled handlers, cancels, sweeps and crashes do, whoever
\* downloads an export that has not expired gets all of it: no other attempt
\* truncates the file of one that is ready, and the sweep takes none too soon.
THEOREM ReadyExportsWhole == ExportSpec => []OfferedWhole
<1>1. WriterInv => OfferedWhole
  BY DEF WriterInv, RowAndFile, OfferedWhole
<1> QED
  BY ExportTypeInit, ExportTypeNext, WriterInit, WriterNext, <1>1, PTL DEF ExportSpec

-----------------------------------------------------------------------------
(* The life cycle an export's user is promised *)

\* The refinement mapping, export by export.
FileStatus(e) == IF table[e].status = "processing" THEN "claimed" ELSE table[e].status
HasFile(e) == files[e] = "whole" /\ table[e].status # "processing"
FileLapsed(e) == table[e].status \in {"ready", "expired"} /\ table[e].age # "fresh"

fileStatus == [e \in Exports |-> FileStatus(e)]
fileBar == {e \in Exports : HasFile(e)}
lapseBar == {e \in Exports : FileLapsed(e)}

\* The export e does what its life cycle allows in one step.
ExportLifeStep(e) ==
  \/ ExportLife!Submit(e) \/ ExportLife!Claim(e) \/ ExportLife!Finish(e)
  \/ ExportLife!Fail(e) \/ ExportLife!Cancel(e) \/ ExportLife!Lapse(e)
  \/ ExportLife!Drop(e) \/ ExportLife!Expire(e) \/ ExportLife!Purge(e)
  \/ UNCHANGED ExportLife!vars

\* A step that touches one export changes the mapped variables there.
LEMMA FileStep ==
  ASSUME NEW e \in Exports, OtherExports(e)
  PROVE  /\ fileStatus' = [fileStatus EXCEPT ![e] = FileStatus(e)']
         /\ fileBar' = IF HasFile(e)' THEN fileBar \cup {e} ELSE fileBar \ {e}
         /\ lapseBar' = IF FileLapsed(e)' THEN lapseBar \cup {e} ELSE lapseBar \ {e}
<1>1. \A x \in Exports \ {e} : /\ FileStatus(x)' = FileStatus(x)
                               /\ HasFile(x)' = HasFile(x)
                               /\ FileLapsed(x)' = FileLapsed(x)
  BY DEF OtherExports, FileStatus, HasFile, FileLapsed
<1>2. fileStatus' = [fileStatus EXCEPT ![e] = FileStatus(e)']
  BY <1>1 DEF fileStatus
<1>3. fileBar' = IF HasFile(e)' THEN fileBar \cup {e} ELSE fileBar \ {e}
  BY <1>1 DEF fileBar
<1>4. lapseBar' = IF FileLapsed(e)' THEN lapseBar \cup {e} ELSE lapseBar \ {e}
  BY <1>1 DEF lapseBar
<1> QED
  BY <1>2, <1>3, <1>4

\* The moves of the life cycle, in terms of the mapping.
FileMove(e) ==
  \/ /\ FileStatus(e)' = FileStatus(e) /\ HasFile(e)' = HasFile(e)
     /\ FileLapsed(e)' = FileLapsed(e)
  \/ /\ FileStatus(e) = "none" /\ FileStatus(e)' = "queued"
     /\ HasFile(e)' = HasFile(e) /\ FileLapsed(e)' = FileLapsed(e)
  \/ /\ FileStatus(e) \in {"queued", "failed"} /\ FileStatus(e)' = "claimed"
     /\ ~HasFile(e) /\ ~HasFile(e)' /\ FileLapsed(e)' = FileLapsed(e)
  \/ /\ FileStatus(e) = "claimed" /\ FileStatus(e)' = "ready"
     /\ HasFile(e)' /\ FileLapsed(e)' = FileLapsed(e)
  \/ /\ FileStatus(e) = "claimed" /\ FileStatus(e)' = "failed"
     /\ HasFile(e)' = HasFile(e) /\ FileLapsed(e)' = FileLapsed(e)
  \/ /\ FileStatus(e) \in {"queued", "claimed"} /\ FileStatus(e)' = "cancelled"
     /\ HasFile(e)' = HasFile(e) /\ FileLapsed(e)' = FileLapsed(e)
  \/ /\ FileStatus(e) = "ready" /\ FileStatus(e)' = "ready"
     /\ HasFile(e)' = HasFile(e) /\ FileLapsed(e)'
  \/ /\ FileStatus(e)' = FileStatus(e) /\ HasFile(e) /\ ~HasFile(e)'
     /\ FileStatus(e) # "ready" \/ FileLapsed(e)
     /\ FileLapsed(e)' = FileLapsed(e)
  \/ /\ FileStatus(e) = "ready" /\ FileStatus(e)' = "expired" /\ FileLapsed(e)
     /\ HasFile(e)' = HasFile(e) /\ FileLapsed(e)'
  \/ /\ FileStatus(e) \in {"failed", "cancelled", "expired"}
     /\ FileStatus(e)' = "purged"
     /\ HasFile(e)' = HasFile(e) /\ ~FileLapsed(e)'

\* A step that moves one export along is a step of the life cycle.
LEMMA FileMoves ==
  ASSUME NEW e \in Exports, OtherExports(e), FileMove(e)
  PROVE  ExportLifeStep(e)
<1>1. /\ fileStatus' = [fileStatus EXCEPT ![e] = FileStatus(e)']
      /\ fileBar' = IF HasFile(e)' THEN fileBar \cup {e} ELSE fileBar \ {e}
      /\ lapseBar' = IF FileLapsed(e)' THEN lapseBar \cup {e} ELSE lapseBar \ {e}
  BY FileStep
<1>2. /\ fileStatus[e] = FileStatus(e) /\ fileStatus = [x \in Exports |-> fileStatus[x]]
      /\ e \in fileBar <=> HasFile(e)
      /\ e \in lapseBar <=> FileLapsed(e)
  BY DEF fileStatus, fileBar, lapseBar
<1> DEFINE to(x) == fileStatus' = [fileStatus EXCEPT ![e] = x]
<1> USE DEF ExportLife!Move, fileStatus, fileBar, lapseBar, FileStatus, HasFile, FileLapsed
<1>3. /\ ExportLife!Submit(e) <=>
           fileStatus[e] = "none" /\ to("queued") /\ UNCHANGED <<fileBar, lapseBar>>
      /\ ExportLife!Claim(e) <=>
           /\ fileStatus[e] \in {"queued", "failed"} /\ to("claimed") /\ e \notin fileBar
           /\ UNCHANGED <<fileBar, lapseBar>>
      /\ ExportLife!Finish(e) <=>
           /\ fileStatus[e] = "claimed" /\ to("ready") /\ fileBar' = fileBar \cup {e}
           /\ UNCHANGED lapseBar
  BY DEF ExportLife!Submit, ExportLife!Claim, ExportLife!Finish
<1>4. /\ fileStatus[e] = "claimed" /\ to("failed") /\ UNCHANGED <<fileBar, lapseBar>>
           => ExportLife!Fail(e)
      /\ ExportLife!Cancel(e) <=>
           /\ fileStatus[e] \in {"queued", "claimed"} /\ to("cancelled")
           /\ UNCHANGED <<fileBar, lapseBar>>
      /\ ExportLife!Lapse(e) <=>
           /\ fileStatus[e] = "ready" /\ lapseBar' = lapseBar \cup {e}
           /\ UNCHANGED <<fileStatus, fileBar>>
  BY DEF ExportLife!Fail, ExportLife!Cancel, ExportLife!Lapse
<1>5. /\ ExportLife!Drop(e) <=>
           /\ e \in fileBar /\ (fileStatus[e] # "ready" \/ e \in lapseBar)
           /\ fileBar' = fileBar \ {e} /\ UNCHANGED <<fileStatus, lapseBar>>
      /\ ExportLife!Expire(e) <=>
           /\ fileStatus[e] = "ready" /\ to("expired") /\ e \in lapseBar
           /\ UNCHANGED <<fileBar, lapseBar>>
      /\ ExportLife!Purge(e) <=>
           /\ fileStatus[e] \in {"failed", "cancelled", "expired"} /\ to("purged")
           /\ lapseBar' = lapseBar \ {e} /\ UNCHANGED fileBar
      /\ UNCHANGED ExportLife!vars <=> UNCHANGED <<fileStatus, fileBar, lapseBar>>
  BY DEF ExportLife!Drop, ExportLife!Expire, ExportLife!Purge, ExportLife!vars
<1> HIDE DEF fileStatus, fileBar, lapseBar, FileStatus, HasFile, FileLapsed
<1> QED
  BY <1>1, <1>2, <1>3, <1>4, <1>5 DEF ExportLifeStep, FileMove

\* Requests and the clock: Submit, Cancel, Expire or Lapse.
LEMMA LifeExportCall ==
  ASSUME ExportTypeInv, WriterInv, NEW e \in Exports,
         ExportApi(e) \/ CancelExport(e) \/ ReadExport(e) \/ StallExport(e) \/ AgeExport(e)
  PROVE  ExportLifeStep(e)
<1>1. /\ table \in [Exports -> ExportRow] /\ table[e] \in ExportRow
      /\ requests \in [Exports -> {"new", "counted", "inserted", "over"}]
  BY DEF ExportTypeInv, ExportTypeOK
<1>2. UNCHANGED files
  BY DEF ExportApi, CountExports, CreateExport, AddExportJob, CancelExport, ReadExport,
     StallExport, AgeExport
<1>3. OtherExports(e)
  BY <1>1, <1>2 DEF ExportApi, CountExports, CreateExport, AddExportJob, CancelExport,
     ReadExport, StallExport, AgeExport, OtherExports
<1>4. RowAndFile(e) /\ (requests[e] = "counted" => table[e].status = "none")
  BY DEF WriterInv, NotBegun
<1>5. CASE CreateExport(e)
  <2>1. table[e].status = "none" /\ table'[e].status = "queued"
    BY <1>1, <1>4, <1>5 DEF CreateExport, ExportRow
  <2> QED
    BY <1>2, <1>3, <2>1, FileMoves DEF FileMove, FileStatus, HasFile, FileLapsed
<1>6. CASE CancelExport(e)
  <2>1. /\ table[e].status \in {"queued", "processing"}
        /\ table'[e].status = IF table[e].status = "queued" THEN "cancelled" ELSE table[e].status
    BY <1>1, <1>6 DEF CancelExport, ExportRow
  <2> QED
    BY <1>2, <1>3, <2>1, FileMoves DEF FileMove, FileStatus, HasFile, FileLapsed
<1>7. CASE ReadExport(e)
  <2>1. /\ table[e].status = "ready" /\ table[e].age = "expired"
        /\ table'[e].status = "expired" /\ table'[e].age = "expired"
    BY <1>1, <1>7 DEF ReadExport, ExpiredExport, ExportRow
  <2> QED
    BY <1>2, <1>3, <2>1, FileMoves DEF FileMove, FileStatus, HasFile, FileLapsed
<1>8. CASE AgeExport(e)
  <2>1. /\ table'[e].status = table[e].status
        /\ \/ table[e].status = "ready" /\ table'[e].age = "expired"
           \/ table[e].status \in {"failed", "cancelled", "expired"} /\ table'[e].age = "stale"
    BY <1>1, <1>8 DEF AgeExport, ExportRow
  <2>2. table[e].status = "expired" => table[e].age # "fresh"
    BY <1>4 DEF RowAndFile
  <2> QED
    BY <1>2, <1>3, <2>1, <2>2, FileMoves DEF FileMove, FileStatus, HasFile, FileLapsed
<1>9. CASE CountExports(e) \/ AddExportJob(e) \/ StallExport(e)
  <2>1. UNCHANGED table
    BY <1>9 DEF CountExports, AddExportJob, StallExport
  <2> QED
    BY <1>2, <1>3, <2>1, FileMoves DEF FileMove, FileStatus, HasFile, FileLapsed
<1> QED
  BY <1>5, <1>6, <1>7, <1>8, <1>9 DEF ExportApi

\* A handler: Claim, Finish, Fail or Cancel; what it does to the file of a
\* claimed export is nobody's result yet.
LEMMA LifeHandler ==
  ASSUME ExportTypeInv, WriterInv, NEW s \in Slots, Handles(s)
  PROVE  \E e \in Exports : ExportLifeStep(e)
<1>1. PICK e \in Exports : e = handler[s].e /\ OtherExports(e)
  BY HandlerWrites
<1>2. table[e] \in ExportRow /\ RowAndFile(e)
  BY <1>1 DEF ExportTypeInv, ExportTypeOK, WriterInv
<1>3. handler[s].pc \in Writing => table[e].status = "processing"
  BY <1>1 DEF WriterInv, WriterClaimed
<1>4. /\ handler[s].pc = "ready" => files[e] = "whole"
      /\ handler[s].pc = "mark" => files[e] # "whole"
  BY <1>1 DEF WriterInv, WriterFile
<1>5. CASE UNCHANGED <<table, files>>
  BY <1>1, <1>5, FileMoves DEF FileMove, FileStatus, HasFile, FileLapsed
<1>6. CASE /\ UNCHANGED files /\ table[e].status \in {"queued", "failed"}
           /\ table'[e] = [table[e] EXCEPT !.status = "processing", !.age = "fresh"]
  <2>1. table'[e].status = "processing" /\ files[e] # "whole"
    BY <1>2, <1>6 DEF ExportRow, RowAndFile
  <2> QED
    BY <1>1, <1>6, <2>1, FileMoves DEF FileMove, FileStatus, HasFile, FileLapsed
<1>7. CASE handler[s].pc \in Writing /\ UNCHANGED table
  BY <1>1, <1>3, <1>7, FileMoves DEF FileMove, FileStatus, HasFile, FileLapsed
<1>8. CASE /\ handler[s].pc = "ready" /\ UNCHANGED files
           /\ table'[e] = [table[e] EXCEPT !.status = "ready", !.path = TRUE, !.age = "fresh"]
  <2>1. table'[e].status = "ready" /\ table'[e].age = "fresh" /\ table[e].status = "processing"
    BY <1>2, <1>3, <1>8 DEF ExportRow, Writing
  <2> QED
    BY <1>1, <1>4, <1>8, <2>1, FileMoves DEF FileMove, FileStatus, HasFile, FileLapsed
<1>9. CASE /\ handler[s].pc = "mark" /\ UNCHANGED files
           /\ handler[s].out \in {"failed", "cancelled"}
           /\ table'[e] = [table[e] EXCEPT !.status = handler[s].out, !.age = "fresh"]
  <2>1. table'[e].status \in {"failed", "cancelled"} /\ table[e].status = "processing"
    BY <1>2, <1>3, <1>9 DEF ExportRow, Writing
  <2> QED
    BY <1>1, <1>4, <1>9, <2>1, FileMoves DEF FileMove, FileStatus, HasFile, FileLapsed
<1>10. \/ UNCHANGED <<table, files>>
       \/ /\ UNCHANGED files /\ table[e].status \in {"queued", "failed"}
          /\ table'[e] = [table[e] EXCEPT !.status = "processing", !.age = "fresh"]
       \/ handler[s].pc \in Writing /\ UNCHANGED table
       \/ /\ handler[s].pc = "ready" /\ UNCHANGED files
          /\ table'[e] = [table[e] EXCEPT !.status = "ready", !.path = TRUE, !.age = "fresh"]
       \/ /\ handler[s].pc = "mark" /\ UNCHANGED files
          /\ handler[s].out \in {"failed", "cancelled"}
          /\ table'[e] = [table[e] EXCEPT !.status = handler[s].out, !.age = "fresh"]
  BY <1>1, HandlerWrites
<1> QED
  BY <1>5, <1>6, <1>7, <1>8, <1>9, <1>10

\* The sweep: Drop of a file past its expiry, Expire or Purge.
LEMMA LifeJanitor ==
  ASSUME ExportTypeInv, WriterInv, ExportCleanup
  PROVE  UNCHANGED <<table, files>> \/ \E e \in Exports : ExportLifeStep(e)
<1>1. /\ janitor \in ExportSweep /\ table \in [Exports -> ExportRow]
      /\ files \in [Exports -> {"none", "partial", "whole"}]
  BY DEF ExportTypeInv, ExportTypeOK
<1>2. CASE BeginExportSweep \/ EndExportSweep \/ ListStaleExports
  BY <1>2 DEF BeginExportSweep, EndExportSweep, ListStaleExports
<1>3. CASE UnlinkStale
  BY <1>1, <1>3 DEF UnlinkStale, WriterInv, SweepLate, ExportSweep
<1>4. CASE UnlinkExpired
  <2>1. PICK e \in janitor.todo : files' = [files EXCEPT ![e] = "none"]
    BY <1>4 DEF UnlinkExpired
  <2>2. UNCHANGED table /\ PastExpiry(e) /\ e \in Exports
    BY <1>1, <1>4 DEF UnlinkExpired, WriterInv, SweepLate, ExportSweep
  <2>3. OtherExports(e) /\ files'[e] = "none"
    BY <1>1, <2>1, <2>2 DEF OtherExports
  <2>4. FileMove(e)
    BY <2>2, <2>3 DEF FileMove, FileStatus, HasFile, FileLapsed, PastExpiry
  <2> QED
    BY <2>2, <2>3, <2>4, FileMoves
<1>5. CASE FlipExpired
  <2>1. PICK e \in Exports : e = janitor.e /\ PastExpiry(e) /\ table[e] \in ExportRow
    BY <1>1, <1>5 DEF FlipExpired, ExportTypeInv, SweepHasExport, WriterInv, SweepLate
  <2>2. UNCHANGED files /\ table' = [table EXCEPT ![e] = ExpiredExport(@)]
    BY <1>5, <2>1 DEF FlipExpired
  <2>3. OtherExports(e)
    BY <1>1, <2>2 DEF OtherExports
  <2>4. table'[e].age = table[e].age /\ table'[e].status =
          IF table[e].status \in {"ready", "expired"} THEN "expired" ELSE table[e].status
    BY <1>1, <2>1, <2>2 DEF ExpiredExport, ExportRow
  <2>5. FileMove(e)
    BY <2>1, <2>2, <2>4 DEF FileMove, FileStatus, HasFile, FileLapsed, PastExpiry
  <2> QED
    BY <2>3, <2>5, FileMoves
<1>6. CASE PurgeExport
  <2>1. PICK e \in Exports : e = janitor.e /\ table[e] \in ExportRow
    BY <1>1, <1>6 DEF PurgeExport, ExportTypeInv, SweepHasExport
  <2>2. /\ UNCHANGED files /\ OtherExports(e)
        /\ \/ table'[e] = table[e]
           \/ /\ table[e].status \in {"expired", "failed", "cancelled"}
              /\ table'[e].status = "purged"
    BY <1>1, <1>6, <2>1 DEF PurgeExport, ExportRow, OtherExports
  <2>3. FileMove(e)
    BY <2>2 DEF FileMove, FileStatus, HasFile, FileLapsed
  <2> QED
    BY <2>2, <2>3, FileMoves
<1> QED
  BY <1>2, <1>3, <1>4, <1>5, <1>6 DEF ExportCleanup

\* Every step of the exports is a step of the life cycle, or none.
LEMMA ExportLifeNext ==
  ExportTypeInv /\ WriterInv /\ [ExportNext]_exportVars => [ExportLife!Next]_(ExportLife!vars)
<1> SUFFICES ASSUME ExportTypeInv, WriterInv, [ExportNext]_exportVars
             PROVE  [ExportLife!Next]_(ExportLife!vars)
  OBVIOUS
<1>1. (\E e \in Exports : ExportLifeStep(e)) => [ExportLife!Next]_(ExportLife!vars)
  BY DEF ExportLifeStep, ExportLife!Next
<1>2. UNCHANGED <<table, files>> => [ExportLife!Next]_(ExportLife!vars)
  BY DEF ExportLife!vars
<1>3. CASE \E e \in Exports : \/ ExportApi(e) \/ CancelExport(e) \/ ReadExport(e)
                              \/ StallExport(e) \/ AgeExport(e)
  BY <1>1, <1>3, LifeExportCall
<1>4. CASE \E s \in Slots : RunExport(s)
  <2>1. PICK s \in Slots : RunExport(s)
    BY <1>4
  <2>2. CASE Handles(s)
    BY <1>1, <2>2, LifeHandler
  <2>3. CASE SettleExport(s) \/ \E e \in Exports : TakeExport(s, e)
    BY <1>2, <2>3 DEF SettleExport, TakeExport
  <2> QED
    BY <2>1, <2>2, <2>3 DEF RunExport, Handles
<1>5. CASE ExportCleanup
  BY <1>1, <1>2, <1>5, LifeJanitor
<1>6. CASE CrashExport \/ RestartExport \/ UNCHANGED exportVars
  BY <1>2, <1>6 DEF CrashExport, RestartExport, exportVars
<1> QED
  BY <1>3, <1>4, <1>5, <1>6 DEF ExportNext

\* The exports keep the promise of TrackedJobs for any number of exports, slots
\* and crashes: every await between table, queue and disk taken into account, a
\* ready row has its whole file until its retention lapses, and a status only
\* moves along the life cycle (iocSearchExport/exportStore.js).
THEOREM ExportLifeCycle == ExportSpec => ExportPromise
<1>1. ExportInit => ExportLife!Init
  BY DEF ExportInit, ExportLife!Init, NoExport
<1> QED
  BY <1>1, ExportTypeInit, ExportTypeNext, WriterInit, WriterNext, ExportLifeNext, PTL
     DEF ExportSpec, ExportPromise, ExportLife!Spec

-----------------------------------------------------------------------------
(* Searches, exports and inference together *)

\* The parts of MCBackendJobs in which deep searches and bulk jobs run.
SearchParts == {"deep", "bulk"}

\* A step of the composed system is a step or a stutter of its parts.  Deep
\* searches and exports count the same crashes, so the steps of the one are
\* stutters of the other but for that count.
LEMMA JobStep ==
  ASSUME [MCNext]_jobVars
  PROVE  /\ part' = part
         /\ [InferenceNext]_inferenceOwn
         /\ part # "export" => [Next]_vars
         /\ part \notin SearchParts => [ExportNext]_exportVars
         /\ part = "export" => UNCHANGED <<deepOwn, bulkOwn>>
         /\ part \in SearchParts => UNCHANGED exportOwn
<1>1. CASE UNCHANGED jobVars
  BY <1>1 DEF jobVars, vars, exportOwn, exportVars
<1>2. CASE part \in SearchParts /\ MCNext
  BY <1>2 DEF MCNext, SearchParts
<1>3. CASE part = "export" /\ MCNext
  BY <1>3 DEF MCNext, SearchParts
<1>4. CASE part \notin SearchParts \cup {"export"} /\ MCNext
  BY <1>4 DEF MCNext, SearchParts, vars, exportOwn, exportVars
<1> QED
  BY <1>1, <1>2, <1>3, <1>4

\* In MCBackendJobs the AI requests behave as InferenceSpec; unless exports
\* run, the searches and bulk jobs behave as Spec; and unless those run, the
\* exports behave as ExportSpec.  So what is proved of each holds of the
\* system that TLC explores, in the parts that exercise it.
THEOREM JobParts ==
  MCSpec => /\ InferenceSpec
            /\ part # "export" => Spec
            /\ part \notin SearchParts => ExportSpec
<1>1. MCInit => Init /\ ExportInit /\ InferenceInit
  BY DEF MCInit
<1>2. part # "export" /\ [MCNext]_jobVars => (part # "export")' /\ [Next]_vars
  BY JobStep
<1>3. part \notin SearchParts /\ [MCNext]_jobVars
        => (part \notin SearchParts)' /\ [ExportNext]_exportVars
  BY JobStep DEF SearchParts
<1>4. [MCNext]_jobVars => [InferenceNext]_inferenceOwn
  BY JobStep
<1>5. MCSpec /\ part # "export" => Spec
  BY <1>1, <1>2, PTL DEF MCSpec, Spec
<1>6. MCSpec /\ part \notin SearchParts => ExportSpec
  BY <1>1, <1>3, PTL DEF MCSpec, ExportSpec
<1>7. MCSpec => InferenceSpec
  BY <1>1, <1>4, PTL DEF MCSpec, InferenceSpec
<1> QED
  BY <1>5, <1>6, <1>7, PTL

\* Whoever counts a crash, the types of the others stay.
LEMMA JobTypes ==
  ASSUME TypeInv, ExportTypeInv, [MCNext]_jobVars
  PROVE  TypeInv' /\ ExportTypeInv'
<1>1. CASE part = "export"
  <2>1. ExportTypeInv' /\ UNCHANGED <<deepOwn, bulkOwn>>
    BY <1>1, JobStep, ExportTypeNext DEF SearchParts
  <2>2. stops' \in 0 .. MaxStops
    BY <2>1 DEF ExportTypeInv, ExportTypeOK
  <2> QED
    BY <2>1, <2>2 DEF deepOwn, bulkOwn, TypeInv, BulkTypeOK, DeepTypeOK, SlotsHaveSearch,
       SweepHasSearch, CallHasSearch, BulkSlotsHaveJob
<1>2. CASE part \in SearchParts
  <2>1. TypeInv' /\ UNCHANGED exportOwn
    BY <1>2, JobStep, TypeNext DEF SearchParts
  <2>2. stops' \in 0 .. MaxStops
    BY <2>1 DEF TypeInv, BulkTypeOK, DeepTypeOK
  <2> QED
    BY <2>1, <2>2 DEF exportOwn, ExportTypeInv, ExportTypeOK, HandlersHaveExport, SweepHasExport
<1>3. CASE part \notin SearchParts \cup {"export"}
  BY <1>3, JobStep, TypeNext, ExportTypeNext
<1> QED
  BY <1>1, <1>2, <1>3

\* The rows, queues, spools, files, handlers, sweeps and leases of all the
\* backend's jobs are well formed in the composed system.
THEOREM JobsTypeCorrect == MCSpec => []JobsTypeOK
<1>1. MCInit => TypeInv /\ ExportTypeInv
  BY TypeInit, ExportTypeInit DEF MCInit
<1>2. TypeInv /\ ExportTypeInv /\ [MCNext]_jobVars => (TypeInv /\ ExportTypeInv)'
  BY JobTypes
<1>3. TypeInv /\ ExportTypeInv /\ InferenceTypeOK => JobsTypeOK
  BY DEF TypeInv, ExportTypeInv, JobsTypeOK
<1>4. MCSpec => []InferenceTypeOK
  BY JobParts, InferenceTypeCorrect, PTL
<1> QED
  BY <1>1, <1>2, <1>3, <1>4, PTL DEF MCSpec

=============================================================================
