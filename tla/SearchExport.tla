---------------------------- MODULE SearchExport ----------------------------
(***************************************************************************)
(* Background exports of a search (ioc_search_exports): the API inserts a  *)
(* row and adds a BullMQ job, the slots of the export worker stream the    *)
(* result into a file named after the export, a sweep of the same process  *)
(* deletes what is past its retention, and every request that reads a row  *)
(* past its expiry flips it.  Table, queue and disk are written in         *)
(* separate steps; each await between two writes is a step boundary.       *)
(*                                                                         *)
(* getExportById and claimForProcessing test the same statuses, so the     *)
(* handler's first read and its claim are one step.                        *)
(***************************************************************************)
EXTENDS JobQueue

CONSTANT Exports  \* export ids, all of one user

ASSUME ExportAssumption == None \notin Exports

VARIABLES
  table,     \* PostgreSQL: ioc_search_exports
  jobs,      \* Redis: the export queue
  files,     \* disk: the file of each export
  requests,  \* API: how far the request that creates the export is
  handler,   \* the handler of each slot: step, export, outcome
  janitor,   \* cleanupExpired
  alive      \* the worker process runs

exportVars == <<table, jobs, files, requests, handler, janitor, alive, stops>>

ExportStatus == {"none", "queued", "processing", "ready", "failed",
                 "cancelled", "expired", "purged"}

\* cancel: cancel_requested; path: storage_path IS NOT NULL; age: what the clock
\* has passed, expires_at or metadataRetentionDays.
ExportRow == [status : ExportStatus, cancel : BOOLEAN, path : BOOLEAN,
              age : {"fresh", "expired", "stale"}]

NoExport == [status |-> "none", cancel |-> FALSE, path |-> FALSE,
             age |-> "fresh"]

ExportSlot == [pc : {"idle", "claim", "parse", "stream", "fetch", "ready",
                     "drop", "mark", "settle"},
               e : Exports \cup {None}, out : {"failed", "cancelled"}]

ExportIdle == [pc |-> "idle", e |-> None, out |-> "failed"]

\* named: the stale rows that had a path when they were listed.
ExportSweep == [pc : {"idle", "expire", "flip", "unlink", "purge"},
                todo : SUBSET Exports, named : SUBSET Exports,
                e : Exports \cup {None}]

NoExportSweep == [pc |-> "idle", todo |-> {}, named |-> {}, e |-> None]

ExportTypeOK ==
  /\ table \in [Exports -> ExportRow]
  /\ jobs \in [Exports -> JobEntry(Slots)]
  /\ files \in [Exports -> {"none", "partial", "whole"}]
  /\ requests \in [Exports -> {"new", "counted", "inserted", "over"}]
  /\ handler \in [Slots -> ExportSlot]
  /\ janitor \in ExportSweep
  /\ alive \in BOOLEAN
  /\ stops \in 0 .. MaxStops

ExportInit ==
  /\ table = [e \in Exports |-> NoExport]
  /\ jobs = [e \in Exports |-> NoEntry]
  /\ files = [e \in Exports |-> "none"]
  /\ requests = [e \in Exports |-> "new"]
  /\ handler = [s \in Slots |-> ExportIdle]
  /\ janitor = NoExportSweep
  /\ alive = TRUE
  /\ stops = 0

-----------------------------------------------------------------------------
(* The store *)

ActiveExports ==
  {e \in Exports : table[e].status \in {"queued", "processing"}}

\* UPDATE .. WHERE id: without effect on a row that was deleted.
SetExport(e, st) ==
  table' = [table EXCEPT ![e] = IF @.status = "purged" THEN @
                                ELSE [@ EXCEPT !.status = st, !.age = "fresh"]]

\* Mutant: a redelivered job takes over the row of the attempt before it.
ClaimableExportsAgain == {"queued", "failed", "processing"}

\* The WHERE clause of claimForProcessing.
ClaimableExports == {"queued", "failed"}

\* markExpired: expired, and the path is forgotten.
ExpiredExport(r) ==
  IF r.status \in {"ready", "expired"}
  THEN [r EXCEPT !.status = "expired", !.path = FALSE] ELSE r

-----------------------------------------------------------------------------
(* The API *)

\* enqueueExport counts the user's active exports ...
CountExports(e) ==
  /\ requests[e] = "new"
  /\ requests' = [requests EXCEPT ![e] =
       IF Cardinality(ActiveExports) >= MaxActive THEN "over" ELSE "counted"]
  /\ UNCHANGED <<table, jobs, files, handler, janitor, alive, stops>>

\* ... inserts the row (a retry or a create-again is a new export) ...
CreateExport(e) ==
  /\ requests[e] = "counted"
  /\ requests' = [requests EXCEPT ![e] = "inserted"]
  /\ table' = [table EXCEPT ![e].status = "queued"]
  /\ UNCHANGED <<jobs, files, handler, janitor, alive, stops>>

\* ... and adds the job, which may fail with the row left behind.
AddExportJob(e) ==
  /\ requests[e] = "inserted"
  /\ requests' = [requests EXCEPT ![e] = "over"]
  /\ jobs' \in {Added(jobs, e)} \cup IF DbErrors THEN {jobs} ELSE {}
  /\ UNCHANGED <<table, files, handler, janitor, alive, stops>>

\* requestCancel: a queued export is over, a running one is asked to stop.
CancelExport(e) ==
  /\ table[e].status \in {"queued", "processing"}
  /\ ~table[e].cancel
  /\ table' = [table EXCEPT
       ![e].cancel = TRUE,
       ![e].status = IF @ = "queued" THEN "cancelled" ELSE @]
  /\ UNCHANGED <<jobs, files, requests, handler, janitor, alive, stops>>

\* ensureNotPastExpiry, in every request that reads the export.
ReadExport(e) ==
  /\ table[e].status = "ready" /\ table[e].age = "expired"
  /\ table' = [table EXCEPT ![e] = ExpiredExport(@)]
  /\ UNCHANGED <<jobs, files, requests, handler, janitor, alive, stops>>

-----------------------------------------------------------------------------
(* runExport, in a slot of the worker *)

HandlerAt(s, pc) == alive /\ handler[s].pc = pc

Proceed(s, pc) == handler' = [handler EXCEPT ![s].pc = pc]

Conclude(s, pc, out) ==
  handler' = [handler EXCEPT ![s].pc = pc, ![s].out = out]

TakeExport(s, e) ==
  /\ HandlerAt(s, "idle")
  /\ jobs[e].st = "waiting"
  /\ jobs' = Taken(jobs, e, s)
  /\ handler' = [handler EXCEPT ![s].pc = "claim", ![s].e = e]
  /\ UNCHANGED <<table, files, requests, janitor, alive, stops>>

ClaimExport(s) ==
  LET e == handler[s].e IN
  /\ HandlerAt(s, "claim")
  /\ \/ /\ table[e].status \in ClaimableExports
        /\ SetExport(e, "processing") /\ Proceed(s, "parse")
     \/ /\ table[e].status \notin ClaimableExports \/ DbErrors
        /\ UNCHANGED table /\ Proceed(s, "settle")
  /\ UNCHANGED <<jobs, files, requests, janitor, alive, stops>>

\* The stored query is parsed again; then the file is created, or truncated.
OpenFile(s) ==
  /\ HandlerAt(s, "parse")
  /\ \/ Conclude(s, "mark", "failed") /\ UNCHANGED files
     \/ /\ files' = [files EXCEPT ![handler[s].e] = "partial"]
        /\ Proceed(s, "stream")
  /\ UNCHANGED <<table, jobs, requests, janitor, alive, stops>>

\* Mutant: a handler that finds the cancel flag just returns.
CheckExportReturns(s) ==
  /\ HandlerAt(s, "stream")
  /\ IF table[handler[s].e].cancel THEN Proceed(s, "settle")
                                   ELSE Proceed(s, "fetch")
  /\ UNCHANGED <<table, jobs, files, requests, janitor, alive, stops>>

\* The top of the loop of streamExportToSink.
CheckExport(s) ==
  /\ HandlerAt(s, "stream")
  /\ \/ table[handler[s].e].cancel /\ Conclude(s, "drop", "cancelled")
     \/ ~table[handler[s].e].cancel /\ Proceed(s, "fetch")
     \/ DbErrors /\ Conclude(s, "drop", "failed")
  /\ UNCHANGED <<table, jobs, files, requests, janitor, alive, stops>>

\* One FETCH with more rows to come ...
FetchMore(s) ==
  /\ HandlerAt(s, "fetch")
  /\ Proceed(s, "stream")
  /\ UNCHANGED <<table, jobs, files, requests, janitor, alive, stops>>

\* ... or the last one, the hard limit, or an error.
FetchLast(s) ==
  /\ HandlerAt(s, "fetch")
  /\ \/ /\ files' = [files EXCEPT ![handler[s].e] = "whole"]
        /\ Proceed(s, "ready")
     \/ Conclude(s, "drop", "failed") /\ UNCHANGED files
  /\ UNCHANGED <<table, jobs, requests, janitor, alive, stops>>

MarkReady(s) ==
  LET e == handler[s].e IN
  /\ HandlerAt(s, "ready")
  /\ \/ /\ table' = [table EXCEPT ![e] =
             IF @.status = "purged" THEN @
             ELSE [@ EXCEPT !.status = "ready", !.path = TRUE, !.age = "fresh"]]
        /\ Proceed(s, "settle")
     \/ DbErrors /\ Conclude(s, "drop", "failed") /\ UNCHANGED table
  /\ UNCHANGED <<jobs, files, requests, janitor, alive, stops>>

\* Mutant: a cancelled export keeps its partial file.
DropFileNever(s) ==
  /\ HandlerAt(s, "drop")
  /\ Proceed(s, "mark")
  /\ UNCHANGED <<table, jobs, files, requests, janitor, alive, stops>>

\* cleanupFile
DropFile(s) ==
  /\ HandlerAt(s, "drop")
  /\ files' = [files EXCEPT ![handler[s].e] = "none"]
  /\ Proceed(s, "mark")
  /\ UNCHANGED <<table, jobs, requests, janitor, alive, stops>>

\* markFailed or markCancelled.  A failing markCancelled lands in the catch
\* block; a failing markFailed leaves the handler with the row untouched.
MarkExport(s) ==
  /\ HandlerAt(s, "mark")
  /\ \/ SetExport(handler[s].e, handler[s].out) /\ Proceed(s, "settle")
     \/ /\ DbErrors /\ UNCHANGED table
        /\ IF handler[s].out = "cancelled" THEN Conclude(s, "drop", "failed")
                                           ELSE Proceed(s, "settle")
  /\ UNCHANGED <<jobs, files, requests, janitor, alive, stops>>

SettleExport(s) ==
  /\ HandlerAt(s, "settle")
  /\ jobs' = Settled(jobs, handler[s].e, s)
  /\ handler' = [handler EXCEPT ![s] = ExportIdle]
  /\ UNCHANGED <<table, files, requests, janitor, alive, stops>>

\* The stalled check; the slot that lost its job does not notice.
StallExport(e) ==
  /\ alive /\ jobs[e].st = "active"
  /\ jobs' = TakenBack(jobs, e)
  /\ UNCHANGED <<table, files, requests, handler, janitor, alive, stops>>

-----------------------------------------------------------------------------
(* cleanupExpired: single flight, one export after the other *)

\* findExpiredReady
BeginExportSweep ==
  /\ alive /\ janitor.pc = "idle"
  /\ janitor' = [NoExportSweep EXCEPT !.pc = "expire", !.todo =
       {e \in Exports : table[e].status = "ready" /\ table[e].age = "expired"}]
  /\ UNCHANGED <<table, jobs, files, requests, handler, alive, stops>>

\* Unlink the file of an expired export, then flip its row.
UnlinkExpired ==
  /\ alive /\ janitor.pc = "expire"
  /\ \E e \in janitor.todo :
       /\ files' = [files EXCEPT ![e] = "none"]
       /\ janitor' = [janitor EXCEPT !.pc = "flip", !.todo = @ \ {e}, !.e = e]
  /\ UNCHANGED <<table, jobs, requests, handler, alive, stops>>

FlipExpired ==
  /\ alive /\ janitor.pc = "flip"
  /\ table' = [table EXCEPT ![janitor.e] = ExpiredExport(@)]
  /\ janitor' = [janitor EXCEPT !.pc = "expire", !.e = None]
  /\ UNCHANGED <<jobs, files, requests, handler, alive, stops>>

\* findStaleMetadata, when the first list is done: the rows as read then.
ListStaleExports ==
  LET stale == {e \in Exports :
                  /\ table[e].status \in {"expired", "failed", "cancelled"}
                  /\ table[e].age = "stale"}
  IN
  /\ alive /\ janitor.pc = "expire" /\ janitor.todo = {}
  /\ janitor' = [pc |-> "unlink", todo |-> stale, e |-> None,
               named |-> {e \in stale : table[e].path}]
  /\ UNCHANGED <<table, jobs, files, requests, handler, alive, stops>>

\* Unlink what the row still names, then delete the row if it is still over.
UnlinkStale ==
  /\ alive /\ janitor.pc = "unlink"
  /\ \E e \in janitor.todo :
       /\ files' = [files EXCEPT ![e] =
                      IF e \in janitor.named THEN "none" ELSE @]
       /\ janitor' = [janitor EXCEPT !.pc = "purge", !.todo = @ \ {e}, !.e = e]
  /\ UNCHANGED <<table, jobs, requests, handler, alive, stops>>

PurgeExport ==
  /\ alive /\ janitor.pc = "purge"
  /\ table' = [table EXCEPT ![janitor.e].status =
       IF @ \in {"expired", "failed", "cancelled"} THEN "purged" ELSE @]
  /\ janitor' = [janitor EXCEPT !.pc = "unlink", !.e = None]
  /\ UNCHANGED <<jobs, files, requests, handler, alive, stops>>

\* The pass is through, or a statement of it fails.
EndExportSweep ==
  /\ alive /\ janitor.pc # "idle"
  /\ DbErrors \/ (janitor.pc = "unlink" /\ janitor.todo = {})
  /\ janitor' = NoExportSweep
  /\ UNCHANGED <<table, jobs, files, requests, handler, alive, stops>>

-----------------------------------------------------------------------------
(* Time, crash and restart *)

\* The clock passes expires_at, or the metadata's retention.
AgeExport(e) ==
  /\ \/ table[e].status = "ready" /\ table[e].age = "fresh"
     \/ /\ table[e].status \in {"failed", "cancelled", "expired"}
        /\ table[e].age # "stale"
  /\ table' = [table EXCEPT ![e].age =
       IF table[e].status = "ready" THEN "expired" ELSE "stale"]
  /\ UNCHANGED <<jobs, files, requests, handler, janitor, alive, stops>>

CrashExport ==
  /\ alive /\ stops < MaxStops
  /\ alive' = FALSE
  /\ stops' = stops + 1
  /\ handler' = [s \in Slots |-> ExportIdle]
  /\ janitor' = NoExportSweep
  /\ UNCHANGED <<table, jobs, files, requests>>

RestartExport ==
  /\ ~alive
  /\ alive' = TRUE
  /\ UNCHANGED <<table, jobs, files, requests, handler, janitor, stops>>

ExportApi(e) == CountExports(e) \/ CreateExport(e) \/ AddExportJob(e)

RunExport(s) ==
  \/ \E e \in Exports : TakeExport(s, e)
  \/ ClaimExport(s) \/ OpenFile(s) \/ CheckExport(s) \/ FetchMore(s)
  \/ FetchLast(s) \/ MarkReady(s) \/ DropFile(s) \/ MarkExport(s)
  \/ SettleExport(s)

ExportCleanup ==
  \/ BeginExportSweep \/ UnlinkExpired \/ FlipExpired \/ ListStaleExports
  \/ UnlinkStale \/ PurgeExport \/ EndExportSweep

ExportNext ==
  \/ \E e \in Exports : \/ ExportApi(e) \/ CancelExport(e) \/ ReadExport(e)
                        \/ StallExport(e) \/ AgeExport(e)
  \/ \E s \in Slots : RunExport(s)
  \/ ExportCleanup \/ CrashExport \/ RestartExport

ExportSpec == ExportInit /\ [][ExportNext]_exportVars

-----------------------------------------------------------------------------
(* Properties *)

\* The slots that have claimed an export and may still write its row or file.
WorkingOn(e) ==
  {s \in Slots : /\ handler[s].e = e
                 /\ handler[s].pc \in {"parse", "stream", "fetch", "ready",
                                       "drop", "mark"}}

\* Two handlers never write the same file: a job that BullMQ hands out again
\* finds the row claimed, and a claim of a failed row comes after the last
\* write of the attempt that failed.
OneWriter == \A e \in Exports : Cardinality(WorkingOn(e)) <= 1

\* An export comes to its end in a worker that does not die and whose statements
\* succeed, although its job may be handed out twice or cancelled at any point.
ExportSettles == \A e \in Exports : e \in ActiveExports ~> e \notin ActiveExports

ExportLife ==
  INSTANCE TrackedJobs WITH
    Ids <- Exports,
    Claimable <- {"queued", "failed"},
    status <- [e \in Exports |->
                 IF table[e].status = "processing" THEN "claimed"
                 ELSE table[e].status],
    result <- {e \in Exports : /\ files[e] = "whole"
                               /\ table[e].status # "processing"},
    lapsed <- {e \in Exports : /\ table[e].status \in {"ready", "expired"}
                               /\ table[e].age # "fresh"}

\* The export keeps to the life cycle its user is promised: status, result and
\* retention as TrackedJobs has them, through crashes, redelivered jobs,
\* cancel requests and both ways of expiring.  So an export that is offered for
\* download (routes/iocSearchExports.js serves the file of a ready row) has its
\* whole file on disk.
ExportPromise == ExportLife!Spec

=============================================================================
