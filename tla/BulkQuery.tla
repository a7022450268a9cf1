------------------------------ MODULE BulkQuery ------------------------------
(***************************************************************************)
(* Query-wide bulk actions over the result of a deep search, composed with *)
(* DeepSearch: the API resolves the search, inserts a row of               *)
(* ioc_bulk_query_jobs and adds a BullMQ job; a slot of the bulk worker    *)
(* pages through the search's spool and applies the action to each page.   *)
(* The deep-search sweep looks at this table before it deletes a spool,    *)
(* and this worker reads the spool that sweep deletes.                     *)
(*                                                                         *)
(* No route sets cancel_requested of a bulk job, so the worker's checks of *)
(* it never fire and are left out.  A page holds one row.                  *)
(***************************************************************************)
EXTENDS DeepSearch

CONSTANTS BulkSlots,   \* processing slots of the bulk worker
          MaxBulks     \* maxConcurrentPerUser of bulk jobs

ASSUME BulkAssumption == MaxBulks \in Nat /\ None \notin BulkSlots

VARIABLES
  bulkQueue,  \* Redis: the bulk queue
  bulkCall,   \* API: how far the request for the job is, and its search
  bulkSlot,   \* the handler of each slot: step, job, page reached, applied
  bulkUp      \* the bulk worker runs

bulkOwn == <<bulkRow, bulkQueue, bulkCall, bulkSlot, bulkUp>>

vars == <<deepOwn, bulkOwn, stops>>

NoBulk == [status |-> "none", d |-> None, timely |-> FALSE, old |-> FALSE]

BulkIdle == [pc |-> "idle", b |-> None, after |-> 0, got |-> 0]

BulkTypeOK ==
  /\ DeepTypeOK
  /\ bulkQueue \in [Bulks -> JobEntry(BulkSlots)]
  /\ bulkCall \in [Bulks -> [at : {"new", "resolved", "inserted", "over"},
                             d : Searches \cup {None}]]
  /\ bulkSlot \in [BulkSlots ->
       [pc : {"idle", "claim", "load", "page", "apply", "finish", "mark",
              "settle"},
        b : Bulks \cup {None}, after : 0 .. SpoolSize, got : 0 .. SpoolSize]]
  /\ bulkUp \in BOOLEAN

Init ==
  /\ DeepInit
  /\ bulkRow = [b \in Bulks |-> NoBulk]
  /\ bulkQueue = [b \in Bulks |-> NoEntry]
  /\ bulkCall = [b \in Bulks |-> [at |-> "new", d |-> None]]
  /\ bulkSlot = [s \in BulkSlots |-> BulkIdle]
  /\ bulkUp = TRUE

-----------------------------------------------------------------------------
(* The API: runAction in asynchronous mode *)

\* resolveQueryWideTarget: a completed search within its retention.
ResolveTarget(b) ==
  /\ bulkCall[b].at = "new"
  /\ \E d \in Searches : /\ Browsable(d) /\ row[d].counted
                         /\ bulkCall' = [bulkCall EXCEPT ![b] =
                                           [at |-> "resolved", d |-> d]]
  /\ UNCHANGED <<bulkRow, bulkQueue, bulkSlot, bulkUp, stops>>

\* countActiveForUser, and the row.  timely remembers, for the properties, that
\* the search could still be browsed then.
CreateBulkQueryJob(b) ==
  LET d == bulkCall[b].d
      active == {a \in Bulks : bulkRow[a].status \in {"queued", "processing"}}
  IN
  /\ bulkCall[b].at = "resolved"
  /\ IF Cardinality(active) >= MaxBulks
     THEN bulkCall' = [bulkCall EXCEPT ![b].at = "over"] /\ UNCHANGED bulkRow
     ELSE /\ bulkCall' = [bulkCall EXCEPT ![b].at = "inserted"]
          /\ bulkRow' = [bulkRow EXCEPT ![b] =
               [NoBulk EXCEPT !.status = "queued", !.d = d,
                              !.timely = Browsable(d)]]
  /\ UNCHANGED <<bulkQueue, bulkSlot, bulkUp, stops>>

AddBulkJob(b) ==
  /\ bulkCall[b].at = "inserted"
  /\ bulkCall' = [bulkCall EXCEPT ![b].at = "over"]
  /\ bulkQueue' \in {Added(bulkQueue, b)} \cup IF DbErrors THEN {bulkQueue} ELSE {}
  /\ UNCHANGED <<bulkRow, bulkSlot, bulkUp, stops>>

-----------------------------------------------------------------------------
(* processJob, in a slot of the bulk worker *)

BulkAt(s, pc) == bulkUp /\ bulkSlot[s].pc = pc

BulkGoto(s, pc) == bulkSlot' = [bulkSlot EXCEPT ![s].pc = pc]

\* UPDATE .. WHERE id
BulkStatusTo(b, st) ==
  bulkRow' = [bulkRow EXCEPT ![b].status = IF @ = "purged" THEN @ ELSE st]

TakeBulkJob(s, b) ==
  /\ BulkAt(s, "idle")
  /\ bulkQueue[b].st = "waiting"
  /\ bulkQueue' = Taken(bulkQueue, b, s)
  /\ bulkSlot' = [bulkSlot EXCEPT ![s] = [BulkIdle EXCEPT !.pc = "claim", !.b = b]]
  /\ UNCHANGED <<bulkRow, bulkCall, bulkUp, stops>>

\* Mutant: a redelivered job takes over the row of the attempt before it.
ClaimBulkAgain(s) ==
  LET b == bulkSlot[s].b IN
  /\ BulkAt(s, "claim")
  /\ IF bulkRow[b].status \in {"queued", "processing"}
     THEN BulkStatusTo(b, "processing") /\ BulkGoto(s, "load")
     ELSE UNCHANGED bulkRow /\ BulkGoto(s, "settle")
  /\ UNCHANGED <<bulkQueue, bulkCall, bulkUp, stops>>

\* A claim that throws lets the 'failed' event mark the row.
ClaimBulk(s) ==
  LET b == bulkSlot[s].b IN
  /\ BulkAt(s, "claim")
  /\ \/ /\ bulkRow[b].status = "queued"
        /\ BulkStatusTo(b, "processing") /\ BulkGoto(s, "load")
     \/ bulkRow[b].status # "queued" /\ UNCHANGED bulkRow /\ BulkGoto(s, "settle")
     \/ DbErrors /\ UNCHANGED bulkRow /\ BulkGoto(s, "mark")
  /\ UNCHANGED <<bulkQueue, bulkCall, bulkUp, stops>>

\* The query is compiled again and the search read, whatever its status.
LoadTarget(s) ==
  /\ BulkAt(s, "load")
  /\ \/ BulkGoto(s, "mark")
     \/ /\ row[bulkRow[bulkSlot[s].b].d].status # "purged"
        /\ BulkGoto(s, "page")
  /\ UNCHANGED <<bulkRow, bulkQueue, bulkCall, bulkUp, stops>>

\* Mutant: the next page starts with the last row of this one.
NextPageInclusive(s) ==
  LET rest == {p \in spool[bulkRow[bulkSlot[s].b].d] : p >= bulkSlot[s].after}
  IN
  /\ BulkAt(s, "page")
  /\ \/ rest = {} /\ BulkGoto(s, "finish")
     \/ \E p \in rest :
          /\ \A q \in rest : p <= q
          /\ bulkSlot' = [bulkSlot EXCEPT ![s].pc = "apply", ![s].after = p]
  /\ UNCHANGED <<bulkRow, bulkQueue, bulkCall, bulkUp, stops>>

\* listDeepSearchIocIdPage: the next position after the last one.
NextPage(s) ==
  LET rest == {p \in spool[bulkRow[bulkSlot[s].b].d] : p > bulkSlot[s].after}
  IN
  /\ BulkAt(s, "page")
  /\ \/ rest = {} /\ BulkGoto(s, "finish")
     \/ DbErrors /\ BulkGoto(s, "mark")
     \/ \E p \in rest :
          /\ \A q \in rest : p <= q
          /\ bulkSlot' = [bulkSlot EXCEPT ![s].pc = "apply", ![s].after = p]
  /\ UNCHANGED <<bulkRow, bulkQueue, bulkCall, bulkUp, stops>>

\* applyChunk and markProgress; a rejected action ends the job.
ApplyChunk(s) ==
  /\ BulkAt(s, "apply")
  /\ \/ bulkSlot' = [bulkSlot EXCEPT ![s].pc = "page", ![s].got = @ + 1]
     \/ BulkGoto(s, "mark")
  /\ UNCHANGED <<bulkRow, bulkQueue, bulkCall, bulkUp, stops>>

\* markCompleted; when it throws, the 'failed' event marks the row failed.
FinishBulk(s) ==
  /\ BulkAt(s, "finish")
  /\ \/ BulkStatusTo(bulkSlot[s].b, "completed") /\ BulkGoto(s, "settle")
     \/ DbErrors /\ UNCHANGED bulkRow /\ BulkGoto(s, "mark")
  /\ UNCHANGED <<bulkQueue, bulkCall, bulkUp, stops>>

\* markFailed
MarkBulkFailed(s) ==
  /\ BulkAt(s, "mark")
  /\ BulkStatusTo(bulkSlot[s].b, "failed") \/ (DbErrors /\ UNCHANGED bulkRow)
  /\ BulkGoto(s, "settle")
  /\ UNCHANGED <<bulkQueue, bulkCall, bulkUp, stops>>

SettleBulk(s) ==
  /\ BulkAt(s, "settle")
  /\ bulkQueue' = Settled(bulkQueue, bulkSlot[s].b, s)
  /\ bulkSlot' = [bulkSlot EXCEPT ![s] = BulkIdle]
  /\ UNCHANGED <<bulkRow, bulkCall, bulkUp, stops>>

\* The stalled check; when it gives up, the 'failed' event marks the row.
StallBulk(b) ==
  /\ bulkUp /\ bulkQueue[b].st = "active"
  /\ bulkQueue' = TakenBack(bulkQueue, b)
  /\ IF GivenUp(bulkQueue, b) THEN BulkStatusTo(b, "failed") ELSE UNCHANGED bulkRow
  /\ UNCHANGED <<bulkCall, bulkSlot, bulkUp, stops>>

-----------------------------------------------------------------------------
(* Retention of the metadata, crash and restart *)

AgeBulk(b) ==
  /\ bulkRow[b].status \in {"completed", "failed"} /\ ~bulkRow[b].old
  /\ bulkRow' = [bulkRow EXCEPT ![b].old = TRUE]
  /\ UNCHANGED <<bulkQueue, bulkCall, bulkSlot, bulkUp, stops>>

\* cleanupLoop
PurgeBulk(b) ==
  /\ bulkUp /\ bulkRow[b].status \in {"completed", "failed"} /\ bulkRow[b].old
  /\ bulkRow' = [bulkRow EXCEPT ![b].status = "purged"]
  /\ UNCHANGED <<bulkQueue, bulkCall, bulkSlot, bulkUp, stops>>

CrashBulk ==
  /\ bulkUp /\ stops < MaxStops
  /\ bulkUp' = FALSE
  /\ stops' = stops + 1
  /\ bulkSlot' = [s \in BulkSlots |-> BulkIdle]
  /\ UNCHANGED <<bulkRow, bulkQueue, bulkCall>>

RestartBulk ==
  /\ ~bulkUp
  /\ bulkUp' = TRUE
  /\ UNCHANGED <<bulkRow, bulkQueue, bulkCall, bulkSlot, stops>>

BulkApi(b) == ResolveTarget(b) \/ CreateBulkQueryJob(b) \/ AddBulkJob(b)

ProcessJob(s) ==
  \/ \E b \in Bulks : TakeBulkJob(s, b)
  \/ ClaimBulk(s) \/ LoadTarget(s) \/ NextPage(s) \/ ApplyChunk(s)
  \/ FinishBulk(s) \/ MarkBulkFailed(s) \/ SettleBulk(s)

BulkNext ==
  \/ \E b \in Bulks : BulkApi(b) \/ StallBulk(b) \/ AgeBulk(b) \/ PurgeBulk(b)
  \/ \E s \in BulkSlots : ProcessJob(s)
  \/ CrashBulk \/ RestartBulk

Next == \/ DeepNext /\ UNCHANGED bulkOwn
        \/ BulkNext /\ UNCHANGED deepOwn

Spec == Init /\ [][Next]_vars

-----------------------------------------------------------------------------
(* Properties *)

\* The slots that have claimed a bulk job and may still apply its action.
Applying(b) == {s \in BulkSlots : /\ bulkSlot[s].b = b
                                  /\ bulkSlot[s].pc \in {"load", "page", "apply"}}

\* A job that BullMQ hands out again is not applied a second time beside the
\* handler that has it.
AppliedByOne == \A b \in Bulks : Cardinality(Applying(b)) <= 1

\* What a job is about to report: it got through the spool with its row open.
Reporting(b, s) == /\ bulkSlot[s].b = b /\ bulkSlot[s].pc = "finish"
                   /\ bulkRow[b].status = "processing"

\* A job whose row was inserted while its search could be browsed reports every
\* match of the search, though the search may expire, be read past its expiry
\* and be swept while the job pages through its spool.
TimelyBulkIsExact ==
  \A b \in Bulks, s \in BulkSlots :
    Reporting(b, s) /\ bulkRow[b].timely => bulkSlot[s].got = SpoolSize

\* Every job does: "cleanup must not delete rows out from under an in-flight
\* mutation" (deepSearchStore.js).
BulkIsExact ==
  \A b \in Bulks, s \in BulkSlots : Reporting(b, s) => bulkSlot[s].got = SpoolSize

\* A deep search comes to its end in a worker that does not die and whose
\* statements succeed, although its job may be handed out twice, cancelled at
\* any point or signalled late.
SearchSettles == \A d \in Searches : d \in ActiveSearches ~> d \notin ActiveSearches

\* There, a spool that is no longer offered is deleted in the end: the bulk jobs
\* that hold the sweep back come to an end themselves.
SpoolReclaimed ==
  \A d \in Searches :
    row[d].status \in {"expired", "failed", "cancelled"} ~> spool[d] = {}

=============================================================================
