----------------------------- MODULE DeepSearch -----------------------------
(***************************************************************************)
(* Deep searches: the API inserts a row of ioc_deep_searches and adds a    *)
(* BullMQ job; a slot of the deep-search worker materialises the matches   *)
(* into the spool (ioc_deep_search_results) in one transaction, beside a   *)
(* watcher that polls the cancel flag and stops the statement with         *)
(* pg_cancel_backend; a sweep of the same process deletes spools past      *)
(* their retention unless a bulk job still reads them.                     *)
(*                                                                         *)
(* The worker's connections come from a pool: a handler holds one from     *)
(* pool.connect to its finally block, and the next handler may get the     *)
(* same one.  bulkRow is the table of bulk jobs, which this module only    *)
(* reads; BulkQuery writes it.                                             *)
(***************************************************************************)
EXTENDS JobQueue

CONSTANTS
  Searches,     \* deep search ids, all of one user
  Alike,        \* the searches that ask the same normalized query
  Conns,        \* connections of its pool, enough for all slots
  SpoolSize,    \* how many rows a search matches
  Bulks         \* bulk job ids

ASSUME DeepAssumption ==
  /\ Alike \subseteq Searches
  /\ SpoolSize \in Nat
  /\ None \notin Searches \cup Conns \cup Bulks

VARIABLES
  row,      \* PostgreSQL: ioc_deep_searches
  spool,    \* PostgreSQL: the positions of each search's result rows
  queue,    \* Redis: the deep-search queue
  call,     \* API: how far the request that creates the search is
  slot,     \* the handler of each slot: step, search, connection, outcome
  signals,  \* pg_cancel_backend calls under way: connection, meant for
  sweep,    \* cleanupExpired
  up,       \* the deep-search worker runs
  bulkRow   \* PostgreSQL: ioc_bulk_query_jobs

deepOwn == <<row, spool, queue, call, slot, signals, sweep, up>>

Status == {"none", "queued", "running", "completed", "failed", "cancelled",
           "expired", "purged"}

\* counted: match_count IS NOT NULL.
Row == [status : Status, cancel : BOOLEAN, counted : BOOLEAN,
        age : {"fresh", "expired", "stale"}]

NoRow == [status |-> "none", cancel |-> FALSE, counted |-> FALSE,
          age |-> "fresh"]

Positions == 1 .. SpoolSize

\* sig: cancelSignalled.
Slot == [pc : {"idle", "claim", "check", "parse", "insert", "inserted",
               "commit", "complete", "wipe", "caught", "mark", "last", "settle"},
         d : Searches \cup {None}, conn : Conns \cup {None}, sig : BOOLEAN,
         out : {"failed", "cancelled"}]

Idle == [pc |-> "idle", d |-> None, conn |-> None, sig |-> FALSE,
         out |-> "failed"]

\* what: "expire" works through the expired, "purge" through the stale rows.
Sweep == [pc : {"idle", "next", "wipe", "row"},
          what : {"expire", "purge"}, todo : SUBSET Searches,
          d : Searches \cup {None}]

NoSweep == [pc |-> "idle", what |-> "expire", todo |-> {}, d |-> None]

BulkStatus == {"none", "queued", "processing", "completed", "failed", "purged"}

DeepTypeOK ==
  /\ row \in [Searches -> Row]
  /\ spool \in [Searches -> SUBSET Positions]
  /\ queue \in [Searches -> JobEntry(Slots)]
  /\ call \in [Searches -> {"new", "counted", "inserted", "over"}]
  /\ slot \in [Slots -> Slot]
  /\ signals \subseteq Conns \X Searches
  /\ sweep \in Sweep
  /\ up \in BOOLEAN
  /\ stops \in 0 .. MaxStops
  /\ bulkRow \in [Bulks -> [status : BulkStatus, d : Searches \cup {None},
                            timely : BOOLEAN, old : BOOLEAN]]

DeepInit ==
  /\ row = [d \in Searches |-> NoRow]
  /\ spool = [d \in Searches |-> {}]
  /\ queue = [d \in Searches |-> NoEntry]
  /\ call = [d \in Searches |-> "new"]
  /\ slot = [s \in Slots |-> Idle]
  /\ signals = {}
  /\ sweep = NoSweep
  /\ up = TRUE
  /\ stops = 0

-----------------------------------------------------------------------------
(* The store *)

ActiveSearches == {d \in Searches : row[d].status \in {"queued", "running"}}

\* Mutant: a bulk job that waits for its turn does not count.
HasRunningBulkJob(d) ==
  \E b \in Bulks : bulkRow[b].status = "processing" /\ bulkRow[b].d = d

\* DEEP_SEARCH_ACTIVE_BULK_JOB_EXISTS_SQL, hasActiveBulkJobForDeepSearch
HasActiveBulkJob(d) ==
  \E b \in Bulks : /\ bulkRow[b].status \in {"queued", "processing"}
                   /\ bulkRow[b].d = d

\* UPDATE .. WHERE id: without effect on a row that was deleted.
SetStatus(d, st) ==
  row' = [row EXCEPT ![d] = IF @.status = "purged" THEN @
                            ELSE [@ EXCEPT !.status = st, !.age = "fresh"]]

\* markExpired
Flipped(r) ==
  IF r.status \in {"completed", "expired"}
  THEN [r EXCEPT !.status = "expired", !.counted = FALSE] ELSE r

\* isBrowsable
Browsable(d) == row[d].status = "completed" /\ row[d].age = "fresh"

\* deleteResultsBatch: some of the rows go, in no particular order.
DeleteBatch(d) ==
  \E p \in spool[d] : spool' = [spool EXCEPT ![d] = @ \ {p}]

-----------------------------------------------------------------------------
(* The API *)

\* enqueueDeepSearch: the same active query is reused, the quota is checked ...
CountActive(d) ==
  /\ call[d] = "new"
  /\ call' = [call EXCEPT ![d] =
       IF \/ d \in Alike /\ ActiveSearches \cap Alike # {}
          \/ Cardinality(ActiveSearches) >= MaxActive
       THEN "over" ELSE "counted"]
  /\ UNCHANGED <<row, spool, queue, slot, signals, sweep, up, stops>>

\* ... the row is inserted ...
CreateDeepSearch(d) ==
  /\ call[d] = "counted"
  /\ call' = [call EXCEPT ![d] = "inserted"]
  /\ row' = [row EXCEPT ![d].status = "queued"]
  /\ UNCHANGED <<spool, queue, slot, signals, sweep, up, stops>>

\* ... and the job added, which may fail with the row left behind.
AddJob(d) ==
  /\ call[d] = "inserted"
  /\ call' = [call EXCEPT ![d] = "over"]
  /\ queue' \in {Added(queue, d)} \cup IF DbErrors THEN {queue} ELSE {}
  /\ UNCHANGED <<row, spool, slot, signals, sweep, up, stops>>

\* requestCancel
RequestCancel(d) ==
  /\ row[d].status \in {"queued", "running"}
  /\ ~row[d].cancel
  /\ row' = [row EXCEPT
       ![d].cancel = TRUE,
       ![d].status = IF @ = "queued" THEN "cancelled" ELSE @]
  /\ UNCHANGED <<spool, queue, call, slot, signals, sweep, up, stops>>

\* ensureNotPastExpiry, in every request that reads the search.
ReadPastExpiry(d) ==
  /\ row[d].status = "completed" /\ row[d].age = "expired"
  /\ row' = [row EXCEPT ![d] = Flipped(@)]
  /\ UNCHANGED <<spool, queue, call, slot, signals, sweep, up, stops>>

-----------------------------------------------------------------------------
(* runDeepSearch, in a slot of the worker *)

At(s, pc) == up /\ slot[s].pc = pc

Goto(s, pc) == slot' = [slot EXCEPT ![s].pc = pc]

Outcome(s, pc, out) == slot' = [slot EXCEPT ![s].pc = pc, ![s].out = out]

TakeJob(s, d) ==
  /\ At(s, "idle")
  /\ queue[d].st = "waiting"
  /\ queue' = Taken(queue, d, s)
  /\ slot' = [slot EXCEPT ![s] = [Idle EXCEPT !.pc = "claim", !.d = d]]
  /\ UNCHANGED <<row, spool, call, signals, sweep, up, stops>>

\* Mutant: a search that was cancelled while it was queued is claimed.
ClaimCancelled(s) ==
  LET d == slot[s].d IN
  /\ At(s, "claim")
  /\ IF row[d].status \in {"queued", "cancelled"}
     THEN SetStatus(d, "running") /\ Goto(s, "check")
     ELSE UNCHANGED row /\ Goto(s, "settle")
  /\ UNCHANGED <<spool, queue, call, signals, sweep, up, stops>>

ClaimForProcessing(s) ==
  LET d == slot[s].d IN
  /\ At(s, "claim")
  /\ \/ /\ row[d].status = "queued"
        /\ SetStatus(d, "running") /\ Goto(s, "check")
     \/ /\ row[d].status # "queued" \/ DbErrors
        /\ UNCHANGED row /\ Goto(s, "settle")
  /\ UNCHANGED <<spool, queue, call, signals, sweep, up, stops>>

\* Cancelled before it started?
CheckBefore(s) ==
  /\ At(s, "check")
  /\ \/ row[slot[s].d].cancel /\ Outcome(s, "mark", "cancelled")
     \/ ~row[slot[s].d].cancel /\ Goto(s, "parse")
     \/ DbErrors /\ Goto(s, "settle")
  /\ UNCHANGED <<row, spool, queue, call, signals, sweep, up, stops>>

\* The stored query is parsed again, or the handler connects and starts the
\* transaction that deletes what an earlier attempt spooled and inserts anew.
BeginInsert(s) ==
  /\ At(s, "parse")
  /\ \/ Outcome(s, "mark", "failed")
     \/ DbErrors /\ Goto(s, "settle")
     \/ \E c \in Conns \ {slot[t].conn : t \in Slots} :
          slot' = [slot EXCEPT ![s].pc = "insert", ![s].conn = c]
  /\ UNCHANGED <<row, spool, queue, call, signals, sweep, up, stops>>

\* A tick of the watcher that finds the flag: pg_cancel_backend is on its way.
Watch(s) ==
  /\ At(s, "insert")
  /\ row[slot[s].d].cancel /\ ~slot[s].sig
  /\ slot' = [slot EXCEPT ![s].sig = TRUE]
  /\ signals' = signals \cup {<<slot[s].conn, slot[s].d>>}
  /\ UNCHANGED <<row, spool, queue, call, sweep, up, stops>>

\* It arrives: what the connection executes now fails with 57014.
Signal(m) ==
  /\ m \in signals
  /\ signals' = signals \ {m}
  /\ slot' = [s \in Slots |->
       IF slot[s].conn = m[1] /\ slot[s].pc = "insert"
       THEN [slot[s] EXCEPT !.pc = "caught"] ELSE slot[s]]
  /\ UNCHANGED <<row, spool, queue, call, sweep, up, stops>>

\* The INSERT ends: done, out of its statement_timeout (57014) or failed.
EndInsert(s) ==
  /\ At(s, "insert")
  /\ Goto(s, "inserted") \/ Goto(s, "caught") \/ Outcome(s, "last", "failed")
  /\ UNCHANGED <<row, spool, queue, call, signals, sweep, up, stops>>

\* ROLLBACK when a cancel came meanwhile.
CheckAfter(s) ==
  /\ At(s, "inserted")
  /\ \/ /\ slot[s].sig \/ row[slot[s].d].cancel
        /\ Outcome(s, "mark", "cancelled")
     \/ ~slot[s].sig /\ ~row[slot[s].d].cancel /\ Goto(s, "commit")
     \/ DbErrors /\ Outcome(s, "last", "failed")
  /\ UNCHANGED <<row, spool, queue, call, signals, sweep, up, stops>>

\* COMMIT of the deletion and the insertion together.
Commit(s) ==
  /\ At(s, "commit")
  /\ \/ /\ spool' = [spool EXCEPT ![slot[s].d] = Positions]
        /\ Goto(s, "complete")
     \/ DbErrors /\ Outcome(s, "last", "failed") /\ UNCHANGED spool
  /\ UNCHANGED <<row, queue, call, signals, sweep, up, stops>>

\* Mutant: completion does not look at the cancel flag.
CompletableAnyway(r) == r.status = "running"

\* The WHERE clause of markCompleted.
Completable(r) == r.status = "running" /\ ~r.cancel

\* markCompleted: loses against a cancel that came after COMMIT.
MarkCompleted(s) ==
  LET d == slot[s].d IN
  /\ At(s, "complete")
  /\ \/ /\ Completable(row[d])
        /\ row' = [row EXCEPT ![d] = [@ EXCEPT !.status = "completed",
                                               !.counted = TRUE, !.age = "fresh"]]
        /\ Goto(s, "settle")
     \/ ~Completable(row[d]) /\ UNCHANGED row /\ Goto(s, "wipe")
     \/ DbErrors /\ UNCHANGED row /\ Outcome(s, "last", "failed")
  /\ UNCHANGED <<spool, queue, call, signals, sweep, up, stops>>

\* Mutant: the handler wipes the spool and leaves the row alone.
WipeSpoolOnly(s) ==
  LET d == slot[s].d IN
  /\ At(s, "wipe")
  /\ \/ DeleteBatch(d) /\ UNCHANGED slot
     \/ spool[d] = {} /\ UNCHANGED spool /\ Goto(s, "settle")
  /\ UNCHANGED <<row, queue, call, signals, sweep, up, stops>>

\* The committed rows of a cancelled search are deleted in batches.
WipeSpool(s) ==
  LET d == slot[s].d IN
  /\ At(s, "wipe")
  /\ \/ DeleteBatch(d) /\ UNCHANGED slot
     \/ spool[d] = {} /\ UNCHANGED spool /\ Outcome(s, "mark", "cancelled")
     \/ DbErrors /\ UNCHANGED spool /\ Outcome(s, "last", "failed")
  /\ UNCHANGED <<row, queue, call, signals, sweep, up, stops>>

\* The catch block on 57014: a cancel, or else the time limit.
Caught(s) ==
  /\ At(s, "caught")
  /\ Outcome(s, "last", IF slot[s].sig \/ row[slot[s].d].cancel
                        THEN "cancelled" ELSE "failed")
  /\ UNCHANGED <<row, spool, queue, call, signals, sweep, up, stops>>

\* markFailed or markCancelled.  A failing one lands in the catch block if it is
\* inside the try (after pool.connect), and else leaves the row as it is.
MarkOver(s) ==
  /\ At(s, "mark") \/ At(s, "last")
  /\ \/ SetStatus(slot[s].d, slot[s].out) /\ Goto(s, "settle")
     \/ /\ DbErrors /\ UNCHANGED row
        /\ IF At(s, "mark") /\ slot[s].conn # None
           THEN Outcome(s, "last", "failed") ELSE Goto(s, "settle")
  /\ UNCHANGED <<spool, queue, call, signals, sweep, up, stops>>

\* client.release, and BullMQ is told.
Settle(s) ==
  /\ At(s, "settle")
  /\ queue' = Settled(queue, slot[s].d, s)
  /\ slot' = [slot EXCEPT ![s] = Idle]
  /\ UNCHANGED <<row, spool, call, signals, sweep, up, stops>>

Stall(d) ==
  /\ up /\ queue[d].st = "active"
  /\ queue' = TakenBack(queue, d)
  /\ UNCHANGED <<row, spool, call, slot, signals, sweep, up, stops>>

-----------------------------------------------------------------------------
(* cleanupExpired: single flight, one search after the other *)

\* findExpiredCompleted
Expired == {d \in Searches : /\ row[d].status = "completed"
                             /\ row[d].age = "expired"
                             /\ ~HasActiveBulkJob(d)}

\* Mutant: the spool of an expired search is taken to be gone.
StaleNotExpired ==
  {d \in Searches : /\ row[d].status \in {"failed", "cancelled"}
                    /\ row[d].age = "stale"
                    /\ ~HasActiveBulkJob(d)}

\* findStaleMetadata
Stale == {d \in Searches : /\ row[d].status \in {"expired", "failed", "cancelled"}
                           /\ row[d].age = "stale"
                           /\ ~HasActiveBulkJob(d)}

\* The expired searches first, then the stale rows.
SweepBegin ==
  /\ up
  /\ \/ /\ sweep.pc = "idle"
        /\ sweep' = [NoSweep EXCEPT !.pc = "next", !.todo = Expired]
     \/ /\ sweep.pc = "next" /\ sweep.what = "expire" /\ sweep.todo = {}
        /\ sweep' = [NoSweep EXCEPT !.pc = "next", !.what = "purge",
                                    !.todo = Stale]
  /\ UNCHANGED <<row, spool, queue, call, slot, signals, up, stops>>

\* hasActiveBulkJobForDeepSearch, asked again for each search.
SweepCheck ==
  /\ up /\ sweep.pc = "next"
  /\ \E d \in sweep.todo :
       sweep' = IF HasActiveBulkJob(d) THEN [sweep EXCEPT !.todo = @ \ {d}]
                ELSE [sweep EXCEPT !.todo = @ \ {d}, !.pc = "wipe", !.d = d]
  /\ UNCHANGED <<row, spool, queue, call, slot, signals, up, stops>>

\* Mutant: the row goes first, its spool rows are not waited for.
SweepWipeNever ==
  /\ up /\ sweep.pc = "wipe"
  /\ sweep' = [sweep EXCEPT !.pc = "row"]
  /\ UNCHANGED <<row, spool, queue, call, slot, signals, up, stops>>

\* The batches, one statement each, until one comes back short.
SweepWipe ==
  /\ up /\ sweep.pc = "wipe"
  /\ \/ DeleteBatch(sweep.d) /\ UNCHANGED sweep
     \/ /\ spool[sweep.d] = {} /\ UNCHANGED spool
        /\ sweep' = [sweep EXCEPT !.pc = "row"]
  /\ UNCHANGED <<row, queue, call, slot, signals, up, stops>>

\* markExpired, or deleteMetadataRow of a row that is still over.
SweepRow ==
  /\ up /\ sweep.pc = "row"
  /\ row' = [row EXCEPT ![sweep.d] =
       IF sweep.what = "expire" THEN Flipped(@)
       ELSE IF @.status \in {"expired", "failed", "cancelled"}
            THEN [@ EXCEPT !.status = "purged"] ELSE @]
  /\ sweep' = [sweep EXCEPT !.pc = "next", !.d = None]
  /\ UNCHANGED <<spool, queue, call, slot, signals, up, stops>>

\* The pass is through, or a statement of it fails.
SweepEnd ==
  /\ up /\ sweep.pc # "idle"
  /\ DbErrors \/ (sweep.pc = "next" /\ sweep.what = "purge" /\ sweep.todo = {})
  /\ sweep' = NoSweep
  /\ UNCHANGED <<row, spool, queue, call, slot, signals, up, stops>>

-----------------------------------------------------------------------------
(* Time, crash and restart *)

Age(d) ==
  /\ \/ row[d].status = "completed" /\ row[d].age = "fresh"
     \/ /\ row[d].status \in {"failed", "cancelled", "expired"}
        /\ row[d].age # "stale"
  /\ row' = [row EXCEPT ![d].age =
       IF row[d].status = "completed" THEN "expired" ELSE "stale"]
  /\ UNCHANGED <<spool, queue, call, slot, signals, sweep, up, stops>>

\* The process dies: its connections close, open transactions are undone.
Crash ==
  /\ up /\ stops < MaxStops
  /\ up' = FALSE
  /\ stops' = stops + 1
  /\ slot' = [s \in Slots |-> Idle]
  /\ signals' = {}
  /\ sweep' = NoSweep
  /\ UNCHANGED <<row, spool, queue, call>>

Restart ==
  /\ ~up
  /\ up' = TRUE
  /\ UNCHANGED <<row, spool, queue, call, slot, signals, sweep, stops>>

Api(d) == CountActive(d) \/ CreateDeepSearch(d) \/ AddJob(d)

RunDeepSearch(s) ==
  \/ \E d \in Searches : TakeJob(s, d)
  \/ ClaimForProcessing(s) \/ CheckBefore(s) \/ BeginInsert(s) \/ EndInsert(s)
  \/ CheckAfter(s) \/ Commit(s) \/ MarkCompleted(s) \/ WipeSpool(s)
  \/ Caught(s) \/ MarkOver(s) \/ Settle(s)

Cleanup == SweepBegin \/ SweepCheck \/ SweepWipe \/ SweepRow \/ SweepEnd

DeepNext ==
  \/ \E d \in Searches : \/ Api(d) \/ RequestCancel(d) \/ ReadPastExpiry(d)
                         \/ Stall(d) \/ Age(d)
  \/ \E s \in Slots : RunDeepSearch(s) \/ Watch(s)
  \/ \E m \in signals : Signal(m)
  \/ Cleanup \/ Crash \/ Restart

-----------------------------------------------------------------------------
(* Properties *)

\* A search that was asked to stop is never presented as completed, however
\* the request falls between the checks of the handler, its COMMIT and
\* markCompleted.
CancelWins == \A d \in Searches : row[d].status = "completed" => ~row[d].cancel

\* Result rows never outlive the row of their search: no foreign key removes
\* them, and the sweep finds spools only through their search.
SpoolHasRow ==
  \A d \in Searches : spool[d] # {} => row[d].status \notin {"none", "purged"}

Jobs ==
  INSTANCE TrackedJobs WITH
    Ids <- Searches,
    Claimable <- {"queued"},
    status <- [d \in Searches |->
                 CASE row[d].status = "running" -> "claimed"
                   [] row[d].status = "completed" -> "ready"
                   [] OTHER -> row[d].status],
    result <- {d \in Searches : /\ spool[d] = Positions
                                /\ row[d].status # "running"},
    lapsed <- {d \in Searches : /\ row[d].status \in {"completed", "expired"}
                                /\ row[d].age # "fresh"}

\* The search keeps to the life cycle its user is promised (TrackedJobs).  So a
\* search that can be browsed has its whole result in the spool.
DeepPromise == Jobs!Spec

=============================================================================
