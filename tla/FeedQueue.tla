------------------------------ MODULE FeedQueue ------------------------------
(***************************************************************************)
(* The feed-synchronisation queue: the API and the scheduler put jobs into *)
(* a BullMQ queue (Redis), the slots of the integration workers take them, *)
(* hold a PostgreSQL advisory lock on the feed for the length of the sync, *)
(* and record progress in the table integration_queue_jobs.  Recovery      *)
(* passes compare the table with BullMQ and close what they take for dead. *)
(*                                                                         *)
(* Two stores are written in separate steps by several processes that may  *)
(* stop in between; an await of the code that separates two writes is a    *)
(* step boundary here.                                                     *)
(*                                                                         *)
(* Clock.  The code only compares now - started_at and now - heartbeat_at  *)
(* with thresholds, so a row carries those two ages, in ticks, saturating  *)
(* one past the threshold.                                                 *)
(***************************************************************************)
EXTENDS Naturals, FiniteSets, Sequences

CONSTANTS
  Jobs,               \* BullMQ job ids
  Manual,             \* jobs added by the API: they get a table row, no retries
  Feeds,              \* feed-sync lock identities (feedSyncLockIdentity)
  FeedOf,             \* the identity each job locks
  Slots,              \* processing slots of the workers (concurrency)
  Procs,              \* worker processes
  ProcOf,             \* the process each slot belongs to
  GlobalConcurrency,  \* FEED_SYNC_CONCURRENCY, BullMQ's global concurrency
  MaxAttempts,        \* attempts of a scheduled job (5 in queue.js)
  MaxStalledCount,    \* WORKER_MAX_STALLED_COUNT
  JobTimeout,         \* the job's timeout, in ticks
  StaleAfter,         \* QUEUE_HARDENING.staleAfterMs, in ticks
  OrphanGrace,        \* orphanSourceLockGraceMs, in ticks
  Api,                \* the API process, as the host of a recovery pass
  Recoverers,         \* the hosts that run recovery passes
  MaxStops,           \* bound: how often worker processes stop
  DbErrors,           \* whether a statement of a worker or the API may fail
  None

ASSUME QueueAssumption ==
  /\ Manual \subseteq Jobs
  /\ FeedOf \in [Jobs -> Feeds]
  /\ ProcOf \in [Slots -> Procs]
  /\ GlobalConcurrency \in Nat \ {0}
  /\ MaxAttempts \in Nat \ {0}
  /\ {MaxStalledCount, JobTimeout, StaleAfter, OrphanGrace, MaxStops} \subseteq Nat
  /\ Recoverers \subseteq Procs \cup {Api}
  /\ Api \notin Procs
  /\ DbErrors \in BOOLEAN
  /\ None \notin Slots \cup Jobs

VARIABLES
  bull,      \* Redis: list, lock, attemptsMade and stalled counter of each job
  row,       \* PostgreSQL: integration_queue_jobs
  feedLock,  \* PostgreSQL: session advisory locks, by the slot holding them
  call,      \* API: how far the run-now request for a job is
  proc,      \* worker processes: "up", "closing" (shutdown began) or "down"
  stops,     \* how often processes have stopped
  slot,      \* where each slot's handler is, and on which job
  failMarks, \* 'failed' events whose markJobFailed has yet to run
  rec        \* recovery passes: phase, statements left per job, rows as read

vars == <<bull, row, feedLock, call, proc, stops, slot, failMarks, rec>>

------------------------------------------------------------------------------
(* Types *)

\* "waiting" is BullMQ's waiting or prioritized; "limbo": the job's hash exists
\* but no list holds it.
BullState == {"absent", "waiting", "active", "delayed", "completed",
              "failed", "limbo"}

\* owner is the slot whose token is in the job's lock.
Bull == [state : BullState, owner : Slots \cup {None}, made : Nat, stalls : Nat]

Status == {"absent", "queued", "running", "success", "skipped", "failed"}

\* begun: started_at IS NOT NULL; age: now - started_at; quiet: now -
\* heartbeat_at, kept for running rows only.
Row == [status : Status, begun : BOOLEAN, age : Nat, quiet : Nat]

NoRow == [status |-> "absent", begun |-> FALSE, age |-> 0, quiet |-> 0]

\* out is what the handler will report to BullMQ, ran the ticks since
\* executeJobWithTimeout armed its timer.
PC == {"idle", "taken", "busy", "locked", "running", "draining", "done",
       "release", "settle"}
Slot == [pc : PC, job : Jobs \cup {None}, out : {"ok", "skip", "fail"}, ran : Nat]

Idle == [pc |-> "idle", job |-> None, out |-> "ok", ran |-> 0]

\* What a recovery pass remembers of a row it has read.
Verdict == {"none", "queued", "skipped", "terminal", "fresh", "reclaim"}

Phase == {"idle", "stale", "reconcile", "remaining", "locks", "queued"}

\* The awaited writes of a pass: markQueueJobFailed, moveBullJobToFailed,
\* purgeJobFromBullmqLists; "decide" is the start of reconcileOneBullJob.
Op == {"decide", "fail", "move", "purge"}

Pass == [phase : Phase, full : BOOLEAN, todo : [Jobs -> Seq(Op)],
         read : [Jobs -> Verdict]]

NoTodo == [j \in Jobs |-> <<>>]

NoPass == [phase |-> "idle", full |-> FALSE, todo |-> NoTodo,
           read |-> [j \in Jobs |-> "none"]]

TypeOK ==
  /\ bull \in [Jobs -> Bull]
  /\ row \in [Jobs -> Row]
  /\ feedLock \in [Feeds -> Slots \cup {None}]
  /\ call \in [Jobs -> {"none", "checked", "added"}]
  /\ proc \in [Procs -> {"up", "closing", "down"}]
  /\ stops \in Nat
  /\ slot \in [Slots -> Slot]
  /\ failMarks \subseteq (Jobs \X Procs)
  /\ rec \in [Recoverers -> Pass]

------------------------------------------------------------------------------
(* Helpers *)

Active == {j \in Jobs : bull[j].state = "active"}

\* An entry a recovery pass counts as live: active, waiting or delayed.
InLiveBullmq(j) == bull[j].state \in {"active", "waiting", "delayed"}

\* The import of the slot's job is under way, the drain after a timeout too.
Importing(s) == slot[s].pc \in {"running", "draining"}

\* Mutant: the interval of startJobHeartbeat is never armed.
BeatingNever(j) == FALSE /\ j \in Jobs

\* startJobHeartbeat .. stopHeartbeat: from markJobRunning to the finally block.
Beating(j) ==
  \E s \in Slots : /\ slot[s].job = j
                   /\ slot[s].pc \in {"running", "draining", "done", "release"}

Capped(n, max) == IF n > max THEN max ELSE n

\* classifyRunningJobForRecovery on a row with status running.
Reclaimable(r) == r.age > JobTimeout \/ r.quiet > StaleAfter

\* UPDATE ... SET status WHERE job_id: no effect when the row does not exist.
WithStatus(r, st) ==
  IF r.status = "absent" THEN r ELSE [r EXCEPT !.status = st, !.quiet = 0]

\* The attempts a job was added with: the backend's Queue sets none.
AttemptsOf(j) == IF j \in Manual THEN 1 ELSE MaxAttempts

\* BullMQ's moveToFailed on an active job: retry with backoff, or failed.
Failed(j, b) ==
  [state |-> IF b.made + 1 < AttemptsOf(j) THEN "delayed" ELSE "failed",
   owner |-> None, made |-> b.made + 1, stalls |-> b.stalls]

Init ==
  /\ bull = [j \in Jobs |-> [state |-> "absent", owner |-> None, made |-> 0, stalls |-> 0]]
  /\ row = [j \in Jobs |-> NoRow]
  /\ feedLock = [f \in Feeds |-> None]
  /\ call = [j \in Jobs |-> "none"]
  /\ proc = [p \in Procs |-> "up"]
  /\ stops = 0
  /\ slot = [s \in Slots |-> Idle]
  /\ failMarks = {}
  /\ rec = [h \in Recoverers |-> NoPass]

------------------------------------------------------------------------------
(* Producers *)

\* A repeatable's iteration becomes due; the scheduler writes no row.
ScheduledAdd(j) ==
  /\ j \notin Manual
  /\ bull[j].state = "absent"
  /\ bull' = [bull EXCEPT ![j].state = "waiting"]
  /\ UNCHANGED <<row, feedLock, call, proc, stops, slot, failMarks, rec>>

\* findActiveRunningJobForSource: a running row of the feed that is not stale.
SourceActivelyRunning(j) ==
  \E k \in Jobs \ {j} : /\ FeedOf[k] = FeedOf[j]
                        /\ row[k].status = "running"
                        /\ ~Reclaimable(row[k])

\* Run-now: a busy feed is refused ...
RunNow(j) ==
  /\ j \in Manual
  /\ call[j] = "none" /\ bull[j].state = "absent"
  /\ ~SourceActivelyRunning(j)
  /\ call' = [call EXCEPT ![j] = "checked"]
  /\ UNCHANGED <<bull, row, feedLock, proc, stops, slot, failMarks, rec>>

\* ... then the job goes into BullMQ (importQueue.add) ...
ManualAdd(j) ==
  /\ call[j] = "checked"
  /\ bull' = [bull EXCEPT ![j].state = "waiting"]
  /\ call' = [call EXCEPT ![j] = "added"]
  /\ UNCHANGED <<row, feedLock, proc, stops, slot, failMarks, rec>>

\* ... and only then into the table: INSERT ... ON CONFLICT DO UPDATE SET
\* status='queued', started_at=NULL, whatever the worker has written meanwhile.
ManualUpsert(j) ==
  /\ call[j] = "added"
  /\ call' = [call EXCEPT ![j] = "none"]
  /\ row' = [row EXCEPT ![j] = [NoRow EXCEPT !.status = "queued"]]
  /\ UNCHANGED <<bull, feedLock, proc, stops, slot, failMarks, rec>>

\* The upsert fails: the caller gets an error, the job stays in BullMQ.
ManualUpsertError(j) ==
  /\ DbErrors
  /\ call[j] = "added"
  /\ call' = [call EXCEPT ![j] = "none"]
  /\ UNCHANGED <<bull, row, feedLock, proc, stops, slot, failMarks, rec>>

------------------------------------------------------------------------------
(* BullMQ: delayed retries come back; an active job without a lock stalled *)

Promote(j) ==
  /\ bull[j].state = "delayed"
  /\ bull' = [bull EXCEPT ![j].state = "waiting"]
  /\ UNCHANGED <<row, feedLock, call, proc, stops, slot, failMarks, rec>>

\* Mutant: the stalled checker does not look at the job's lock.
StalledThoughLocked(j, p) ==
  /\ proc[p] = "up"
  /\ bull[j].state = "active"
  /\ bull' = [bull EXCEPT ![j].state = "waiting"]
  /\ UNCHANGED <<row, feedLock, call, proc, stops, slot, failMarks, rec>>

\* Mutant: a job without a lock is left in the active list.
StalledIgnored(j, p) ==
  /\ proc[p] = "up"
  /\ bull[j].state = "active" /\ bull[j].owner # None
  /\ UNCHANGED vars

\* The stalled checker of process p requeues the job, or gives it up and
\* emits 'failed' in p.
Stalled(j, p) ==
  /\ proc[p] = "up"
  /\ bull[j].state = "active" /\ bull[j].owner = None
  /\ LET giveUp == bull[j].stalls >= MaxStalledCount
     IN /\ bull' = [bull EXCEPT ![j].state = IF giveUp THEN "failed" ELSE "waiting",
                                ![j].stalls = @ + 1]
        /\ failMarks' = IF giveUp THEN failMarks \cup {<<j, p>>} ELSE failMarks
  /\ UNCHANGED <<row, feedLock, call, proc, stops, slot, rec>>

------------------------------------------------------------------------------
(* The worker's handler, one action per await *)

Goto(s, pc) == slot' = [slot EXCEPT ![s].pc = pc]

\* The handler throws: BullMQ will be told of a failure.
Throw(s, pc) == slot' = [slot EXCEPT ![s].pc = pc, ![s].out = "fail", ![s].ran = 0]

Take(s, j) ==
  /\ slot[s].pc = "idle" /\ proc[ProcOf[s]] = "up"
  /\ bull[j].state = "waiting"
  /\ Cardinality(Active) < GlobalConcurrency
  /\ bull' = [bull EXCEPT ![j].state = "active", ![j].owner = s]
  /\ slot' = [slot EXCEPT ![s].pc = "taken", ![s].job = j]
  /\ UNCHANGED <<row, feedLock, call, proc, stops, failMarks, rec>>

\* if (shuttingDown) throw
RefuseShutdown(s) ==
  /\ slot[s].pc = "taken" /\ proc[ProcOf[s]] = "closing"
  /\ Throw(s, "settle")
  /\ UNCHANGED <<bull, row, feedLock, call, proc, stops, failMarks, rec>>

\* acquireFeedSyncLock: pg_try_advisory_lock never waits.
TryFeedLock(s) ==
  /\ slot[s].pc = "taken"
  /\ LET f == FeedOf[slot[s].job]
     IN \/ /\ feedLock[f] = None
           /\ feedLock' = [feedLock EXCEPT ![f] = s]
           /\ Goto(s, "locked")
        \/ /\ feedLock[f] # None
           /\ Goto(s, "busy")
           /\ UNCHANGED feedLock
  /\ UNCHANGED <<bull, row, call, proc, stops, failMarks, rec>>

\* The connection or the lock statement fails; the client is discarded.
FeedLockError(s) ==
  /\ DbErrors
  /\ slot[s].pc = "taken"
  /\ Throw(s, "settle")
  /\ UNCHANGED <<bull, row, feedLock, call, proc, stops, failMarks, rec>>

\* Mutant: the reason is written into the status column.
SkipBusyReason(s) ==
  /\ slot[s].pc = "busy"
  /\ row' = [row EXCEPT ![slot[s].job] = WithStatus(@, "source_busy")]
  /\ Goto(s, "settle")
  /\ UNCHANGED <<bull, feedLock, call, proc, stops, failMarks, rec>>

\* markJobSkipped(source_busy), then return.
SkipBusy(s) ==
  /\ slot[s].pc = "busy"
  /\ row' = [row EXCEPT ![slot[s].job] = WithStatus(@, "skipped")]
  /\ Goto(s, "settle")
  /\ UNCHANGED <<bull, feedLock, call, proc, stops, failMarks, rec>>

\* markJobRunning's upsert: started_at survives from an earlier attempt.
RunningRow(r) ==
  [status |-> "running", begun |-> TRUE,
   age |-> IF r.begun THEN r.age ELSE 0, quiet |-> 0]

\* markJobRunning, startJobHeartbeat and the start of executeJobWithTimeout.
MarkRunning(s) ==
  /\ slot[s].pc = "locked"
  /\ row' = [row EXCEPT ![slot[s].job] = RunningRow(@)]
  /\ Goto(s, "running")
  /\ UNCHANGED <<bull, feedLock, call, proc, stops, failMarks, rec>>

\* markJobRunning throws before the try block: nothing releases the lock.
MarkRunningError(s) ==
  /\ DbErrors
  /\ slot[s].pc = "locked"
  /\ Throw(s, "settle")
  /\ UNCHANGED <<bull, row, feedLock, call, proc, stops, failMarks, rec>>

\* The import returns (a result or a skip) before the timer fires.
ImportReturns(s, out) ==
  /\ slot[s].pc = "running"
  /\ slot' = [slot EXCEPT ![s].pc = "done", ![s].out = out, ![s].ran = 0]
  /\ UNCHANGED <<bull, row, feedLock, call, proc, stops, failMarks, rec>>

\* The import throws: its own error, or the abort of a shutdown it noticed.
ImportThrows(s) ==
  /\ slot[s].pc = "running"
  /\ Throw(s, "release")
  /\ UNCHANGED <<bull, row, feedLock, call, proc, stops, failMarks, rec>>

\* Mutant: the lock is released when the timer fires, before the drain.
TimeoutFiresUnlocking(s) ==
  /\ slot[s].pc = "running" /\ slot[s].ran >= JobTimeout
  /\ Throw(s, "draining")
  /\ feedLock' = [feedLock EXCEPT ![FeedOf[slot[s].job]] = None]
  /\ UNCHANGED <<bull, row, call, proc, stops, failMarks, rec>>

\* The timer wins the race; the finally block still awaits the import.
TimeoutFires(s) ==
  /\ slot[s].pc = "running" /\ slot[s].ran >= JobTimeout
  /\ Throw(s, "draining")
  /\ UNCHANGED <<bull, row, feedLock, call, proc, stops, failMarks, rec>>

\* The aborted import settles, whatever it settles to.
DrainEnds(s) ==
  /\ slot[s].pc = "draining"
  /\ Goto(s, "release")
  /\ UNCHANGED <<bull, row, feedLock, call, proc, stops, failMarks, rec>>

\* markJobSuccess or markJobSkipped, neither conditional on the row's status.
MarkDone(s) ==
  /\ slot[s].pc = "done"
  /\ row' = [row EXCEPT ![slot[s].job] =
               WithStatus(@, IF slot[s].out = "ok" THEN "success" ELSE "skipped")]
  /\ Goto(s, "release")
  /\ UNCHANGED <<bull, feedLock, call, proc, stops, failMarks, rec>>

MarkDoneError(s) ==
  /\ DbErrors
  /\ slot[s].pc = "done"
  /\ Throw(s, "release")
  /\ UNCHANGED <<bull, row, feedLock, call, proc, stops, failMarks, rec>>

\* finally: stopHeartbeat, feedLock.release.
ReleaseFeedLock(s) ==
  /\ slot[s].pc = "release"
  /\ feedLock' = [feedLock EXCEPT ![FeedOf[slot[s].job]] = None]
  /\ Goto(s, "settle")
  /\ UNCHANGED <<bull, row, call, proc, stops, failMarks, rec>>

HasToken(s) == bull[slot[s].job].owner = s

\* BullMQ's moveToCompleted needs the token; without it nothing changes.
SettleCompleted(s) ==
  /\ slot[s].pc = "settle" /\ slot[s].out # "fail"
  /\ bull' = IF HasToken(s)
             THEN [bull EXCEPT ![slot[s].job].state = "completed",
                               ![slot[s].job].owner = None]
             ELSE bull
  /\ slot' = [slot EXCEPT ![s] = Idle]
  /\ UNCHANGED <<row, feedLock, call, proc, stops, failMarks, rec>>

\* moveToFailed with the token, then the 'failed' event; without the token
\* only an 'error' event, which writes nothing.
SettleFailed(s) ==
  /\ slot[s].pc = "settle" /\ slot[s].out = "fail"
  /\ LET j == slot[s].job
     IN \/ /\ HasToken(s)
           /\ bull' = [bull EXCEPT ![j] = Failed(j, @)]
           /\ failMarks' = failMarks \cup {<<j, ProcOf[s]>>}
        \/ /\ ~HasToken(s)
           /\ UNCHANGED <<bull, failMarks>>
  /\ slot' = [slot EXCEPT ![s] = Idle]
  /\ UNCHANGED <<row, feedLock, call, proc, stops, rec>>

\* The listener of 'failed' runs beside the slot, which may take a job already.
MarkFailed(j, p) ==
  /\ <<j, p>> \in failMarks
  /\ failMarks' = failMarks \ {<<j, p>>}
  /\ row' = [row EXCEPT ![j] = WithStatus(@, "failed")]
  /\ UNCHANGED <<bull, feedLock, call, proc, stops, slot, rec>>

\* Its error is logged and dropped.
MarkFailedError(j, p) ==
  /\ DbErrors
  /\ <<j, p>> \in failMarks
  /\ failMarks' = failMarks \ {<<j, p>>}
  /\ UNCHANGED <<bull, row, feedLock, call, proc, stops, slot, rec>>

------------------------------------------------------------------------------
(* Worker processes *)

\* Mutant: the feed locks outlive the process.
DieHoldingLocks(p) ==
  LET Mine(s) == s # None /\ ProcOf[s] = p
  IN /\ proc' = [proc EXCEPT ![p] = "down"]
     /\ slot' = [s \in Slots |-> IF Mine(s) THEN Idle ELSE slot[s]]
     /\ failMarks' = {m \in failMarks : m[2] # p}
     /\ bull' = [j \in Jobs |-> IF Mine(bull[j].owner)
                                THEN [bull[j] EXCEPT !.owner = None] ELSE bull[j]]
     /\ rec' = [h \in Recoverers |-> IF h = p THEN NoPass ELSE rec[h]]
     /\ UNCHANGED <<row, feedLock, call>>

\* A process ends: PostgreSQL frees its session locks, its BullMQ locks run
\* out, a recovery pass it was running stops where it is.
Die(p) ==
  LET Mine(s) == s # None /\ ProcOf[s] = p
  IN /\ proc' = [proc EXCEPT ![p] = "down"]
     /\ slot' = [s \in Slots |-> IF Mine(s) THEN Idle ELSE slot[s]]
     /\ failMarks' = {m \in failMarks : m[2] # p}
     /\ feedLock' = [f \in Feeds |-> IF Mine(feedLock[f]) THEN None ELSE feedLock[f]]
     /\ bull' = [j \in Jobs |-> IF Mine(bull[j].owner)
                                THEN [bull[j] EXCEPT !.owner = None] ELSE bull[j]]
     /\ rec' = [h \in Recoverers |-> IF h = p THEN NoPass ELSE rec[h]]
     /\ UNCHANGED <<row, call>>

Crash(p) ==
  /\ proc[p] = "up" /\ stops < MaxStops
  /\ stops' = stops + 1
  /\ Die(p)

\* SIGTERM: shuttingDown is set, the worker stops taking jobs.
Shutdown(p) ==
  /\ proc[p] = "up" /\ stops < MaxStops
  /\ proc' = [proc EXCEPT ![p] = "closing"]
  /\ stops' = stops + 1
  /\ UNCHANGED <<bull, row, feedLock, call, slot, failMarks, rec>>

\* process.exit after worker.close or after the grace period.
Exit(p) == proc[p] = "closing" /\ Die(p) /\ UNCHANGED stops

Restart(p) ==
  /\ proc[p] = "down"
  /\ proc' = [proc EXCEPT ![p] = "up"]
  /\ UNCHANGED <<bull, row, feedLock, call, stops, slot, failMarks, rec>>

------------------------------------------------------------------------------
(* Recovery passes, one at a time on each host *)

\* Mutant: running rows are never classified.
VerdictOfUnaged(j) ==
  CASE row[j].status = "absent"                -> "none"
    [] row[j].status = "queued"                -> "queued"
    [] row[j].status = "skipped"               -> "skipped"
    [] row[j].status \in {"success", "failed"} -> "terminal"
    [] row[j].status = "running"               -> "fresh"

VerdictOf(j) ==
  CASE row[j].status = "absent"                -> "none"
    [] row[j].status = "queued"                -> "queued"
    [] row[j].status = "skipped"               -> "skipped"
    [] row[j].status \in {"success", "failed"} -> "terminal"
    [] row[j].status = "running"               ->
         IF Reclaimable(row[j]) THEN "reclaim" ELSE "fresh"

\* Give every job of set js the statements plan.
Plan(js, plan) == [j \in Jobs |-> IF j \in js THEN plan ELSE <<>>]

NextOp(h, j) == IF rec[h].todo[j] = <<>> THEN "none" ELSE Head(rec[h].todo[j])

\* The pass has run every statement of the phase.
PhaseOver(h, phase) == rec[h].phase = phase /\ rec[h].todo = NoTodo

\* recoverStaleRunningJobs reads the running rows: the periodic pass of a
\* worker, or the first part of a full one (start-up, the API's endpoint).
ScanStale(h, full) ==
  /\ rec[h].phase = "idle"
  /\ h = Api => full
  /\ h # Api => proc[h] = "up"
  /\ rec' = [rec EXCEPT ![h].phase = "stale", ![h].full = full,
       ![h].todo = Plan({j \in Jobs : VerdictOf(j) = "reclaim"},
                        <<"fail", "move", "purge">>)]
  /\ UNCHANGED <<bull, row, feedLock, call, proc, stops, slot, failMarks>>

Done(h, j) == rec' = [rec EXCEPT ![h].todo[j] = Tail(@)]

\* markQueueJobFailed: by job_id alone, whatever the row says by now.
FailRow(h, j) ==
  /\ NextOp(h, j) = "fail"
  /\ row' = [row EXCEPT ![j] = WithStatus(@, "failed")]
  /\ Done(h, j)
  /\ UNCHANGED <<bull, feedLock, call, proc, stops, slot, failMarks>>

\* moveBullJobToFailed: nothing unless active; token '0' passes the lock check.
\* recoverStaleRunningJobs fails all its rows before it moves the first job.
MoveToFailed(h, j) ==
  /\ NextOp(h, j) = "move"
  /\ rec[h].phase = "stale" => \A k \in Jobs : NextOp(h, k) # "fail"
  /\ bull' = IF bull[j].state = "active" THEN [bull EXCEPT ![j] = Failed(j, @)] ELSE bull
  /\ Done(h, j)
  /\ UNCHANGED <<row, feedLock, call, proc, stops, slot, failMarks>>

\* Mutant: the lock key is not deleted.
PurgedKeepingLock(b) == [b EXCEPT !.state = IF @ = "active" THEN "limbo" ELSE @]

\* An active job out of its list and without its lock is in limbo.
Purged(b) ==
  [b EXCEPT !.state = IF @ = "active" THEN "limbo" ELSE @, !.owner = None]

\* purgeJobFromBullmqLists.
Purge(h, j) ==
  /\ NextOp(h, j) = "purge"
  /\ bull' = [bull EXCEPT ![j] = Purged(@)]
  /\ Done(h, j)
  /\ UNCHANGED <<row, feedLock, call, proc, stops, slot, failMarks>>

\* The periodic pass ends after recoverStaleRunningJobs.
EndPeriodic(h) ==
  /\ PhaseOver(h, "stale") /\ ~rec[h].full
  /\ rec' = [rec EXCEPT ![h] = NoPass]
  /\ UNCHANGED <<bull, row, feedLock, call, proc, stops, slot, failMarks>>

\* reconcileBullmqWithDb loads the active list and the rows of its jobs.
ScanActive(h) ==
  /\ PhaseOver(h, "stale") /\ rec[h].full
  /\ rec' = [rec EXCEPT ![h].phase = "reconcile",
       ![h].todo = Plan(Active, <<"decide">>),
       ![h].read = [j \in Jobs |-> IF j \in Active THEN VerdictOf(j) ELSE "none"]]
  /\ UNCHANGED <<bull, row, feedLock, call, proc, stops, slot, failMarks>>

\* reconcileOneBullJob: what to do with a job whose row read v.
PlanFor(j, v) ==
  CASE bull[j].state # "active"        -> <<"purge">>
    [] v \in {"terminal", "skipped"}   -> <<"move", "purge">>
    [] v = "reclaim"                   -> <<"fail", "move", "purge">>
    [] v = "queued"                    -> <<"move", "purge", "fail">>
    [] v \in {"none", "fresh"}         -> <<>>

Decide(h, j) ==
  /\ NextOp(h, j) = "decide"
  /\ rec' = [rec EXCEPT ![h].todo[j] = PlanFor(j, rec[h].read[j])]
  /\ UNCHANGED <<bull, row, feedLock, call, proc, stops, slot, failMarks>>

\* isBlockingBullmqEntry(dbMap.get(id) || null, 'active', .., {isGhost: true}).
Blocking(v) == v \in {"none", "terminal", "queued", "reclaim"}

\* The second look at the active list: what it holds that the rows of the
\* first look do not vouch for is purged.
ScanRemaining(h) ==
  /\ PhaseOver(h, "reconcile")
  /\ rec' = [rec EXCEPT ![h].phase = "remaining",
       ![h].todo = Plan({j \in Active : Blocking(rec[h].read[j])}, <<"purge">>),
       ![h].read = NoPass.read]
  /\ UNCHANGED <<bull, row, feedLock, call, proc, stops, slot, failMarks>>

\* classifyOrphanSourceLock.
OrphanSourceLock(j) ==
  /\ row[j].status = "running"
  /\ \/ Reclaimable(row[j])
     \/ ~InLiveBullmq(j) /\ row[j].quiet > OrphanGrace

\* releaseOrphanDbSourceLocks.
ScanLocks(h) ==
  /\ PhaseOver(h, "remaining")
  /\ rec' = [rec EXCEPT ![h].phase = "locks",
       ![h].todo = Plan({j \in Jobs : OrphanSourceLock(j)}, <<"fail", "move", "purge">>)]
  /\ UNCHANGED <<bull, row, feedLock, call, proc, stops, slot, failMarks>>

\* detectOrphanDbQueuedJobs: old is the set of rows past the age threshold.
ScanQueued(h, old) ==
  /\ PhaseOver(h, "locks")
  /\ rec' = [rec EXCEPT ![h].phase = "queued",
       ![h].todo = Plan({j \in old : row[j].status = "queued" /\ ~InLiveBullmq(j)},
                        <<"fail">>)]
  /\ UNCHANGED <<bull, row, feedLock, call, proc, stops, slot, failMarks>>

EndFull(h) ==
  /\ PhaseOver(h, "queued")
  /\ rec' = [rec EXCEPT ![h] = NoPass]
  /\ UNCHANGED <<bull, row, feedLock, call, proc, stops, slot, failMarks>>

------------------------------------------------------------------------------
(* Time.  The heartbeats of a live worker reach its running row within a    *)
(* tick unless the statement fails (lost), and a timer that is due fires    *)
(* before the next tick.                                                    *)

Aged(j, lost) ==
  [row[j] EXCEPT
     !.age = IF row[j].begun THEN Capped(@ + 1, JobTimeout + 1) ELSE @,
     !.quiet = IF row[j].status # "running" \/ (Beating(j) /\ j \notin lost) THEN 0
               ELSE Capped(@ + 1, StaleAfter + 1)]

Tick(lost) ==
  /\ lost # {} => DbErrors
  /\ \A s \in Slots : slot[s].pc = "running" => slot[s].ran < JobTimeout
  /\ row' = [j \in Jobs |-> Aged(j, lost)]
  /\ slot' = [s \in Slots |->
       [slot[s] EXCEPT !.ran = IF slot[s].pc = "running" THEN @ + 1 ELSE @]]
  /\ UNCHANGED <<bull, feedLock, call, proc, stops, failMarks, rec>>

------------------------------------------------------------------------------

Produce(j) ==
  \/ ScheduledAdd(j) \/ RunNow(j) \/ ManualAdd(j) \/ ManualUpsert(j)
  \/ ManualUpsertError(j)

\* The steps of a handler that do not depend on the feed's server.
Work(s) ==
  \/ RefuseShutdown(s) \/ TryFeedLock(s) \/ SkipBusy(s) \/ MarkRunning(s)
  \/ TimeoutFires(s) \/ DrainEnds(s) \/ MarkDone(s) \/ ReleaseFeedLock(s)
  \/ SettleCompleted(s) \/ SettleFailed(s)

Import(s) == ImportThrows(s) \/ \E out \in {"ok", "skip"} : ImportReturns(s, out)

WorkError(s) == FeedLockError(s) \/ MarkRunningError(s) \/ MarkDoneError(s)

Process(p) == Crash(p) \/ Shutdown(p) \/ Exit(p) \/ Restart(p)

RecoveryStep(h) ==
  \/ \E j \in Jobs : FailRow(h, j) \/ MoveToFailed(h, j) \/ Purge(h, j) \/ Decide(h, j)
  \/ EndPeriodic(h) \/ ScanActive(h) \/ ScanRemaining(h) \/ ScanLocks(h)
  \/ \E old \in SUBSET Jobs : ScanQueued(h, old)
  \/ EndFull(h)

Next ==
  \/ \E j \in Jobs : Produce(j) \/ Promote(j)
  \/ \E s \in Slots : Work(s) \/ Import(s) \/ WorkError(s)
  \/ \E s \in Slots, j \in Jobs : Take(s, j)
  \/ \E j \in Jobs, p \in Procs : Stalled(j, p) \/ MarkFailed(j, p) \/ MarkFailedError(j, p)
  \/ \E p \in Procs : Process(p)
  \/ \E h \in Recoverers : RecoveryStep(h) \/ \E full \in BOOLEAN : ScanStale(h, full)
  \/ \E lost \in SUBSET Jobs : Tick(lost)

Spec == Init /\ [][Next]_vars

------------------------------------------------------------------------------
(* Properties *)

\* worker.js takes the advisory lock so that a feed is never synchronised twice
\* at the same time, by slots of one process or of several, whatever crashes,
\* retries and recovery passes do to the job meanwhile.
FeedExclusion ==
  \A s, t \in Slots : s # t /\ Importing(s) /\ Importing(t)
                      => FeedOf[slot[s].job] # FeedOf[slot[t].job]

\* What makes FeedExclusion inductive: between acquireFeedSyncLock and release
\* the advisory lock of the job's feed is held by this very slot, the drain of a
\* timed-out import included.
HandlerHoldsLock ==
  \A s \in Slots :
    /\ slot[s].pc # "idle" => slot[s].job \in Jobs
    /\ slot[s].pc \in {"locked", "running", "draining", "done", "release"}
         => feedLock[FeedOf[slot[s].job]] = s

\* feedSyncLock.js: a crashed worker leaves no phantom lock behind, and only a
\* handler that is past acquireFeedSyncLock holds the lock, on its own feed.
LockReleased ==
  \A f \in Feeds : feedLock[f] # None =>
    /\ proc[ProcOf[feedLock[f]]] # "down"
    /\ slot[feedLock[f]].pc \in {"locked", "running", "draining", "done", "release"}
    /\ FeedOf[slot[feedLock[f]].job] = f

\* purgeJobFromBullmqLists and moveToFailed('0') take a job away from its
\* worker: a lock that is left in Redis belongs to a slot that works on that
\* very job, and the job is in the active list.
TokenOfWorker ==
  \A j \in Jobs : bull[j].owner # None =>
    bull[j].state = "active" /\ slot[bull[j].owner].job = j

\* worker.js 42-47: no more than FEED_SYNC_CONCURRENCY feed syncs at the same
\* time across the deployment.
SyncCeiling ==
  Cardinality({s \in Slots : Importing(s)}) <= GlobalConcurrency

\* integrationQueueBullmqReconciliation.js 414-416: an import that is under way
\* within its timeout, heartbeats and all, is not up for reclaim while it is the
\* first attempt of its job (a later one keeps the first one's started_at), even
\* after a pass dropped the job from BullMQ's lists.
LiveNotReclaimed ==
  \A s \in Slots :
    LET j == slot[s].job IN
    slot[s].pc = "running" /\ bull[j].made = 0 /\ bull[j].stalls = 0
      => ~OrphanSourceLock(j)

\* A row that says running while nobody synchronises the feed blocks run-now
\* (findActiveRunningJobForSource); crashes must not leave it there for good.
RunningRowSettles ==
  \A j \in Jobs : row[j].status = "running" /\ ~Beating(j)
                  ~> row[j].status # "running" \/ Beating(j)

\* A job that was put into the queue leaves it: completed, failed, or dropped
\* from every list by a recovery pass.
JobSettles ==
  \A j \in Jobs : bull[j].state = "waiting"
                  ~> bull[j].state \in {"completed", "failed", "limbo"}

------------------------------------------------------------------------------
(* Fairness.  Timers fire, statements return, an aborted import settles,    *)
(* BullMQ promotes, hands out and checks for stalled jobs, containers are   *)
(* restarted, a process that is shut down exits, and every worker runs its  *)
(* periodic pass.  Nothing is assumed of imports, errors or the API.        *)

Fairness ==
  /\ WF_vars(Tick({}))
  /\ \A s \in Slots : WF_vars(Work(s))
  /\ WF_vars(\E s \in Slots, j \in Jobs : Take(s, j))
  /\ \A j \in Jobs : WF_vars(Promote(j)) /\ WF_vars(\E p \in Procs : Stalled(j, p))
  /\ \A p \in Procs : WF_vars(Restart(p)) /\ WF_vars(Exit(p))
  /\ \A h \in Recoverers : WF_vars(RecoveryStep(h))
  /\ \A h \in Recoverers \ {Api} : WF_vars(\E full \in BOOLEAN : ScanStale(h, full))

FairSpec == Spec /\ Fairness

==============================================================================
