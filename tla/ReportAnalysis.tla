--------------------------- MODULE ReportAnalysis ---------------------------
(***************************************************************************)
(* Analyses of threat library reports.  The API, or an automatic retry,    *)
(* inserts a row of threat_library_jobs; dispatch gives rows that wait one *)
(* of Limit slots and adds a BullMQ job; a handler of a worker process     *)
(* claims the row under a token of its own and runs the pipeline, every    *)
(* write of which is fenced: it commits only while the row is running      *)
(* under that token.  A heartbeat keeps the token alive; a safety timer of *)
(* every worker, and its start, give back rows whose owner is silent or    *)
(* whose BullMQ job is gone.                                               *)
(*                                                                         *)
(* Jobs are numbered in the order their rows are created.  Only the modes  *)
(* analyze and retry are modelled.                                         *)
(***************************************************************************)
EXTENDS JobQueue, FiniteSetsExt

CONSTANTS
  Reports,        \* threat_reports
  MaxReportJobs,  \* bound: rows that are ever created
  Copies,         \* bound: BullMQ jobs of one row that are known at a time
  Analysts,       \* worker processes, each with one slot
  Limit,          \* max_concurrent_report_analyses
  MaxKills,       \* bound: how often worker processes stop or die
  MaxReportFaults,\* bound: failing statements, requests and paused processes
  Late            \* whether a write of a request, an automatic retry, a shutdown
                  \* or recovery may arrive when its job has ended

ASSUME ReportAssumption ==
  /\ {MaxReportJobs, MaxKills, MaxReportFaults} \subseteq Nat
  /\ {Copies, Limit} \subseteq Nat \ {0}
  /\ Late \in BOOLEAN
  /\ "gone" \notin Analysts /\ None \notin Analysts \cup Reports

VARIABLES
  report,        \* PostgreSQL: threat_reports
  job,           \* PostgreSQL: threat_library_jobs
  deliveries,    \* Redis: the BullMQ jobs of each row
  importing,     \* API: reports created by an import, without a job so far
  asking,        \* API: what a Retry request has still to do, by report
  maker,         \* API: what the request that created a job has still to do
  run,           \* the handler of each worker
  pass,          \* the safety timer or the start-up recovery of each worker
  workers,       \* the worker processes: up, closing after SIGTERM, or down
  kills,         \* how often they were told to stop, or died
  reportFaults   \* how much else has gone wrong

apiVars == <<importing, asking, maker>>

processVars == <<workers, kills>>

reportOwn == <<report, job, deliveries, importing, asking, maker, run, pass,
               workers, kills, reportFaults>>

ReportJobs == 1 .. MaxReportJobs

Copy == 1 .. Copies

\* fault: failure_code; cancel: cancel_requested_at.  working: fetching,
\* extracting or matching.
ReportRow ==
  [status : {"none", "pending", "working", "analyzing", "failed", "review"},
   fault : BOOLEAN, cancel : BOOLEAN]

\* failed: or cancelled.  copy: bullmq_job_id, 0 for NULL.  owner: the handler
\* whose token it is, or "gone" when that handler is.  stale: its heartbeat is
\* older than JOB_OWNER_STALE_MS.  due: not_before has passed.
ReportJob ==
  [status : {"none", "queued", "running", "completed", "failed"},
   of : Reports \cup {None}, copy : 0 .. Copies,
   owner : Analysts \cup {"gone", None}, stale : BOOLEAN, due : BOOLEAN]

NoReportJob == [status |-> "none", of |-> None, copy |-> 0, owner |-> None,
                stale |-> FALSE, due |-> TRUE]

\* j, copy: the BullMQ job it has in hand; why: how the analysis failed; new:
\* the automatic retry it is creating.
Handler ==
  [at : {"idle", "claim", "extract", "begin", "ai", "outcome", "failReport",
         "failJob", "auto", "create", "row", "pending", "requeue", "requeued",
         "dispatch", "settle", "thrown", "raised", "markJob", "marked"},
   j : 0 .. MaxReportJobs, copy : 0 .. Copies,
   why : {"no", "transient", "other", "cancelled"}, new : 0 .. MaxReportJobs]

NoHandler == [at |-> "idle", j |-> 0, copy |-> 0, why |-> "no", new |-> 0]

\* A row as recovery read it.
Finding == [j : ReportJobs, running : BOOLEAN, copy : Copy]

\* old: jobs that were active when the process started; cur: the row just given
\* back, whose report is to follow.
NoRecovery == [at |-> "idle", todo |-> {}, old |-> {}, cur |-> 0]

ReportTypeOK ==
  /\ report \in [Reports -> ReportRow]
  /\ job \in [ReportJobs -> ReportJob]
  /\ deliveries \in [ReportJobs -> [Copy -> JobEntry(Analysts)]]
  /\ importing \subseteq Reports
  /\ asking \in [Reports -> {"no", "create", "race", "dispatch"}]
  /\ maker \in [ReportJobs -> {"no", "report", "row", "dispatch"}]
  /\ run \in [Analysts -> Handler]
  /\ \A w \in Analysts :
       /\ pass[w].at \in {"idle", "startup", "read", "recover", "pending"}
       /\ pass[w].todo \subseteq Finding
       /\ pass[w].old \subseteq ReportJobs \X Copy
       /\ pass[w].cur \in 0 .. MaxReportJobs
  /\ workers \in [Analysts -> {"up", "closing", "down"}]
  /\ reportFaults \in 0 .. MaxReportFaults
  /\ kills \in 0 .. MaxKills

ReportInit ==
  /\ report = [r \in Reports |->
                 [status |-> "none", fault |-> FALSE, cancel |-> FALSE]]
  /\ job = [j \in ReportJobs |-> NoReportJob]
  /\ deliveries = [j \in ReportJobs |-> [k \in Copy |-> NoEntry]]
  /\ importing = {}
  /\ asking = [r \in Reports |-> "no"]
  /\ maker = [j \in ReportJobs |-> "no"]
  /\ run = [w \in Analysts |-> NoHandler]
  /\ pass = [w \in Analysts |-> NoRecovery]
  /\ workers \in [Analysts -> {"up", "down"}]
  /\ reportFaults = 0
  /\ kills = 0

-----------------------------------------------------------------------------
(* The store *)

UnusedJobs == {j \in ReportJobs : job[j].status = "none"}

LiveJob(j) == job[j].status \in {"queued", "running"}

LiveJobsOf(r) == {j \in ReportJobs : LiveJob(j) /\ job[j].of = r}

\* isActiveAnalysisStatus
ActiveReport(r) == report[r].status \in {"pending", "working", "analyzing"}

Fails == reportFaults < MaxReportFaults /\ reportFaults' = reportFaults + 1

NewJob(r, due) == [NoReportJob EXCEPT !.status = "queued", !.of = r, !.due = due]

\* Mutant: the report gets the status of its job.
PendingQueued(r) == [report EXCEPT ![r].status = "queued"]

\* updateReportStatus to 'pending', failure and cancel request untouched.
Pending(r) == [report EXCEPT ![r].status = "pending"]

\* Mutant: a job that was interrupted is failed.
RequeuedFailed(j) == [job EXCEPT ![j].status = "failed", ![j].copy = 0,
                                 ![j].owner = None, ![j].stale = FALSE]

\* Given back: no BullMQ job, no owner.
Requeued(j) == [job EXCEPT ![j].status = "queued", ![j].copy = 0,
                           ![j].owner = None, ![j].stale = FALSE]

\* A request, an automatic retry, a shutdown or a recovery is about to write to j
\* or to its report, in a statement that is not fenced.
Outstanding(j) ==
  \/ maker[j] \in {"report", "row"}
  \/ asking[job[j].of] \in {"race", "create"}
  \/ \E w \in Analysts :
       \/ run[w].at = "create" /\ job[run[w].j].of = job[j].of
       \/ run[w].new = j /\ run[w].at \in {"row", "pending"}
       \/ run[w].j = j /\ run[w].at = "requeued"
       \/ pass[w].cur = j /\ pass[w].at = "pending"

\* Without Late such a statement does not outlast an analysis.
MayEnd(j) == Late \/ ~Outstanding(j)

-----------------------------------------------------------------------------
(* dispatchQueuedThreatLibraryAnalyses: one transaction under a lock *)

Occupied == {j \in ReportJobs : LiveJob(j) /\ job[j].copy # 0}

Waiting ==
  {j \in ReportJobs : /\ job[j].status = "queued" /\ job[j].copy = 0
                      /\ job[j].due
                      /\ ~\E o \in Occupied \ {j} : job[o].of = job[j].of}

\* The oldest n.
Oldest(S, n) == {j \in S : Cardinality({i \in S : i < j}) < n}

\* BullMQ jobs of j nobody knows of any more: their names are used again.
Spare(j) ==
  {k \in Copy : /\ deliveries[j][k].st \in {"absent", "ended"}
                /\ job[j].copy # k
                /\ \A w \in Analysts : /\ <<run[w].j, run[w].copy>> # <<j, k>>
                                       /\ <<j, k>> \notin pass[w].old
                                       /\ \A f \in pass[w].todo :
                                            <<f.j, f.copy>> # <<j, k>>}

\* As many as there are free slots, one per report.
Chosen ==
  LET free == Limit - Cardinality(Occupied)
      rows == Oldest(Waiting, free)
  IN {j \in rows : /\ \A i \in rows : job[i].of = job[j].of => i >= j
                   /\ Spare(j) # {}}

\* queue.add precedes COMMIT: when that fails, or a later queue.add does, the
\* BullMQ jobs that were added stay.
Dispatch ==
  LET added(S) == [j \in ReportJobs |-> IF j \in S THEN Added(deliveries[j], Min(Spare(j)))
                                        ELSE deliveries[j]]
  IN \/ /\ deliveries' = added(Chosen)
        /\ job' = [j \in ReportJobs |-> IF j \in Chosen
                     THEN [job[j] EXCEPT !.copy = Min(Spare(j))] ELSE job[j]]
        /\ UNCHANGED reportFaults
     \/ /\ Fails /\ UNCHANGED job
        /\ \E n \in 0 .. Limit : deliveries' = added(Oldest(Chosen, n))

-----------------------------------------------------------------------------
(* The API *)

\* claimReportImport
ImportReport(r) ==
  /\ report[r].status = "none"
  /\ report' = Pending(r)
  /\ importing' = importing \cup {r}
  /\ UNCHANGED <<job, deliveries, asking, maker, run, pass, processVars, reportFaults>>

\* createJob, for a report that is new and so has no other.
CreateJob(r) ==
  /\ r \in importing /\ UnusedJobs # {}
  /\ job' = [job EXCEPT ![Min(UnusedJobs)] = NewJob(r, TRUE)]
  /\ maker' = [maker EXCEPT ![Min(UnusedJobs)] = "row"]
  /\ importing' = importing \ {r}
  /\ UNCHANGED <<report, deliveries, asking, run, pass, processVars, reportFaults>>

\* isOrphanedActiveAnalysis, when no job of r is live.
Orphaned(r) ==
  LET mine == {j \in ReportJobs : job[j].of = r}
  IN /\ ActiveReport(r) /\ report[r].fault
     /\ mine # {} /\ job[Max(mine)].status = "failed"

\* POST /retry reads the report and its jobs: an active report is running
\* already, unless it was orphaned; a failed one with a live job is a race; a
\* delayed automatic retry becomes due.
AskRetry(r) ==
  /\ asking[r] = "no"
  /\ LET live == LiveJobsOf(r)
         delayed == {j \in live : /\ j = Max(live) /\ ~job[j].due /\ job[j].copy = 0
                                  /\ job[j].status = "queued" /\ ActiveReport(r)}
     IN /\ job' = [j \in ReportJobs |-> IF j \in delayed
                     THEN [job[j] EXCEPT !.due = TRUE] ELSE job[j]]
        /\ asking' = [asking EXCEPT ![r] =
             CASE delayed # {} -> "dispatch"
               [] report[r].status = "failed" /\ live # {} -> "race"
               [] live = {} /\ (report[r].status = "failed" \/ Orphaned(r)) -> "create"
               [] OTHER -> "no"]
  /\ UNCHANGED <<report, deliveries, importing, maker, run, pass, processVars, reportFaults>>

\* A live job under a failed report: the report is shown as started.
RetryRace(r) ==
  /\ asking[r] = "race"
  /\ asking' = [asking EXCEPT ![r] = "no"]
  /\ \E st \in {"pending", "working", "analyzing"} :
       report' = [report EXCEPT ![r] = [status |-> st, fault |-> FALSE,
                                        cancel |-> FALSE]]
  /\ UNCHANGED <<job, deliveries, importing, maker, run, pass, processVars, reportFaults>>

\* Mutant: jobs that run are not looked for.
CreateAnyRetry(r) ==
  /\ asking[r] = "create" /\ UnusedJobs # {}
  /\ asking' = [asking EXCEPT ![r] = "no"]
  /\ job' = [job EXCEPT ![Min(UnusedJobs)] = NewJob(r, TRUE)]
  /\ maker' = [maker EXCEPT ![Min(UnusedJobs)] = "report"]
  /\ UNCHANGED <<report, deliveries, importing, run, pass, processVars, reportFaults>>

\* createExclusivePipelineJob
CreateRetry(r) ==
  /\ asking[r] = "create"
  /\ asking' = [asking EXCEPT ![r] = "no"]
  /\ \/ /\ LiveJobsOf(r) = {} /\ UnusedJobs # {}
        /\ job' = [job EXCEPT ![Min(UnusedJobs)] = NewJob(r, TRUE)]
        /\ maker' = [maker EXCEPT ![Min(UnusedJobs)] = "report"]
     \/ /\ LiveJobsOf(r) # {} \/ UnusedJobs = {}
        /\ UNCHANGED <<job, maker>>
  /\ UNCHANGED <<report, deliveries, importing, run, pass, processVars, reportFaults>>

\* The report of a Retry leaves failed ...
MakeReport(j) ==
  /\ maker[j] = "report"
  /\ maker' = [maker EXCEPT ![j] = "row"]
  /\ report' = [report EXCEPT ![job[j].of] = [status |-> "pending", fault |-> FALSE,
                                              cancel |-> FALSE]]
  /\ UNCHANGED <<job, deliveries, importing, asking, run, pass, processVars, reportFaults>>

\* ... scheduleThreatLibraryAnalysis writes the row, WHERE id ...
MakeRow(j) ==
  /\ maker[j] = "row"
  /\ maker' = [maker EXCEPT ![j] = "dispatch"]
  /\ job' = [job EXCEPT ![j].status = "queued"]
  /\ UNCHANGED <<report, deliveries, importing, asking, run, pass, processVars, reportFaults>>

\* ... and dispatches, as Retry does for a job that it made due.
MakeDispatch ==
  /\ \/ \E j \in ReportJobs : /\ maker[j] = "dispatch"
                              /\ maker' = [maker EXCEPT ![j] = "no"]
                              /\ UNCHANGED asking
     \/ \E r \in Reports : /\ asking[r] = "dispatch"
                           /\ asking' = [asking EXCEPT ![r] = "no"]
                           /\ UNCHANGED maker
  /\ Dispatch
  /\ UNCHANGED <<report, importing, run, pass, processVars>>

\* A request that creates a job ends half-way: a statement fails, or the API
\* dies.  (One that has only made a job due, or has cancelled it, is as good as
\* done: the next dispatch is as good as its own.)
AbandonRequest ==
  /\ Fails
  /\ \/ \E j \in ReportJobs : /\ maker[j] # "no"
                              /\ maker' = [maker EXCEPT ![j] = "no"]
                              /\ UNCHANGED importing
     \/ \E r \in importing : importing' = importing \ {r} /\ UNCHANGED maker
  /\ UNCHANGED <<report, job, deliveries, asking, run, pass, processVars>>

\* POST /cancel: cancelUnclaimedAnalysisJobs ...
CancelUnclaimed(r) ==
  LET unclaimed == {j \in LiveJobsOf(r) : job[j].status = "queued" /\ job[j].copy = 0}
  IN /\ unclaimed # {} /\ asking[r] = "no"
     /\ \A j \in unclaimed : MayEnd(j)
     /\ job' = [j \in ReportJobs |-> IF j \in unclaimed
                  THEN [job[j] EXCEPT !.status = "failed"] ELSE job[j]]
     /\ report' = [report EXCEPT ![r].cancel = TRUE]
     /\ asking' = [asking EXCEPT ![r] = "dispatch"]
     /\ UNCHANGED <<deliveries, importing, maker, run, pass, processVars, reportFaults>>

\* ... and requestAnalysisCancel, which the analysis looks for between chunks.
RequestAnalysisCancel(r) ==
  /\ report[r].status # "none" /\ ~report[r].cancel
  /\ ~\E j \in LiveJobsOf(r) : job[j].status = "queued" /\ job[j].copy = 0
  /\ report' = [report EXCEPT ![r].cancel = TRUE]
  /\ UNCHANGED <<job, deliveries, apiVars, run, pass, processVars, reportFaults>>

-----------------------------------------------------------------------------
(* The handler *)

RunAt(w, at) == workers[w] # "down" /\ run[w].at = at

Then(w, at) == run' = [run EXCEPT ![w].at = at]

Mine(w) == job[run[w].j]

MyReport(w) == report[Mine(w).of]

\* FENCE_SQL
Owns(w) == run[w].j # 0 /\ Mine(w).owner = w /\ Mine(w).status = "running"

\* A write of the handler that the fence refuses: it yields.
Refused(w, at) == RunAt(w, at) /\ ~Owns(w) /\ Then(w, "dispatch")

TakeDelivery(w, j, k) ==
  /\ workers[w] = "up" /\ run[w].at = "idle"
  /\ deliveries[j][k].st = "waiting"
  /\ deliveries' = [deliveries EXCEPT ![j] = Taken(@, k, w)]
  /\ run' = [run EXCEPT ![w] = [NoHandler EXCEPT !.at = "claim", !.j = j, !.copy = k]]
  /\ UNCHANGED <<report, job, apiVars, pass, processVars, reportFaults>>

\* claimJobOwnership.  A delivery that comes too often yields; a claim that
\* throws fails the BullMQ job and leaves the row to recovery.
ClaimJob(w) ==
  LET free == LiveJob(run[w].j) /\ (Mine(w).owner = None \/ Mine(w).stale) IN
  /\ RunAt(w, "claim")
  /\ \/ /\ free
        /\ job' = [job EXCEPT ![run[w].j] =
             [@ EXCEPT !.status = "running", !.copy = run[w].copy, !.owner = w,
                       !.stale = FALSE]]
        /\ Then(w, "extract") /\ UNCHANGED reportFaults
     \/ ~free /\ Then(w, "settle") /\ UNCHANGED <<job, reportFaults>>
     \/ Fails /\ Then(w, "thrown") /\ UNCHANGED job
  /\ UNCHANGED <<report, deliveries, apiVars, pass, processVars>>

\* The effect on its report of a stage the handler reaches: setStage.
Staged(w, st) ==
  report' = [report EXCEPT ![Mine(w).of].status = st, ![Mine(w).of].fault = FALSE]

\* Mutant: a stage is recorded whoever owns the job.
ReachUnfenced(w, at, st, next) ==
  /\ RunAt(w, at)
  /\ Staged(w, st)
  /\ job' = [job EXCEPT ![run[w].j].status = "running"]
  /\ Then(w, next) /\ UNCHANGED reportFaults

\* A stage of the pipeline begins, unless the fence refuses it or it throws.
Reach(w, at, st, next) ==
  /\ UNCHANGED job
  /\ \/ RunAt(w, at) /\ Owns(w) /\ Staged(w, st) /\ Then(w, next) /\ UNCHANGED reportFaults
     \/ Refused(w, at) /\ UNCHANGED <<report, reportFaults>>
     \/ /\ RunAt(w, at) /\ Owns(w) /\ Fails /\ UNCHANGED report
        /\ run' = [run EXCEPT ![w].at = "failReport", ![w].why = "other"]

\* Fetching, extraction and candidates; and after the AI the matching of them.
Extract(w) ==
  /\ \/ Reach(w, "extract", "working", "begin")
     \/ Reach(w, "ai", "working", "outcome")
  /\ UNCHANGED <<deliveries, apiVars, pass, processVars>>

\* What was fetched is of no use; or setStage('analyzing'), after which a request
\* to cancel that was made so far is taken back.  A retry may come here at once.
BeginAi(w) ==
  /\ RunAt(w, "begin") \/ RunAt(w, "extract")
  /\ \/ run' = [run EXCEPT ![w].at = "failReport", ![w].why = "other"] /\ UNCHANGED report
     \/ ~Owns(w) /\ Then(w, "dispatch") /\ UNCHANGED report
     \/ /\ Owns(w) /\ Then(w, "ai")
        /\ report' = [report EXCEPT ![Mine(w).of] =
                        [status |-> "analyzing", fault |-> FALSE, cancel |-> FALSE]]
  /\ UNCHANGED <<job, deliveries, apiVars, pass, processVars, reportFaults>>

\* The analysis ends without a result: in a failure, at a request to cancel, at
\* the signal of a shutdown, or because the heartbeat was not confirmed.
StopAi(w) ==
  /\ RunAt(w, "ai")
  /\ \/ /\ \E why \in {"transient", "other", "cancelled"} :
             /\ why = "cancelled" => MyReport(w).cancel
             /\ run' = [run EXCEPT ![w].at = "failReport", ![w].why = why]
        /\ UNCHANGED reportFaults
     \/ workers[w] = "closing" /\ Then(w, "requeue") /\ UNCHANGED reportFaults
     \/ ~Owns(w) /\ Then(w, "dispatch") /\ UNCHANGED reportFaults
     \/ Fails /\ Then(w, "dispatch")
  /\ UNCHANGED <<report, job, deliveries, apiVars, pass, processVars>>

\* The outcome: results, report and job in one fenced transaction.
PersistOutcome(w) ==
  /\ \/ /\ RunAt(w, "outcome") /\ Owns(w) /\ MayEnd(run[w].j)
        /\ report' = [report EXCEPT ![Mine(w).of] =
                        [status |-> "review", fault |-> FALSE, cancel |-> FALSE]]
        /\ job' = [job EXCEPT ![run[w].j].status = "completed"]
        /\ Then(w, "dispatch") /\ UNCHANGED reportFaults
     \/ Refused(w, "outcome") /\ UNCHANGED <<report, job, reportFaults>>
     \/ /\ RunAt(w, "outcome") /\ Owns(w) /\ Fails /\ UNCHANGED <<report, job>>
        /\ run' = [run EXCEPT ![w].at = "failReport", ![w].why = "other"]
  /\ UNCHANGED <<deliveries, apiVars, pass, processVars>>

\* Mutant: the report is marked failed whoever owns the job.
FailReportUnfenced(w) ==
  /\ RunAt(w, "failReport")
  /\ report' = [report EXCEPT ![Mine(w).of].status = "failed",
                              ![Mine(w).of].fault = TRUE]
  /\ Then(w, "failJob")
  /\ UNCHANGED <<job, deliveries, apiVars, pass, processVars, reportFaults>>

\* A failure is written to the report ...; when that throws, the pipeline's
\* catch block writes it once more or throws itself.
FailReport(w) ==
  /\ \/ /\ RunAt(w, "failReport") /\ Owns(w) /\ MayEnd(run[w].j)
        /\ report' = [report EXCEPT ![Mine(w).of] =
             [status |-> "failed", fault |-> TRUE,
              cancel |-> @.cancel /\ run[w].why # "cancelled"]]
        /\ Then(w, "failJob") /\ UNCHANGED reportFaults
     \/ Refused(w, "failReport") /\ UNCHANGED <<report, reportFaults>>
     \/ RunAt(w, "failReport") /\ Fails /\ Then(w, "thrown") /\ UNCHANGED report
  /\ UNCHANGED <<job, deliveries, apiVars, pass, processVars>>

\* ... and then to the job.  A failure that may pass is retried automatically,
\* but not by a process that shuts down.
FailJob(w) ==
  /\ \/ /\ RunAt(w, "failJob") /\ Owns(w) /\ MayEnd(run[w].j)
        /\ job' = [job EXCEPT ![run[w].j].status = "failed"]
        /\ Then(w, IF run[w].why = "transient" /\ workers[w] = "up" THEN "auto"
                   ELSE "dispatch")
        /\ UNCHANGED reportFaults
     \/ Refused(w, "failJob") /\ UNCHANGED <<job, reportFaults>>
     \/ /\ RunAt(w, "failJob") /\ Fails /\ UNCHANGED job
        /\ Then(w, "failReport") \/ Then(w, "thrown")
  /\ UNCHANGED <<report, deliveries, apiVars, pass, processVars>>

\* maybeScheduleAutoRetry reads the report ...
AutoRetry(w) ==
  /\ RunAt(w, "auto")
  /\ Then(w, IF MyReport(w).status = "failed" /\ ~MyReport(w).cancel THEN "create"
             ELSE "dispatch")
  /\ UNCHANGED <<report, job, deliveries, apiVars, pass, processVars, reportFaults>>

\* ... creates a job for later, unless there is one ...
CreateAuto(w) ==
  /\ RunAt(w, "create")
  /\ \/ /\ LiveJobsOf(Mine(w).of) = {} /\ UnusedJobs # {}
        /\ job' = [job EXCEPT ![Min(UnusedJobs)] = NewJob(Mine(w).of, FALSE)]
        /\ run' = [run EXCEPT ![w].at = "row", ![w].new = Min(UnusedJobs)]
     \/ /\ LiveJobsOf(Mine(w).of) # {} \/ UnusedJobs = {}
        /\ Then(w, "dispatch") /\ UNCHANGED job
  /\ UNCHANGED <<report, deliveries, apiVars, pass, processVars, reportFaults>>

\* ... writes its row, and then the report; an error is only logged.
AutoRow(w) ==
  /\ RunAt(w, "row")
  /\ \/ /\ job' = [job EXCEPT ![run[w].new].status = "queued"]
        /\ Then(w, "pending") /\ UNCHANGED reportFaults
     \/ Fails /\ Then(w, "dispatch") /\ UNCHANGED job
  /\ UNCHANGED <<report, deliveries, apiVars, pass, processVars>>

AutoPending(w) ==
  /\ RunAt(w, "pending")
  /\ \/ report' = Pending(Mine(w).of) /\ UNCHANGED reportFaults
     \/ Fails /\ UNCHANGED report
  /\ Then(w, "dispatch")
  /\ UNCHANGED <<job, deliveries, apiVars, pass, processVars>>

\* requeueAfterShutdown: requeueOwnedJob, and then the report, which is not
\* fenced.
RequeueJob(w) ==
  /\ RunAt(w, "requeue")
  /\ \/ Owns(w) /\ job' = Requeued(run[w].j) /\ Then(w, "requeued") /\ UNCHANGED reportFaults
     \/ ~Owns(w) /\ Then(w, "dispatch") /\ UNCHANGED <<job, reportFaults>>
     \/ Fails /\ Then(w, "dispatch") /\ UNCHANGED job
  /\ UNCHANGED <<report, deliveries, apiVars, pass, processVars>>

RequeueReport(w) ==
  /\ RunAt(w, "requeued")
  /\ \/ report' = Pending(Mine(w).of) /\ UNCHANGED reportFaults
     \/ Fails /\ UNCHANGED report
  /\ Then(w, "dispatch")
  /\ UNCHANGED <<job, deliveries, apiVars, pass, processVars>>

\* The finally block: releaseSlotAndDispatch.
HandlerDispatch(w) ==
  /\ \/ RunAt(w, "dispatch") /\ Then(w, "settle")
     \/ RunAt(w, "thrown") /\ Then(w, "raised")
     \/ RunAt(w, "marked") /\ Then(w, "settle")
  /\ Dispatch
  /\ UNCHANGED <<report, apiVars, pass, processVars>>

\* BullMQ emits 'failed': an analyzing report is marked, if the handler had
\* claimed the job and still owns it ...
MarkReport(w) ==
  /\ RunAt(w, "raised")
  /\ \/ /\ Owns(w) /\ MayEnd(run[w].j) /\ UNCHANGED reportFaults
        /\ report' = IF MyReport(w).status = "analyzing"
                     THEN [report EXCEPT ![Mine(w).of].status = "failed",
                                         ![Mine(w).of].fault = TRUE] ELSE report
        /\ Then(w, "markJob")
     \/ ~Owns(w) /\ Then(w, "marked") /\ UNCHANGED <<report, reportFaults>>
     \/ Fails /\ Then(w, "marked") /\ UNCHANGED report
  /\ UNCHANGED <<job, deliveries, apiVars, pass, processVars>>

\* ... and then the job.
MarkJob(w) ==
  /\ RunAt(w, "markJob")
  /\ \/ /\ Owns(w) /\ MayEnd(run[w].j) /\ UNCHANGED reportFaults
        /\ job' = [job EXCEPT ![run[w].j].status = "failed"]
     \/ ~Owns(w) /\ UNCHANGED <<job, reportFaults>>
     \/ Fails /\ UNCHANGED job
  /\ Then(w, "marked")
  /\ UNCHANGED <<report, deliveries, apiVars, pass, processVars>>

\* The tokens of a handler that is no more.
Abandoned(w) ==
  [j \in ReportJobs |-> IF job[j].owner = w THEN [job[j] EXCEPT !.owner = "gone"]
                        ELSE job[j]]

\* The handler is over, and so is its BullMQ job.
SettleDelivery(w) ==
  /\ RunAt(w, "settle")
  /\ deliveries' = [deliveries EXCEPT ![run[w].j] = Settled(@, run[w].copy, w)]
  /\ job' = Abandoned(w)
  /\ run' = [run EXCEPT ![w] = NoHandler]
  /\ UNCHANGED <<report, apiVars, pass, processVars, reportFaults>>

-----------------------------------------------------------------------------
(* The heartbeat, BullMQ and the clock *)

\* Until the finally block the handler beats every fifteen seconds.
Beating(w) ==
  /\ workers[w] # "down"
  /\ run[w].at \notin {"idle", "claim", "dispatch", "settle", "thrown", "raised",
                       "markJob", "marked"}

BeatJob(w) ==
  /\ Beating(w) /\ Owns(w) /\ Mine(w).stale
  /\ job' = [job EXCEPT ![run[w].j].stale = FALSE]
  /\ UNCHANGED <<report, deliveries, apiVars, run, pass, processVars, reportFaults>>

\* Nobody has confirmed the token for two minutes: the handler is over ...
GrowStale(j) ==
  /\ LiveJob(j) /\ job[j].owner # None /\ ~job[j].stale
  /\ job[j].owner \in Analysts => ~Beating(job[j].owner)
  /\ job' = [job EXCEPT ![j].stale = TRUE]
  /\ UNCHANGED <<report, deliveries, apiVars, run, pass, processVars, reportFaults>>

\* ... or its process is paused.
Pause(w) ==
  /\ Beating(w) /\ Owns(w) /\ ~Mine(w).stale
  /\ Fails
  /\ job' = [job EXCEPT ![run[w].j].stale = TRUE]
  /\ UNCHANGED <<report, deliveries, apiVars, run, pass, processVars>>

\* not_before passes.
BecomeDue(j) ==
  /\ job[j].status = "queued" /\ ~job[j].due
  /\ job' = [job EXCEPT ![j].due = TRUE]
  /\ UNCHANGED <<report, deliveries, apiVars, run, pass, processVars, reportFaults>>

\* BullMQ takes back a job whose lock has lapsed: two hours after its process
\* died, or was paused.
StallDelivery(j, k) ==
  /\ \E w \in Analysts : workers[w] = "up"
  /\ deliveries[j][k].st = "active"
  /\ ~\E w \in Analysts : run[w].j = j /\ run[w].copy = k
  /\ deliveries' = [deliveries EXCEPT ![j] = TakenBack(@, k)]
  /\ UNCHANGED <<report, job, apiVars, run, pass, processVars, reportFaults>>

PauseDelivery(w) ==
  /\ run[w].at # "idle" /\ deliveries[run[w].j][run[w].copy].st = "active"
  /\ Fails
  /\ deliveries' = [deliveries EXCEPT ![run[w].j] = TakenBack(@, run[w].copy)]
  /\ UNCHANGED <<report, job, apiVars, run, pass, processVars>>

-----------------------------------------------------------------------------
(* Recovery: the safety timer and, after a start, performStartupRecovery,    *)
(* which in the code may also run side by side in one process.               *)

Recovering(w, at) == workers[w] # "down" /\ pass[w].at = at

\* failStaleActiveJobs: jobs that were active before the start, unless their row
\* has an owner that is heard of.
FailStaleActive(w) ==
  LET heard(j, k) == /\ job[j].copy = k /\ job[j].status = "running"
                     /\ job[j].owner # None /\ ~job[j].stale
      left == {d \in pass[w].old : ~heard(d[1], d[2])}
  IN /\ Recovering(w, "startup")
     /\ deliveries' = [j \in ReportJobs |-> [k \in Copy |->
          IF <<j, k>> \in left /\ deliveries[j][k].st = "active"
          THEN [deliveries[j][k] EXCEPT !.st = "ended", !.by = None]
          ELSE deliveries[j][k]]]
     /\ pass' = [pass EXCEPT ![w] = [NoRecovery EXCEPT !.at = "read"]]
     /\ UNCHANGED <<report, job, apiVars, run, processVars, reportFaults>>

\* Mutant: only rows that run are looked at.
InterruptedRunning ==
  {f \in Finding : /\ LiveJob(f.j) /\ job[f.j].copy = f.copy
                   /\ f.running = (job[f.j].status = "running")
                   /\ f.running /\ job[f.j].stale}

\* recoverInterruptedAnalysisJobs: rows with a BullMQ job, running under a stale
\* token or not claimed so far.
Interrupted ==
  {f \in Finding : /\ LiveJob(f.j) /\ job[f.j].copy = f.copy
                   /\ f.running = (job[f.j].status = "running")
                   /\ f.running => job[f.j].owner = None \/ job[f.j].stale}

\* There is something to look at when the timer fires, or after the start.
ReadInterrupted(w) ==
  /\ \/ Recovering(w, "read")
     \/ Recovering(w, "idle") /\ workers[w] = "up"
  /\ Interrupted # {}
  /\ pass' = [pass EXCEPT ![w] = [NoRecovery EXCEPT !.at = "recover", !.todo = Interrupted]]
  /\ UNCHANGED <<report, job, deliveries, apiVars, run, processVars, reportFaults>>

\* One of the rows.  A BullMQ job that has ended stays so: whether it is alive is
\* asked in the step that writes.
RecoverJob(w) ==
  /\ Recovering(w, "recover")
  /\ \E f \in pass[w].todo :
       LET stale == job[f.j].status = "running" /\ (job[f.j].owner = None \/ job[f.j].stale)
           lost == ~f.running /\ deliveries[f.j][f.copy].st \in {"absent", "ended"}
       IN \/ /\ f.running /\ stale
             /\ job' = Requeued(f.j)
             /\ pass' = [pass EXCEPT ![w].todo = @ \ {f}, ![w].at = "pending",
                                     ![w].cur = f.j]
          \/ /\ ~(f.running /\ stale)
             /\ job' = IF lost /\ job[f.j].status = "queued"
                       THEN [job EXCEPT ![f.j].copy = 0] ELSE job
             /\ pass' = [pass EXCEPT ![w].todo = @ \ {f}]
  /\ UNCHANGED <<report, deliveries, apiVars, run, processVars, reportFaults>>

\* The report of a row that was given back, which is not fenced.
RecoverReport(w) ==
  /\ Recovering(w, "pending")
  /\ report' = Pending(job[pass[w].cur].of)
  /\ pass' = [pass EXCEPT ![w].at = "recover", ![w].cur = 0]
  /\ UNCHANGED <<job, deliveries, apiVars, run, processVars, reportFaults>>

\* Afterwards, or at once when there is nothing.
RecoverDispatch(w) ==
  /\ \/ Recovering(w, "recover") /\ pass[w].todo = {}
     \/ Recovering(w, "read") /\ Interrupted = {}
     \/ Recovering(w, "idle") /\ workers[w] = "up" /\ Interrupted = {}
  /\ pass' = [pass EXCEPT ![w] = NoRecovery]
  /\ Dispatch
  /\ UNCHANGED <<report, apiVars, run, processVars>>

-----------------------------------------------------------------------------
(* The worker process *)

\* SIGTERM: the handler's signal is raised, and worker.close waits for it ...
CloseWorker(w) ==
  /\ workers[w] = "up" /\ kills < MaxKills
  /\ kills' = kills + 1
  /\ workers' = [workers EXCEPT ![w] = "closing"]
  /\ UNCHANGED <<report, job, deliveries, apiVars, run, pass, reportFaults>>

Ended(w) ==
  /\ workers' = [workers EXCEPT ![w] = "down"]
  /\ job' = Abandoned(w)
  /\ run' = [run EXCEPT ![w] = NoHandler]
  /\ pass' = [pass EXCEPT ![w] = NoRecovery]
  /\ UNCHANGED <<report, deliveries, apiVars, reportFaults>>

\* ... or is cut short, as by a crash.
CrashWorker(w) ==
  \/ workers[w] = "up" /\ kills < MaxKills /\ kills' = kills + 1 /\ Ended(w)
  \/ workers[w] = "closing" /\ UNCHANGED kills /\ Ended(w)

\* On 'ready' the start-up recovery begins.
StartWorker(w) ==
  /\ workers[w] = "down"
  /\ workers' = [workers EXCEPT ![w] = "up"]
  /\ pass' = [pass EXCEPT ![w] = [NoRecovery EXCEPT !.at = "startup",
       !.old = {d \in ReportJobs \X Copy : deliveries[d[1]][d[2]].st = "active"}]]
  /\ UNCHANGED <<report, job, deliveries, apiVars, run, kills, reportFaults>>

Requesting ==
  \/ \E r \in Reports : CreateJob(r) \/ RetryRace(r) \/ CreateRetry(r)
  \/ \E j \in ReportJobs : MakeReport(j) \/ MakeRow(j)
  \/ MakeDispatch

Handling(w) ==
  \/ ClaimJob(w) \/ Extract(w) \/ BeginAi(w) \/ StopAi(w) \/ PersistOutcome(w)
  \/ FailReport(w) \/ FailJob(w) \/ AutoRetry(w) \/ CreateAuto(w) \/ AutoRow(w)
  \/ AutoPending(w) \/ RequeueJob(w) \/ RequeueReport(w) \/ HandlerDispatch(w)
  \/ MarkReport(w) \/ MarkJob(w) \/ SettleDelivery(w)

Take(w) == \E j \in ReportJobs, k \in Copy : TakeDelivery(w, j, k)

Recovery(w) ==
  \/ FailStaleActive(w) \/ ReadInterrupted(w) \/ RecoverJob(w) \/ RecoverReport(w)
  \/ RecoverDispatch(w)

Passage(j) == GrowStale(j) \/ BecomeDue(j) \/ \E k \in Copy : StallDelivery(j, k)

ReportNext ==
  \/ Requesting \/ AbandonRequest
  \/ \E r \in Reports : \/ ImportReport(r) \/ AskRetry(r)
                        \/ CancelUnclaimed(r) \/ RequestAnalysisCancel(r)
  \/ \E w \in Analysts : \/ Take(w) \/ Handling(w) \/ BeatJob(w) \/ Recovery(w)
                         \/ Pause(w) \/ PauseDelivery(w)
                         \/ CloseWorker(w) \/ CrashWorker(w) \/ StartWorker(w)
  \/ \E j \in ReportJobs : Passage(j)

-----------------------------------------------------------------------------
(* Properties *)

\* A report has at most one job that is queued or runs, whoever asks for a retry
\* at the same time, and however often BullMQ delivers a job.
OneLiveJob == \A r \in Reports : Cardinality(LiveJobsOf(r)) <= 1

\* A job that has ended stays so: no handler that lost it, no recovery and no
\* second delivery starts it again.
JobEndsOnce ==
  [][\A j \in ReportJobs :
       job[j].status \in {"completed", "failed"} => job'[j].status = job[j].status]_reportOwn

\* A report whose analysis is complete stays ready for review: no handler that
\* lost its job reports a stage or a failure for it.
OutcomeKept ==
  [][\A r \in Reports : report[r].status = "review" => report'[r].status = "review"]_reportOwn

=============================================================================
