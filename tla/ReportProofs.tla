---------------------------- MODULE ReportProofs ----------------------------
(***************************************************************************)
(* Report analyses for any number of reports, rows, BullMQ jobs and        *)
(* workers.  Without Late, that is, when no statement that is not fenced   *)
(* outlasts the analysis it writes to, a report has one live job at most,  *)
(* a job ends once, and a report that is ready for review stays so.  With  *)
(* or without it the types hold, only unfenced statements start an ended   *)
(* job again, and only they, or a live job, overwrite a report in review.  *)
(*                                                                         *)
(* The argument: a step keeps or ends rows, starts one again that is live, *)
(* or creates one for a report that has none live.  Whoever is about to    *)
(* write without a fence, a request, an automatic retry, a shutdown or     *)
(* recovery, holds a row that is live, because without Late nobody ends    *)
(* such a row.  So what is written to reports is written for a live job,   *)
(* and a report is ready for review only when it has none left.            *)
(***************************************************************************)
EXTENDS ReportAnalysis, TLAPS, FiniteSetTheorems, WellFoundedInduction

\* The system without fairness.
ReportSpec == ReportInit /\ [][ReportNext]_reportOwn

-----------------------------------------------------------------------------
(* Types *)

\* The stages of a handler.
Stages == {"idle", "claim", "extract", "begin", "ai", "outcome", "failReport",
           "failJob", "auto", "create", "row", "pending", "requeue", "requeued",
           "dispatch", "settle", "thrown", "raised", "markJob", "marked"}

\* The BullMQ jobs in Redis.
DeliveryStore == [ReportJobs -> [Copy -> JobEntry(Analysts)]]

\* A recovery pass of a worker, as one record.
RecoveryState ==
  [at : {"idle", "startup", "read", "recover", "pending"}, todo : SUBSET Finding,
   old : SUBSET (ReportJobs \X Copy), cur : 0 .. MaxReportJobs]

\* A handler at work has a BullMQ job.
HasDelivery(h) == h.at # "idle" => h.j \in ReportJobs /\ h.copy \in Copy

\* The handlers.
RunTyped == /\ run \in [Analysts -> Handler]
            /\ \A w \in Analysts : HasDelivery(run[w])

\* The requests.
ApiTyped == /\ importing \subseteq Reports
            /\ asking \in [Reports -> {"no", "create", "race", "dispatch"}]
            /\ maker \in [ReportJobs -> {"no", "report", "row", "dispatch"}]

\* PostgreSQL and Redis.
StoreTyped == /\ report \in [Reports -> ReportRow]
              /\ job \in [ReportJobs -> ReportJob]

\* The type invariant, with what a handler needs to name its BullMQ job.
TypeInv ==
  /\ StoreTyped /\ ApiTyped /\ RunTyped
  /\ deliveries \in DeliveryStore
  /\ pass \in [Analysts -> RecoveryState]
  /\ workers \in [Analysts -> {"up", "closing", "down"}]
  /\ reportFaults \in 0 .. MaxReportFaults
  /\ kills \in 0 .. MaxKills

\* A set of numbers that is not empty has a smallest one.
LEMMA Smallest ==
  ASSUME NEW S \in SUBSET Nat, S # {}
  PROVE  Min(S) \in S
<1> DEFINE R == OpToRel(<, Nat)
<1>1. \E x \in S : \A y \in S : <<y, x>> \notin R
  <2> HIDE DEF R
  <2> QED
    BY NatLessThanWellFounded, WFMin DEF R
<1>2. ASSUME NEW x \in Nat, NEW y \in Nat, y < x PROVE <<y, x>> \in R
  <2>1. R = {p \in Nat \X Nat : p[1] < p[2]}
    BY Zenon DEF OpToRel
  <2> HIDE DEF R
  <2> QED
    BY <1>2, <2>1
<1> HIDE DEF R
<1>3. PICK x \in S : \A y \in S : <<y, x>> \notin R
  BY <1>1
<1>4. ASSUME NEW y \in S PROVE x <= y
  <2>1. x \in Nat /\ y \in Nat /\ ~(y < x)
    BY <1>2, <1>3
  <2> QED
    BY <2>1
<1> QED
  BY <1>4 DEF Min

\* The next row to be created, and the name of a BullMQ job.
LEMMA Picked ==
  /\ UnusedJobs # {} => Min(UnusedJobs) \in UnusedJobs
  /\ UnusedJobs \subseteq ReportJobs
  /\ \A j : Spare(j) # {} => Min(Spare(j)) \in Copy
<1>1. UnusedJobs \subseteq ReportJobs /\ \A j : Spare(j) \subseteq Copy
  BY DEF UnusedJobs, Spare
<1>2. ReportJobs \subseteq Nat /\ Copy \subseteq Nat
  BY ReportAssumption DEF ReportJobs, Copy
<1> QED
  BY <1>1, <1>2, Smallest

\* What BullMQ does to its jobs of a row.
LEMMA EntryType ==
  ASSUME NEW q \in [Copy -> JobEntry(Analysts)], NEW k \in Copy
  PROVE  /\ Added(q, k) \in [Copy -> JobEntry(Analysts)]
         /\ TakenBack(q, k) \in [Copy -> JobEntry(Analysts)]
         /\ \A w \in Analysts : /\ Taken(q, k, w) \in [Copy -> JobEntry(Analysts)]
                                /\ Settled(q, k, w) \in [Copy -> JobEntry(Analysts)]
<1>1. q[k] \in JobEntry(Analysts) /\ q[k].stalls \in 0 .. MaxStalledCount
  BY DEF JobEntry
<1>2. [NoEntry EXCEPT !.st = "waiting"] \in JobEntry(Analysts)
  BY QueueAssumption DEF JobEntry, NoEntry
<1>3. \A w \in Analysts : [q[k] EXCEPT !.st = "active", !.by = w] \in JobEntry(Analysts)
  BY <1>1 DEF JobEntry
<1>4. [q[k] EXCEPT !.st = "ended", !.by = None] \in JobEntry(Analysts)
  BY <1>1 DEF JobEntry
<1>5. ~GivenUp(q, k) => q[k].stalls + 1 \in 0 .. MaxStalledCount
  BY <1>1, QueueAssumption DEF GivenUp
<1>6. ~GivenUp(q, k)
        => [st |-> "waiting", by |-> None, stalls |-> q[k].stalls + 1] \in JobEntry(Analysts)
  BY <1>5 DEF JobEntry
<1> QED
  BY <1>2, <1>3, <1>4, <1>6 DEF Added, Taken, Settled, TakenBack

\* What the type invariant says of the single variables.
LEMMA Typed ==
  ASSUME TypeInv
  PROVE  /\ report \in [Reports -> ReportRow]
         /\ job \in [ReportJobs -> ReportJob]
         /\ deliveries \in DeliveryStore
         /\ run \in [Analysts -> Handler]
         /\ pass \in [Analysts -> RecoveryState]
         /\ reportFaults \in 0 .. MaxReportFaults
         /\ Fails => reportFaults' \in 0 .. MaxReportFaults
<1>1. MaxReportFaults \in Nat
  BY ReportAssumption
<1> QED
  BY <1>1 DEF TypeInv, StoreTyped, RunTyped, Fails

\* The BullMQ jobs of the rows S are added, and named in the rows T.
DispatchTo(S, T) ==
  /\ deliveries' = [j \in ReportJobs |-> IF j \in S THEN Added(deliveries[j], Min(Spare(j)))
                                         ELSE deliveries[j]]
  /\ job' = [j \in ReportJobs |-> IF j \in T THEN [job[j] EXCEPT !.copy = Min(Spare(j))]
                                  ELSE job[j]]

\* A dispatch that fails may add BullMQ jobs that no row names.
LEMMA DispatchChosen ==
  ASSUME TypeInv, Dispatch
  PROVE  \E S, T \in SUBSET Chosen : DispatchTo(S, T)
<1>1. job = [j \in ReportJobs |-> job[j]]
  BY Typed
<1>2. CASE DispatchTo(Chosen, Chosen)
  BY <1>2
<1>3. CASE /\ UNCHANGED job
           /\ \E n \in 0 .. Limit :
                deliveries' = [j \in ReportJobs |->
                  IF j \in Oldest(Chosen, n) THEN Added(deliveries[j], Min(Spare(j)))
                  ELSE deliveries[j]]
  <2>1. PICK n \in 0 .. Limit :
          deliveries' = [j \in ReportJobs |->
            IF j \in Oldest(Chosen, n) THEN Added(deliveries[j], Min(Spare(j)))
            ELSE deliveries[j]]
    BY <1>3
  <2>2. DispatchTo(Oldest(Chosen, n), {})
    BY <1>1, <1>3, <2>1 DEF DispatchTo
  <2>3. Oldest(Chosen, n) \subseteq Chosen
    BY DEF Oldest
  <2> QED
    BY <2>2, <2>3
<1>4. \/ DispatchTo(Chosen, Chosen)
      \/ /\ UNCHANGED job
         /\ \E n \in 0 .. Limit :
              deliveries' = [j \in ReportJobs |->
                IF j \in Oldest(Chosen, n) THEN Added(deliveries[j], Min(Spare(j)))
                ELSE deliveries[j]]
  BY DEF Dispatch, DispatchTo
<1> QED
  BY <1>2, <1>3, <1>4

\* It changes no status.
LEMMA DispatchEffect ==
  ASSUME TypeInv, Dispatch
  PROVE  /\ job' \in [ReportJobs -> ReportJob]
         /\ deliveries' \in DeliveryStore
         /\ reportFaults' \in 0 .. MaxReportFaults
         /\ \A j \in ReportJobs : /\ job'[j].status = job[j].status
                                  /\ job'[j].of = job[j].of
<1>1. PICK S, T \in SUBSET Chosen : DispatchTo(S, T)
  BY DispatchChosen
<1>2. \A j \in Chosen : j \in ReportJobs /\ Min(Spare(j)) \in Copy
  BY Picked DEF Chosen, Oldest, Waiting
<1>3. \A j \in ReportJobs : job[j] \in ReportJob /\ deliveries[j] \in [Copy -> JobEntry(Analysts)]
  BY Typed DEF DeliveryStore
<1>4. Copy \subseteq 0 .. Copies
  BY ReportAssumption DEF Copy
<1>5. \A j \in Chosen : Added(deliveries[j], Min(Spare(j))) \in [Copy -> JobEntry(Analysts)]
  BY <1>2, <1>3, EntryType
<1>6. deliveries' \in DeliveryStore
  BY <1>1, <1>3, <1>5 DEF DispatchTo, DeliveryStore
<1>7. \A j \in Chosen : LET x == [job[j] EXCEPT !.copy = Min(Spare(j))]
                        IN x \in ReportJob /\ x.status = job[j].status /\ x.of = job[j].of
  BY <1>2, <1>3, <1>4 DEF ReportJob
<1>8. job' \in [ReportJobs -> ReportJob]
  BY <1>1, <1>3, <1>7 DEF DispatchTo
<1>9. \A j \in ReportJobs : job'[j].status = job[j].status /\ job'[j].of = job[j].of
  BY <1>1, <1>3, <1>7 DEF DispatchTo
<1>10. reportFaults' \in 0 .. MaxReportFaults
  BY Typed DEF Dispatch
<1> QED
  BY <1>6, <1>8, <1>9, <1>10

-----------------------------------------------------------------------------
(* Types: the requests *)

\* A step of the API, of a request or of time that is not the start of a handler.
LEMMA NewJobType ==
  ASSUME NEW r \in Reports \cup {None}, NEW due \in BOOLEAN
  PROVE  /\ NewJob(r, due) \in ReportJob
         /\ NewJob(r, due).status = "queued" /\ NewJob(r, due).of = r
<1>1. NoReportJob \in ReportJob
  BY ReportAssumption DEF NoReportJob, ReportJob
<1> QED
  BY <1>1 DEF NewJob, ReportJob

\* Requests write reports, rows and what they have still to do.
LEMMA TypeReportRequest ==
  ASSUME TypeInv, NEW r \in Reports,
         \/ ImportReport(r) \/ CreateJob(r) \/ AskRetry(r) \/ RetryRace(r) \/ CreateRetry(r)
         \/ CancelUnclaimed(r) \/ RequestAnalysisCancel(r)
  PROVE  TypeInv'
<1>1. StoreTyped /\ ApiTyped
  BY DEF TypeInv
<1>2. UNCHANGED <<deliveries, run, pass, workers, kills, reportFaults>>
  BY DEF ImportReport, CreateJob, AskRetry, RetryRace, CreateRetry, CancelUnclaimed,
     RequestAnalysisCancel, processVars
<1>3. /\ NewJob(r, TRUE) \in ReportJob
      /\ UnusedJobs # {} => Min(UnusedJobs) \in ReportJobs
  BY NewJobType, Picked
<1>4. report' \in [Reports -> ReportRow]
  <2>1. CASE ImportReport(r)
    BY <1>1, <2>1 DEF StoreTyped, ReportRow, ImportReport, Pending
  <2>2. CASE RetryRace(r)
    BY <1>1, <2>2 DEF StoreTyped, ReportRow, RetryRace
  <2>3. CASE CancelUnclaimed(r) \/ RequestAnalysisCancel(r)
    <3>1. report' = [report EXCEPT ![r].cancel = TRUE]
      BY <2>3 DEF CancelUnclaimed, RequestAnalysisCancel
    <3> QED
      BY <1>1, <3>1 DEF StoreTyped, ReportRow
  <2>4. CASE UNCHANGED report
    BY <1>1, <2>4 DEF StoreTyped
  <2> QED
    BY <2>1, <2>2, <2>3, <2>4 DEF CreateJob, AskRetry, CreateRetry
<1>5. job' \in [ReportJobs -> ReportJob]
  <2>1. CASE CreateJob(r) \/ CreateRetry(r)
    BY <1>1, <1>3, <2>1 DEF StoreTyped, CreateJob, CreateRetry
  <2>2. CASE AskRetry(r)
    <3>1. PICK S : job' = [j \in ReportJobs |-> IF j \in S THEN [job[j] EXCEPT !.due = TRUE]
                                               ELSE job[j]]
      BY <2>2 DEF AskRetry
    <3>2. \A x \in ReportJob : [x EXCEPT !.due = TRUE] \in ReportJob
      BY DEF ReportJob
    <3> QED
      BY <1>1, <3>1, <3>2 DEF StoreTyped
  <2>3. CASE CancelUnclaimed(r)
    BY <1>1, <2>3 DEF StoreTyped, CancelUnclaimed, ReportJob
  <2>4. CASE UNCHANGED job
    BY <1>1, <2>4 DEF StoreTyped
  <2> QED
    BY <2>1, <2>2, <2>3, <2>4 DEF ImportReport, RetryRace, RequestAnalysisCancel
<1>6. ApiTyped'
  <2>1. CASE UNCHANGED <<importing, maker>>
    BY <1>1, <2>1 DEF ApiTyped, ImportReport, CreateJob, AskRetry, RetryRace, CreateRetry,
       CancelUnclaimed, RequestAnalysisCancel, apiVars
  <2>2. CASE ImportReport(r) \/ CreateJob(r) \/ CreateRetry(r)
    BY <1>1, <1>3, <2>2 DEF ApiTyped, ImportReport, CreateJob, CreateRetry
  <2> QED
    BY <2>1, <2>2 DEF AskRetry, RetryRace, CancelUnclaimed, RequestAnalysisCancel, apiVars
<1> QED
  BY <1>1, <1>2, <1>4, <1>5, <1>6 DEF TypeInv, StoreTyped, RunTyped, HasDelivery

\* The statements of a request that has created its job.
LEMMA TypeJobRequest ==
  ASSUME TypeInv, NEW j \in ReportJobs, MakeReport(j) \/ MakeRow(j)
  PROVE  TypeInv'
<1>1. StoreTyped /\ ApiTyped
  BY DEF TypeInv
<1>2. UNCHANGED <<deliveries, importing, asking, run, pass, workers, kills, reportFaults>>
  BY DEF MakeReport, MakeRow, processVars
<1>3. report' \in [Reports -> ReportRow]
  <2>1. CASE MakeReport(j)
    BY <1>1, <2>1 DEF StoreTyped, MakeReport, ReportRow
  <2> QED
    BY <1>1, <2>1 DEF StoreTyped, MakeRow
<1>4. job' \in [ReportJobs -> ReportJob]
  BY <1>1 DEF StoreTyped, MakeReport, MakeRow, ReportJob
<1>5. maker' \in [ReportJobs -> {"no", "report", "row", "dispatch"}]
  BY <1>1 DEF ApiTyped, MakeReport, MakeRow
<1> QED
  BY <1>1, <1>2, <1>3, <1>4, <1>5 DEF TypeInv, StoreTyped, ApiTyped, RunTyped, HasDelivery

\* Requests that dispatch, or end half-way.
LEMMA TypeOtherRequest ==
  ASSUME TypeInv, MakeDispatch \/ AbandonRequest
  PROVE  TypeInv'
<1>1. StoreTyped /\ ApiTyped
  BY DEF TypeInv
<1>2. UNCHANGED <<report, run, pass, workers, kills>>
  BY DEF MakeDispatch, AbandonRequest, processVars
<1>3. /\ job' \in [ReportJobs -> ReportJob] /\ deliveries' \in DeliveryStore
      /\ reportFaults' \in 0 .. MaxReportFaults
  BY Typed, DispatchEffect DEF MakeDispatch, AbandonRequest
<1>4. ApiTyped'
  BY <1>1 DEF ApiTyped, MakeDispatch, AbandonRequest
<1> QED
  BY <1>1, <1>2, <1>3, <1>4 DEF TypeInv, StoreTyped, RunTyped, HasDelivery

-----------------------------------------------------------------------------
(* Types: the handler *)

\* A handler goes on, with the same BullMQ job.
LEMMA ThenType ==
  ASSUME TypeInv, NEW w \in Analysts, run[w].at # "idle",
         \/ \E at \in Stages \ {"idle"} : Then(w, at)
         \/ \E why \in {"no", "transient", "other", "cancelled"} :
              run' = [run EXCEPT ![w].at = "failReport", ![w].why = why]
         \/ \E n \in ReportJobs : run' = [run EXCEPT ![w].at = "row", ![w].new = n]
         \/ run' = run
  PROVE  RunTyped'
<1>1. run \in [Analysts -> Handler] /\ run[w] \in Handler
  BY Typed
<1>2. HasDelivery(run[w]) /\ \A x \in Analysts : HasDelivery(run[x])
  BY DEF TypeInv, RunTyped
<1>3. ReportJobs \subseteq 0 .. MaxReportJobs
  BY ReportAssumption DEF ReportJobs
<1>4. \A x \in Analysts \ {w} : run'[x] = run[x]
  BY <1>1 DEF Then
<1>5. run'[w] \in Handler /\ run'[w].j = run[w].j /\ run'[w].copy = run[w].copy
  BY <1>1, <1>3 DEF Then, Handler, Stages
<1>6. run' \in [Analysts -> Handler]
  BY <1>1, <1>4, <1>5 DEF Then
<1> QED
  BY <1>2, <1>4, <1>5, <1>6 DEF RunTyped, HasDelivery

\* The steps of a handler but the last one.
Works(w) ==
  \/ ClaimJob(w) \/ Extract(w) \/ BeginAi(w) \/ StopAi(w) \/ PersistOutcome(w)
  \/ FailReport(w) \/ FailJob(w) \/ AutoRetry(w) \/ CreateAuto(w) \/ AutoRow(w)
  \/ AutoPending(w) \/ RequeueJob(w) \/ RequeueReport(w) \/ HandlerDispatch(w)
  \/ MarkReport(w) \/ MarkJob(w)

\* A row given back.
LEMMA RequeuedType ==
  ASSUME TypeInv, NEW j
  PROVE  Requeued(j) \in [ReportJobs -> ReportJob]
<1>1. 0 \in 0 .. Copies
  BY ReportAssumption
<1>2. \A x \in ReportJob : [x EXCEPT !.status = "queued", !.copy = 0, !.owner = None,
                                      !.stale = FALSE] \in ReportJob
  BY <1>1 DEF ReportJob
<1> QED
  BY <1>2, Typed DEF Requeued

\* An analysis moves its handler, and no request, recovery or process.
LEMMA WorksRun ==
  ASSUME TypeInv, NEW w \in Analysts, Works(w)
  PROVE  /\ run[w].at # "idle" /\ RunTyped'
         /\ UNCHANGED <<importing, asking, maker, pass, workers, kills>>
<1>1. run[w].at # "idle" /\ UNCHANGED <<importing, asking, maker, pass, workers, kills>>
  BY DEF Works, RunAt, ClaimJob, Extract, Reach, Refused, BeginAi, StopAi, PersistOutcome,
     FailReport, FailJob, AutoRetry, CreateAuto, AutoRow, AutoPending, RequeueJob,
     RequeueReport, HandlerDispatch, MarkReport, MarkJob, apiVars, processVars
<1>2. CASE \/ ClaimJob(w) \/ FailJob(w) \/ AutoRetry(w) \/ AutoRow(w) \/ AutoPending(w)
           \/ RequeueJob(w) \/ RequeueReport(w) \/ HandlerDispatch(w) \/ MarkReport(w)
           \/ MarkJob(w) \/ FailReport(w)
  <2>1. \E at \in Stages \ {"idle"} : Then(w, at)
    BY <1>2 DEF Stages, ClaimJob, FailReport, Refused, FailJob, AutoRetry, AutoRow, AutoPending,
       RequeueJob, RequeueReport, HandlerDispatch, MarkReport, MarkJob
  <2> QED
    BY <1>1, <2>1, ThenType
<1>3. CASE Extract(w) \/ BeginAi(w) \/ StopAi(w) \/ PersistOutcome(w)
  <2>1. \/ \E at \in Stages \ {"idle"} : Then(w, at)
        \/ \E why \in {"no", "transient", "other", "cancelled"} :
             run' = [run EXCEPT ![w].at = "failReport", ![w].why = why]
    BY <1>3 DEF Stages, Extract, Reach, Refused, BeginAi, StopAi, PersistOutcome
  <2> QED
    BY <1>1, <2>1, ThenType
<1>4. CASE CreateAuto(w)
  <2>1. \/ \E at \in Stages \ {"idle"} : Then(w, at)
        \/ \E n \in ReportJobs : run' = [run EXCEPT ![w].at = "row", ![w].new = n]
    BY <1>4, Picked DEF Stages, CreateAuto
  <2> QED
    BY <1>1, <2>1, ThenType
<1> QED
  BY <1>1, <1>2, <1>3, <1>4 DEF Works

\* Every stage of an analysis preserves the types.
LEMMA TypeWorks ==
  ASSUME TypeInv, NEW w \in Analysts, Works(w)
  PROVE  TypeInv'
<1>1. /\ StoreTyped /\ job \in [ReportJobs -> ReportJob] /\ report \in [Reports -> ReportRow]
      /\ ApiTyped
  BY DEF TypeInv, StoreTyped
<1>2. /\ run[w].at # "idle" /\ run[w].j \in ReportJobs /\ run[w] \in Handler
      /\ Mine(w) \in ReportJob /\ run[w].copy \in 0 .. Copies
  BY <1>1, WorksRun, Typed, ReportAssumption DEF TypeInv, RunTyped, HasDelivery, Mine, Copy
<1>3. report' \in [Reports -> ReportRow]
  <2>1. CASE Extract(w)
    <3>1. report' = report \/ Staged(w, "working")
      BY <2>1 DEF Extract, Reach, Refused
    <3> QED
      BY <1>1, <3>1 DEF ReportRow, Staged
  <2>2. CASE BeginAi(w)
    <3>1. \/ report' = report
          \/ report' = [report EXCEPT ![Mine(w).of] =
                          [status |-> "analyzing", fault |-> FALSE, cancel |-> FALSE]]
      BY <2>2 DEF BeginAi
    <3>2. [status |-> "analyzing", fault |-> FALSE, cancel |-> FALSE] \in ReportRow
      BY DEF ReportRow
    <3> QED
      BY <1>1, <3>1, <3>2
  <2>3. CASE PersistOutcome(w)
    <3>1. \/ report' = report
          \/ report' = [report EXCEPT ![Mine(w).of] =
                          [status |-> "review", fault |-> FALSE, cancel |-> FALSE]]
      BY <2>3 DEF PersistOutcome
    <3>2. [status |-> "review", fault |-> FALSE, cancel |-> FALSE] \in ReportRow
      BY DEF ReportRow
    <3> QED
      BY <1>1, <3>1, <3>2
  <2>4. CASE FailReport(w)
    <3>1. \/ report' = report
          \/ report' = [report EXCEPT ![Mine(w).of] =
               [status |-> "failed", fault |-> TRUE,
                cancel |-> @.cancel /\ run[w].why # "cancelled"]]
      BY <2>4 DEF FailReport, Refused
    <3>2. \A x \in ReportRow :
            [status |-> "failed", fault |-> TRUE,
             cancel |-> x.cancel /\ run[w].why # "cancelled"] \in ReportRow
      BY DEF ReportRow
    <3> QED
      BY <1>1, <3>1, <3>2
  <2>5. CASE MarkReport(w)
    <3>1. \/ report' = report
          \/ report' = [report EXCEPT ![Mine(w).of].status = "failed", ![Mine(w).of].fault = TRUE]
      BY <2>5 DEF MarkReport
    <3> QED
      BY <1>1, <3>1 DEF ReportRow
  <2>6. CASE AutoPending(w) \/ RequeueReport(w)
    BY <1>1, <2>6 DEF ReportRow, AutoPending, RequeueReport, Pending
  <2>7. CASE UNCHANGED report
    BY <1>1, <2>7
  <2> QED
    BY <2>1, <2>2, <2>3, <2>4, <2>5, <2>6, <2>7 DEF Works, ClaimJob, StopAi, FailJob, AutoRetry, CreateAuto, AutoRow,
       RequeueJob, HandlerDispatch, MarkJob
<1>4. /\ job' \in [ReportJobs -> ReportJob]
      /\ deliveries' \in DeliveryStore
      /\ reportFaults' \in 0 .. MaxReportFaults
  <2>1. CASE HandlerDispatch(w)
    BY <2>1, DispatchEffect DEF HandlerDispatch
  <2>2. CASE ~HandlerDispatch(w)
    <3>1. deliveries' \in DeliveryStore
      BY <2>2, Typed DEF Works, ClaimJob, Extract, Reach, Refused, BeginAi, StopAi, PersistOutcome,
         FailReport, FailJob, AutoRetry, CreateAuto, AutoRow, AutoPending, RequeueJob,
         RequeueReport, MarkReport, MarkJob
    <3>2. reportFaults' \in 0 .. MaxReportFaults
      BY <2>2, Typed DEF Works, ClaimJob, Extract, Reach, Refused, BeginAi, StopAi, PersistOutcome,
         FailReport, FailJob, AutoRetry, CreateAuto, AutoRow, AutoPending, RequeueJob,
         RequeueReport, MarkReport, MarkJob
    <3>3. job' \in [ReportJobs -> ReportJob]
      <4>1. CASE ClaimJob(w)
        <5>1. \/ job' = job
              \/ job' = [job EXCEPT ![run[w].j] =
                    [@ EXCEPT !.status = "running", !.copy = run[w].copy, !.owner = w,
                              !.stale = FALSE]]
          BY <4>1 DEF ClaimJob
        <5>2. [job[run[w].j] EXCEPT !.status = "running", !.copy = run[w].copy, !.owner = w,
                                    !.stale = FALSE] \in ReportJob
          BY <1>2 DEF Mine, ReportJob
        <5> QED
          BY <1>1, <1>2, <5>1, <5>2
      <4>2. CASE PersistOutcome(w) \/ FailJob(w) \/ MarkJob(w) \/ AutoRow(w)
        BY <1>1, <4>2 DEF ReportJob, PersistOutcome, FailJob, MarkJob, AutoRow
      <4>3. CASE CreateAuto(w)
        <5>1. Mine(w).of \in Reports \cup {None}
          BY <1>2 DEF ReportJob
        <5>2. NewJob(Mine(w).of, FALSE) \in ReportJob
          BY <5>1, NewJobType
        <5> QED
          BY <1>1, <4>3, <5>2, Picked DEF CreateAuto
      <4>4. CASE RequeueJob(w)
        <5>1. job' = job \/ job' = Requeued(run[w].j)
          BY <4>4 DEF RequeueJob
        <5> QED
          BY <1>1, <5>1, RequeuedType
      <4>5. CASE UNCHANGED job
        BY <1>1, <4>5
      <4> QED
        BY <2>2, <4>1, <4>2, <4>3, <4>4, <4>5 DEF Works, Extract, Reach, BeginAi, StopAi, FailReport,
           AutoRetry, AutoPending, RequeueReport, MarkReport
    <3> QED
      BY <3>1, <3>2, <3>3
  <2> QED
    BY <2>1, <2>2
<1>5. workers \in [Analysts -> {"up", "closing", "down"}] /\ kills \in 0 .. MaxKills
  BY DEF TypeInv
<1> QED
  BY <1>1, <1>3, <1>4, <1>5, WorksRun, Typed DEF TypeInv, StoreTyped, ApiTyped

-----------------------------------------------------------------------------
(* Types: BullMQ, recovery and the processes *)

\* What BullMQ and a handler that takes or settles a job do.
LEMMA TypeDelivery ==
  ASSUME TypeInv, NEW w \in Analysts,
         Take(w) \/ SettleDelivery(w) \/ PauseDelivery(w)
  PROVE  TypeInv'
<1>1. /\ job \in [ReportJobs -> ReportJob] /\ run \in [Analysts -> Handler]
      /\ \A x \in Analysts : HasDelivery(run[x])
      /\ deliveries \in DeliveryStore
      /\ NoHandler \in Handler /\ HasDelivery(NoHandler)
  BY ReportAssumption
     DEF TypeInv, StoreTyped, RunTyped, NoHandler, Handler, HasDelivery
<1>2. UNCHANGED <<report, importing, asking, maker, pass, workers, kills>>
  BY DEF Take, TakeDelivery, SettleDelivery, PauseDelivery, apiVars, processVars
<1>3. reportFaults' \in 0 .. MaxReportFaults
  BY Typed DEF Take, TakeDelivery, SettleDelivery, PauseDelivery
<1>4. job' \in [ReportJobs -> ReportJob]
  <2>1. CASE SettleDelivery(w)
    <3>1. \A j \in ReportJobs : [job[j] EXCEPT !.owner = "gone"] \in ReportJob
      BY <1>1 DEF ReportJob
    <3> QED
      BY <1>1, <2>1, <3>1 DEF SettleDelivery, Abandoned
  <2> QED
    BY <1>1, <2>1 DEF Take, TakeDelivery, PauseDelivery
<1>5. RunTyped' /\ deliveries' \in DeliveryStore
  <2>1. ASSUME NEW j \in ReportJobs, NEW k \in Copy, TakeDelivery(w, j, k)
        PROVE  RunTyped' /\ deliveries' \in DeliveryStore
    <3>1. [NoHandler EXCEPT !.at = "claim", !.j = j, !.copy = k] \in Handler
      <4>1. j \in 0 .. MaxReportJobs /\ k \in 0 .. Copies
        BY ReportAssumption DEF ReportJobs, Copy
      <4> QED
        BY <1>1, <4>1 DEF Handler
    <3>2. HasDelivery([NoHandler EXCEPT !.at = "claim", !.j = j, !.copy = k])
      BY DEF HasDelivery, NoHandler
    <3>3. RunTyped'
      BY <1>1, <2>1, <3>1, <3>2 DEF TakeDelivery, RunTyped
    <3>4. Taken(deliveries[j], k, w) \in [Copy -> JobEntry(Analysts)]
      BY <1>1, EntryType DEF DeliveryStore
    <3> QED
      BY <1>1, <2>1, <3>3, <3>4 DEF TakeDelivery, DeliveryStore
  <2>2. ASSUME run[w].at # "idle"
        PROVE  /\ Settled(deliveries[run[w].j], run[w].copy, w) \in [Copy -> JobEntry(Analysts)]
               /\ TakenBack(deliveries[run[w].j], run[w].copy) \in [Copy -> JobEntry(Analysts)]
    BY <1>1, <2>2, EntryType DEF DeliveryStore, HasDelivery
  <2>3. CASE SettleDelivery(w)
    <3>1. RunTyped'
      BY <1>1, <2>3 DEF SettleDelivery, RunTyped
    <3> QED
      BY <1>1, <2>2, <2>3, <3>1 DEF SettleDelivery, RunAt, DeliveryStore
  <2>4. CASE PauseDelivery(w)
    <3>1. RunTyped'
      BY <1>1, <2>4 DEF PauseDelivery, RunTyped
    <3> QED
      BY <1>1, <2>2, <2>4, <3>1 DEF PauseDelivery, DeliveryStore
  <2> QED
    BY <2>1, <2>3, <2>4 DEF Take
<1> QED
  BY <1>2, <1>3, <1>4, <1>5 DEF TypeInv, StoreTyped, ApiTyped

\* Heartbeats and time change rows and BullMQ jobs only.
LEMMA TypePassage ==
  ASSUME TypeInv,
         \/ \E w \in Analysts : BeatJob(w) \/ Pause(w)
         \/ \E j \in ReportJobs : Passage(j)
  PROVE  TypeInv'
<1>1. job \in [ReportJobs -> ReportJob] /\ deliveries \in DeliveryStore
  BY DEF TypeInv, StoreTyped
<1>2. UNCHANGED <<report, importing, asking, maker, run, pass, workers, kills>>
  BY DEF BeatJob, Pause, Passage, GrowStale, BecomeDue, StallDelivery, apiVars, processVars
<1>3. reportFaults' \in 0 .. MaxReportFaults
  BY Typed DEF BeatJob, Pause, Passage, GrowStale, BecomeDue, StallDelivery
<1>4. job' \in [ReportJobs -> ReportJob]
  <2>1. \A x \in ReportJob : /\ [x EXCEPT !.stale = FALSE] \in ReportJob
                              /\ [x EXCEPT !.stale = TRUE] \in ReportJob
                              /\ [x EXCEPT !.due = TRUE] \in ReportJob
    BY DEF ReportJob
  <2>2. \/ job' = job
        \/ \E j : \/ job' = [job EXCEPT ![j].stale = FALSE]
                 \/ job' = [job EXCEPT ![j].stale = TRUE]
                 \/ job' = [job EXCEPT ![j].due = TRUE]
    BY DEF BeatJob, Pause, Passage, GrowStale, BecomeDue, StallDelivery
  <2>3. ASSUME NEW j, job' = [job EXCEPT ![j].stale = FALSE]
        PROVE  job' \in [ReportJobs -> ReportJob]
    BY <1>1, <2>1, <2>3
  <2>4. ASSUME NEW j, job' = [job EXCEPT ![j].stale = TRUE]
        PROVE  job' \in [ReportJobs -> ReportJob]
    BY <1>1, <2>1, <2>4
  <2>5. ASSUME NEW j, job' = [job EXCEPT ![j].due = TRUE]
        PROVE  job' \in [ReportJobs -> ReportJob]
    BY <1>1, <2>1, <2>5
  <2> QED
    BY <1>1, <2>2, <2>3, <2>4, <2>5
<1>5. deliveries' \in DeliveryStore
  <2>1. ASSUME NEW j \in ReportJobs, NEW k \in Copy, StallDelivery(j, k)
        PROVE  deliveries' \in DeliveryStore
    <3>1. TakenBack(deliveries[j], k) \in [Copy -> JobEntry(Analysts)]
      BY <1>1, EntryType DEF DeliveryStore
    <3> QED
      BY <1>1, <2>1, <3>1 DEF StallDelivery, DeliveryStore
  <2> QED
    BY <1>1, <2>1 DEF BeatJob, Pause, Passage, GrowStale, BecomeDue
<1> QED
  BY <1>2, <1>3, <1>4, <1>5 DEF TypeInv, StoreTyped, ApiTyped, RunTyped, HasDelivery

\* What recovery remembers.
LEMMA PassType ==
  ASSUME NEW x \in RecoveryState
  PROVE  /\ NoRecovery \in RecoveryState
         /\ [NoRecovery EXCEPT !.at = "read"] \in RecoveryState
         /\ \A S \in SUBSET Finding :
              [NoRecovery EXCEPT !.at = "recover", !.todo = S] \in RecoveryState
         /\ \A S \in SUBSET (ReportJobs \X Copy) :
              [NoRecovery EXCEPT !.at = "startup", !.old = S] \in RecoveryState
         /\ \A f : [x EXCEPT !.todo = @ \ {f}] \in RecoveryState
         /\ \A f, j : j \in ReportJobs =>
              [x EXCEPT !.todo = @ \ {f}, !.at = "pending", !.cur = j] \in RecoveryState
         /\ [x EXCEPT !.at = "recover", !.cur = 0] \in RecoveryState
<1>1. 0 \in 0 .. MaxReportJobs /\ ReportJobs \subseteq 0 .. MaxReportJobs
  BY ReportAssumption DEF ReportJobs
<1>2. NoRecovery \in RecoveryState
  BY <1>1 DEF NoRecovery, RecoveryState
<1>3. /\ [NoRecovery EXCEPT !.at = "read"] \in RecoveryState
      /\ \A S \in SUBSET Finding :
           [NoRecovery EXCEPT !.at = "recover", !.todo = S] \in RecoveryState
      /\ \A S \in SUBSET (ReportJobs \X Copy) :
           [NoRecovery EXCEPT !.at = "startup", !.old = S] \in RecoveryState
  BY <1>2 DEF RecoveryState
<1>4. \A f : [x EXCEPT !.todo = @ \ {f}] \in RecoveryState
  BY DEF RecoveryState
<1>5. \A f, j : j \in ReportJobs =>
        [x EXCEPT !.todo = @ \ {f}, !.at = "pending", !.cur = j] \in RecoveryState
  BY <1>1 DEF RecoveryState
<1>6. [x EXCEPT !.at = "recover", !.cur = 0] \in RecoveryState
  BY <1>1 DEF RecoveryState
<1> QED
  BY <1>2, <1>3, <1>4, <1>5, <1>6

\* The safety timer and the start-up recovery.
LEMMA TypeRecovery ==
  ASSUME TypeInv, NEW w \in Analysts, Recovery(w)
  PROVE  TypeInv'
<1>1. /\ job \in [ReportJobs -> ReportJob] /\ report \in [Reports -> ReportRow]
      /\ deliveries \in DeliveryStore
      /\ pass \in [Analysts -> RecoveryState] /\ pass[w] \in RecoveryState
  BY Typed
<1>2. UNCHANGED <<importing, asking, maker, run, workers, kills>>
  BY DEF Recovery, FailStaleActive, ReadInterrupted, RecoverJob, RecoverReport, RecoverDispatch,
     apiVars, processVars
<1>3. report' \in [Reports -> ReportRow]
  <2>1. report' = report \/ \E r : report' = Pending(r)
    BY DEF Recovery, FailStaleActive, ReadInterrupted, RecoverJob, RecoverReport, RecoverDispatch
  <2>2. \A x \in ReportRow : [x EXCEPT !.status = "pending"] \in ReportRow
    BY DEF ReportRow
  <2> QED
    BY <1>1, <2>1, <2>2 DEF Pending
<1>4. reportFaults' \in 0 .. MaxReportFaults
  BY Typed, DispatchEffect DEF Recovery, FailStaleActive, ReadInterrupted, RecoverJob,
     RecoverReport, RecoverDispatch
<1>5. job' \in [ReportJobs -> ReportJob]
  <2>1. CASE RecoverDispatch(w)
    BY <2>1, DispatchEffect DEF RecoverDispatch
  <2>2. CASE RecoverJob(w)
    <3>1. PICK f \in pass[w].todo : \/ UNCHANGED job \/ job' = Requeued(f.j)
                                    \/ job' = [job EXCEPT ![f.j].copy = 0]
      BY <2>2 DEF RecoverJob
    <3>2. 0 \in 0 .. Copies
      BY ReportAssumption
    <3> QED
      BY <1>1, <3>1, <3>2, RequeuedType DEF ReportJob
  <2> QED
    BY <1>1, <2>1, <2>2 DEF Recovery, FailStaleActive, ReadInterrupted, RecoverReport
<1>6. deliveries' \in DeliveryStore
  <2>1. CASE FailStaleActive(w)
    <3>1. \A e \in JobEntry(Analysts) : [e EXCEPT !.st = "ended", !.by = None] \in JobEntry(Analysts)
      BY DEF JobEntry
    <3>2. \A j \in ReportJobs : \A k \in Copy : deliveries[j][k] \in JobEntry(Analysts)
      BY <1>1 DEF DeliveryStore
    <3>3. PICK L : deliveries' = [j \in ReportJobs |-> [k \in Copy |->
                     IF <<j, k>> \in L /\ deliveries[j][k].st = "active"
                     THEN [deliveries[j][k] EXCEPT !.st = "ended", !.by = None]
                     ELSE deliveries[j][k]]]
      BY <2>1 DEF FailStaleActive
    <3> QED
      BY <3>1, <3>2, <3>3 DEF DeliveryStore
  <2> QED
    BY <1>1, <2>1, DispatchEffect DEF Recovery, ReadInterrupted, RecoverJob, RecoverReport,
       RecoverDispatch
<1>7. pass' \in [Analysts -> RecoveryState]
  <2>1. Interrupted \in SUBSET Finding
    BY DEF Interrupted
  <2>2. CASE FailStaleActive(w) \/ ReadInterrupted(w) \/ RecoverDispatch(w)
    BY <1>1, <2>1, <2>2, PassType DEF FailStaleActive, ReadInterrupted, RecoverDispatch
  <2>3. CASE RecoverReport(w)
    <3>1. [pass[w] EXCEPT !.at = "recover", !.cur = 0] \in RecoveryState
      BY <1>1, PassType
    <3> QED
      BY <1>1, <2>3, <3>1 DEF RecoverReport
  <2>4. CASE RecoverJob(w)
    <3>1. PICK f \in pass[w].todo :
            \/ pass' = [pass EXCEPT ![w].todo = @ \ {f}, ![w].at = "pending", ![w].cur = f.j]
            \/ pass' = [pass EXCEPT ![w].todo = @ \ {f}]
      BY <2>4 DEF RecoverJob
    <3>2. f.j \in ReportJobs
      BY <1>1 DEF RecoveryState, Finding
    <3>3. /\ [pass[w] EXCEPT !.todo = @ \ {f}, !.at = "pending", !.cur = f.j] \in RecoveryState
          /\ [pass[w] EXCEPT !.todo = @ \ {f}] \in RecoveryState
      BY <1>1, <3>2, PassType
    <3> QED
      BY <1>1, <3>1, <3>3
  <2> QED
    BY <2>2, <2>3, <2>4 DEF Recovery
<1> QED
  BY <1>2, <1>3, <1>4, <1>5, <1>6, <1>7 DEF TypeInv, StoreTyped, ApiTyped, RunTyped, HasDelivery

\* Processes that are told to stop, die or start.
LEMMA TypeProcess ==
  ASSUME TypeInv, NEW w \in Analysts, CloseWorker(w) \/ CrashWorker(w) \/ StartWorker(w)
  PROVE  TypeInv'
<1>1. /\ job \in [ReportJobs -> ReportJob] /\ run \in [Analysts -> Handler]
      /\ \A x \in Analysts : HasDelivery(run[x])
      /\ pass \in [Analysts -> RecoveryState]
      /\ workers \in [Analysts -> {"up", "closing", "down"}]
      /\ kills \in 0 .. MaxKills /\ MaxKills \in Nat
      /\ NoHandler \in Handler /\ HasDelivery(NoHandler)
  BY ReportAssumption
     DEF TypeInv, StoreTyped, RunTyped, NoHandler, Handler, HasDelivery
<1>2. UNCHANGED <<report, deliveries, importing, asking, maker, reportFaults>>
  BY DEF CloseWorker, CrashWorker, Ended, StartWorker, apiVars
<1>3. kills' \in 0 .. MaxKills /\ workers' \in [Analysts -> {"up", "closing", "down"}]
  BY <1>1 DEF CloseWorker, CrashWorker, Ended, StartWorker
<1>4. job' \in [ReportJobs -> ReportJob]
  <2>1. \A j \in ReportJobs : [job[j] EXCEPT !.owner = "gone"] \in ReportJob
    BY <1>1 DEF ReportJob
  <2> QED
    BY <1>1, <2>1 DEF CloseWorker, CrashWorker, Ended, StartWorker, Abandoned
<1>5. RunTyped'
  BY <1>1 DEF RunTyped, CloseWorker, CrashWorker, Ended, StartWorker
<1>6. pass' \in [Analysts -> RecoveryState]
  <2>1. {d \in ReportJobs \X Copy : deliveries[d[1]][d[2]].st = "active"}
          \in SUBSET (ReportJobs \X Copy)
    OBVIOUS
  <2>2. PICK S \in SUBSET (ReportJobs \X Copy) :
          \/ pass' = pass
          \/ pass' = [pass EXCEPT ![w] = NoRecovery]
          \/ pass' = [pass EXCEPT ![w] = [NoRecovery EXCEPT !.at = "startup", !.old = S]]
    BY <2>1 DEF CloseWorker, CrashWorker, Ended, StartWorker
  <2>3. pass[w] \in RecoveryState
    BY <1>1
  <2>4. /\ NoRecovery \in RecoveryState
        /\ [NoRecovery EXCEPT !.at = "startup", !.old = S] \in RecoveryState
    BY <2>3, PassType
  <2> HIDE DEF RecoveryState, NoRecovery
  <2> QED
    BY <1>1, <2>2, <2>4
<1> QED
  BY <1>2, <1>3, <1>4, <1>5, <1>6 DEF TypeInv, StoreTyped, ApiTyped

\* Nothing has been imported.
LEMMA TypeInit == ReportInit => TypeInv
<1> SUFFICES ASSUME ReportInit PROVE TypeInv
  OBVIOUS
<1>1. /\ NoReportJob \in ReportJob /\ NoHandler \in Handler /\ HasDelivery(NoHandler)
      /\ NoEntry \in JobEntry(Analysts) /\ NoRecovery \in RecoveryState
      /\ [status |-> "none", fault |-> FALSE, cancel |-> FALSE] \in ReportRow
      /\ 0 \in 0 .. MaxReportFaults /\ 0 \in 0 .. MaxKills
  BY ReportAssumption, QueueAssumption
     DEF NoReportJob, ReportJob, NoHandler, Handler, HasDelivery, NoEntry, JobEntry, NoRecovery,
         RecoveryState, ReportRow
<1>2. StoreTyped /\ ApiTyped /\ RunTyped
  BY <1>1 DEF ReportInit, StoreTyped, ApiTyped, RunTyped
<1>3. deliveries \in DeliveryStore /\ pass \in [Analysts -> RecoveryState]
  BY <1>1 DEF ReportInit, DeliveryStore
<1>4. workers \in [Analysts -> {"up", "closing", "down"}]
  BY DEF ReportInit
<1> QED
  BY <1>1, <1>2, <1>3, <1>4 DEF ReportInit, TypeInv

\* Every step preserves the types.
LEMMA TypeNext ==
  ASSUME TypeInv, ReportNext
  PROVE  TypeInv'
<1>1. CASE Requesting \/ AbandonRequest
  BY <1>1, TypeReportRequest, TypeJobRequest, TypeOtherRequest DEF Requesting
<1>2. ASSUME NEW r \in Reports,
             ImportReport(r) \/ AskRetry(r) \/ CancelUnclaimed(r) \/ RequestAnalysisCancel(r)
      PROVE  TypeInv'
  BY <1>2, TypeReportRequest
<1>3. ASSUME NEW w \in Analysts, Take(w) \/ Handling(w) \/ PauseDelivery(w)
      PROVE  TypeInv'
  BY <1>3, TypeWorks, TypeDelivery DEF Handling, Works
<1>4. ASSUME NEW w \in Analysts, BeatJob(w) \/ Pause(w) PROVE TypeInv'
  BY <1>4, TypePassage
<1>5. ASSUME NEW w \in Analysts, Recovery(w) PROVE TypeInv'
  BY <1>5, TypeRecovery
<1>6. ASSUME NEW w \in Analysts, CloseWorker(w) \/ CrashWorker(w) \/ StartWorker(w)
      PROVE  TypeInv'
  BY <1>6, TypeProcess
<1>7. ASSUME NEW j \in ReportJobs, Passage(j) PROVE TypeInv'
  BY <1>7, TypePassage
<1> QED
  BY <1>1, <1>2, <1>3, <1>4, <1>5, <1>6, <1>7 DEF ReportNext

\* The type invariant of the runs.
LEMMA TypeCovers == TypeInv => ReportTypeOK
<1>1. pass \in [Analysts -> RecoveryState] =>
        \A w \in Analysts :
          /\ pass[w].at \in {"idle", "startup", "read", "recover", "pending"}
          /\ pass[w].todo \subseteq Finding
          /\ pass[w].old \subseteq ReportJobs \X Copy
          /\ pass[w].cur \in 0 .. MaxReportJobs
  BY DEF RecoveryState
<1> QED
  BY <1>1 DEF TypeInv, ReportTypeOK, StoreTyped, ApiTyped, RunTyped, DeliveryStore

-----------------------------------------------------------------------------
(* The invariant *)

\* A row has a report; a report has one live job at most.
JobInv ==
  /\ \A j \in ReportJobs : job[j].status # "none" => job[j].of \in Reports
  /\ \A i, j \in ReportJobs : LiveJob(i) /\ LiveJob(j) /\ job[i].of = job[j].of => i = j

\* A report without a job, for which no Retry was accepted.
Unasked(r) == /\ asking[r] \notin {"race", "create"}
              /\ \A j \in ReportJobs : job[j].of # r

\* What becomes of a report until its first job is created.
NewReports ==
  \A r \in Reports : /\ r \in importing => report[r].status = "pending"
                     /\ r \in importing \/ report[r].status = "none" => Unasked(r)

\* The stages of a handler that has claimed its row.
Claimed == {"extract", "begin", "ai", "outcome", "failReport", "failJob", "auto", "create",
            "row", "pending", "requeue", "requeued"}

\* A handler that has claimed its row has one.
HandlerJob == \A w \in Analysts : run[w].at \in Claimed => Mine(w).status # "none"

\* Whoever is about to write without a fence writes to a live job.
Requester(j) == maker[j] \in {"report", "row"} => LiveJob(j)

\* An automatic retry writes to its new row, for its own report; a shutdown to
\* the row it gave back.
HandlerWrites(w) ==
  /\ run[w].at \in {"row", "pending"} =>
       run[w].new \in ReportJobs /\ LiveJob(run[w].new) /\ job[run[w].new].of = Mine(w).of
  /\ run[w].at = "requeued" => LiveJob(run[w].j)

\* Recovery writes to the report of a row it gave back.
Recoverer(w) == pass[w].at = "pending" => pass[w].cur \in ReportJobs /\ LiveJob(pass[w].cur)

\* All who write without a fence.
WritersLive == /\ \A j \in ReportJobs : Requester(j)
               /\ \A w \in Analysts : HandlerWrites(w) /\ Recoverer(w)

\* A report that is ready for review has no live job, and none is being created.
NotDone ==
  /\ \A j \in ReportJobs : LiveJob(j) => report[job[j].of].status # "review"
  /\ \A r \in Reports : asking[r] \in {"race", "create"} => report[r].status # "review"
  /\ \A w \in Analysts : run[w].at = "create" => MyReport(w).status # "review"

\* The inductive invariant.
ReportInv == TypeInv /\ JobInv /\ NewReports /\ HandlerJob /\ WritersLive /\ NotDone

\* There is no row and no report.
LEMMA ReportInvInit == ReportInit => ReportInv
<1> SUFFICES ASSUME ReportInit PROVE ReportInv
  OBVIOUS
<1>1. /\ \A j \in ReportJobs : job[j] = NoReportJob /\ maker[j] = "no"
      /\ \A w \in Analysts : run[w] = NoHandler /\ pass[w] = NoRecovery
      /\ \A r \in Reports : asking[r] = "no" /\ report[r].status = "none"
      /\ importing = {}
  BY DEF ReportInit
<1> QED
  BY <1>1, TypeInit, ReportAssumption DEF ReportInv, JobInv, NewReports, Unasked, HandlerJob, Claimed, WritersLive,
     Requester, HandlerWrites, Recoverer, NotDone, LiveJob, NoReportJob, NoHandler, NoRecovery

-----------------------------------------------------------------------------
(* What a step does to the rows *)

\* The row of j keeps its report, and its status, or is live and stays live.
KeptRow(j) == /\ job'[j].of = job[j].of
              /\ \/ job'[j].status = job[j].status
                 \/ LiveJob(j) /\ job'[j].status \in {"queued", "running"}

\* A step that neither creates nor ends rows.
RowsKept == \A j \in ReportJobs : KeptRow(j)

\* A step that creates row n for a report that has no live job.
CreatedRow(n, r) ==
  /\ job'[n].status = "queued" /\ job'[n].of = r
  /\ \A j \in ReportJobs \ {n} : job'[j] = job[j]
  /\ \A j \in ReportJobs : LiveJob(j) => job[j].of # r
  /\ r \notin importing' /\ report'[r].status \notin {"none", "review"}

\* A step that ends the rows E, to which nobody is about to write.
EndedRows(E) ==
  /\ \A j \in E : /\ LiveJob(j) /\ ~Outstanding(j)
                  /\ job'[j].status \in {"completed", "failed"} /\ job'[j].of = job[j].of
  /\ \A j \in ReportJobs \ E : job'[j] = job[j]

\* The three ways rows move.
RowMoves == \/ RowsKept
            \/ \E n \in UnusedJobs, r \in Reports : CreatedRow(n, r)
            \/ \E E \in SUBSET ReportJobs : EndedRows(E)

\* What an update does that leaves the status alone, or that sets it.
LEMMA Updates ==
  ASSUME TypeInv, NEW j, NEW v
  PROVE  /\ job' = [job EXCEPT ![j].stale = v] => RowsKept
         /\ job' = [job EXCEPT ![j].due = v] => RowsKept
         /\ job' = [job EXCEPT ![j].copy = v] => RowsKept
         /\ LiveJob(j) /\ v \in {"queued", "running"} /\ job' = [job EXCEPT ![j].status = v]
              => RowsKept
         /\ LiveJob(j) /\ job' = Requeued(j) => RowsKept
         /\ job' = Abandoned(j) => RowsKept
         /\ UNCHANGED job => RowsKept
         /\ (j \in ReportJobs /\ LiveJob(j) /\ ~Outstanding(j)) =>
              (v \in {"completed", "failed"} /\ job' = [job EXCEPT ![j].status = v] =>
                 EndedRows({j}))
<1>1. job \in [ReportJobs -> ReportJob]
  BY Typed
<1>2. \A i \in ReportJobs : job[i] \in ReportJob
  BY <1>1
<1>3. /\ job' = [job EXCEPT ![j].stale = v] => RowsKept
      /\ job' = [job EXCEPT ![j].due = v] => RowsKept
      /\ job' = [job EXCEPT ![j].copy = v] => RowsKept
      /\ UNCHANGED job => RowsKept
  BY <1>1, <1>2 DEF RowsKept, KeptRow, ReportJob
<1>4. LiveJob(j) /\ v \in {"queued", "running"} /\ job' = [job EXCEPT ![j].status = v] => RowsKept
  BY <1>1, <1>2 DEF RowsKept, KeptRow, ReportJob
<1>5. LiveJob(j) /\ job' = Requeued(j) => RowsKept
  BY <1>1, <1>2 DEF RowsKept, KeptRow, ReportJob, Requeued
<1>6. job' = Abandoned(j) => RowsKept
  BY <1>1, <1>2 DEF RowsKept, KeptRow, ReportJob, Abandoned
<1>7. (j \in ReportJobs /\ LiveJob(j) /\ ~Outstanding(j)) =>
        (v \in {"completed", "failed"} /\ job' = [job EXCEPT ![j].status = v] =>
           EndedRows({j}))
  <2> SUFFICES ASSUME j \in ReportJobs, LiveJob(j), ~Outstanding(j),
                      v \in {"completed", "failed"}, job' = [job EXCEPT ![j].status = v]
               PROVE  EndedRows({j})
    OBVIOUS
  <2>1. job'[j].status = v /\ job'[j].of = job[j].of
    BY <1>1, <1>2 DEF ReportJob
  <2>2. \A i \in ReportJobs \ {j} : job'[i] = job[i]
    BY <1>1
  <2>3. \A i \in {j} : /\ LiveJob(i) /\ ~Outstanding(i)
                        /\ job'[i].status \in {"completed", "failed"} /\ job'[i].of = job[i].of
    BY <2>1, Zenon
  <2> QED
    BY <2>2, <2>3 DEF EndedRows
<1> QED
  BY <1>3, <1>4, <1>5, <1>6, <1>7

\* A new row of a report that has no live job.
LEMMA Creates ==
  ASSUME TypeInv, NEW r \in Reports, NEW due \in BOOLEAN, UnusedJobs # {},
         job' = [job EXCEPT ![Min(UnusedJobs)] = NewJob(r, due)],
         \A j \in ReportJobs : LiveJob(j) => job[j].of # r,
         r \notin importing', report'[r].status \notin {"none", "review"}
  PROVE  \E n \in UnusedJobs, q \in Reports : CreatedRow(n, q)
<1>1. Min(UnusedJobs) \in UnusedJobs /\ UnusedJobs \subseteq ReportJobs
  BY Picked
<1>2. NewJob(r, due).status = "queued" /\ NewJob(r, due).of = r
  BY NewJobType
<1>3. CreatedRow(Min(UnusedJobs), r)
  BY <1>1, <1>2, Typed DEF CreatedRow
<1> QED
  BY <1>1, <1>3

\* The requests that read a report move rows in one of those ways.
LEMMA RowRequest ==
  ASSUME ReportInv, ~Late, NEW r \in Reports,
         \/ ImportReport(r) \/ CreateJob(r) \/ AskRetry(r) \/ RetryRace(r) \/ CreateRetry(r)
         \/ CancelUnclaimed(r) \/ RequestAnalysisCancel(r)
  PROVE  RowMoves
<1>1. TypeInv /\ \A j \in ReportJobs : job[j] \in ReportJob
  BY Typed DEF ReportInv
<1>2. CASE ImportReport(r) \/ RetryRace(r) \/ RequestAnalysisCancel(r)
  <2>1. UNCHANGED job
    BY <1>2 DEF ImportReport, RetryRace, RequestAnalysisCancel
  <2> QED
    BY <1>1, <2>1, Updates DEF RowMoves
<1>3. CASE AskRetry(r)
  <2>1. PICK S : job' = [j \in ReportJobs |-> IF j \in S THEN [job[j] EXCEPT !.due = TRUE]
                                              ELSE job[j]]
    BY <1>3 DEF AskRetry
  <2> QED
    BY <1>1, <2>1 DEF ReportJob, RowMoves, RowsKept, KeptRow
<1>4. CASE CreateJob(r)
  <2>1. /\ \A j \in ReportJobs : job[j].of # r
        /\ report[r].status = "pending"
    BY <1>4 DEF CreateJob, ReportInv, NewReports, Unasked
  <2>2. r \notin importing' /\ report' = report
    BY <1>4 DEF CreateJob
  <2> QED
    BY <1>1, <1>4, <2>1, <2>2, Creates DEF CreateJob, RowMoves
<1>5. CASE CreateRetry(r)
  <2>1. r \notin importing /\ report[r].status \notin {"none", "review"}
    BY <1>5 DEF CreateRetry, ReportInv, NewReports, Unasked, NotDone
  <2>2. UNCHANGED <<importing, report>>
    BY <1>5 DEF CreateRetry
  <2>3. CASE UNCHANGED job
    BY <1>1, <2>3, Updates DEF RowMoves
  <2>4. CASE ~UNCHANGED job
    <3>1. /\ LiveJobsOf(r) = {} /\ UnusedJobs # {}
          /\ job' = [job EXCEPT ![Min(UnusedJobs)] = NewJob(r, TRUE)]
      BY <1>5, <2>4 DEF CreateRetry
    <3>2. \A j \in ReportJobs : LiveJob(j) => job[j].of # r
      BY <3>1 DEF LiveJobsOf
    <3> QED
      BY <1>1, <2>1, <2>2, <3>1, <3>2, Creates DEF RowMoves
  <2> QED
    BY <2>3, <2>4
<1>6. CASE CancelUnclaimed(r)
  <2> DEFINE E == {j \in LiveJobsOf(r) : job[j].status = "queued" /\ job[j].copy = 0}
  <2>1. /\ \A j \in E : MayEnd(j)
        /\ job' = [j \in ReportJobs |-> IF j \in E THEN [job[j] EXCEPT !.status = "failed"]
                                        ELSE job[j]]
    BY <1>6 DEF CancelUnclaimed
  <2>2. \A j \in E : j \in ReportJobs /\ LiveJob(j) /\ ~Outstanding(j)
    BY <2>1 DEF LiveJobsOf, MayEnd
  <2> HIDE DEF E
  <2>3. EndedRows(E) /\ E \in SUBSET ReportJobs
    BY <1>1, <2>1, <2>2 DEF EndedRows, ReportJob
  <2> QED
    BY <2>3 DEF RowMoves
<1> QED
  BY <1>2, <1>3, <1>4, <1>5, <1>6

\* So do the stages of an analysis ...
LEMMA RowHandler ==
  ASSUME ReportInv, ~Late, NEW w \in Analysts, Works(w)
  PROVE  RowMoves
<1>1. TypeInv /\ run[w].at # "idle" /\ run[w].j \in ReportJobs
  BY WorksRun DEF ReportInv, TypeInv, RunTyped, HasDelivery
<1>2. Owns(w) => LiveJob(run[w].j)
  BY DEF Owns, Mine, LiveJob
<1>3. CASE UNCHANGED job
  BY <1>1, <1>3, Updates DEF RowMoves
<1>4. CASE HandlerDispatch(w)
  BY <1>1, <1>4, DispatchEffect DEF HandlerDispatch, RowMoves, RowsKept, KeptRow
<1>5. CASE ClaimJob(w) /\ ~UNCHANGED job
  <2>1. /\ LiveJob(run[w].j)
        /\ job' = [job EXCEPT ![run[w].j] =
             [@ EXCEPT !.status = "running", !.copy = run[w].copy, !.owner = w,
                       !.stale = FALSE]]
    BY <1>5 DEF ClaimJob
  <2>2. job \in [ReportJobs -> ReportJob] /\ job[run[w].j] \in ReportJob
    BY <1>1, Typed
  <2>3. RowsKept
    BY <1>1, <2>1, <2>2 DEF RowsKept, KeptRow, ReportJob
  <2> QED
    BY <2>3 DEF RowMoves
<1>6. CASE (PersistOutcome(w) \/ FailJob(w) \/ MarkJob(w)) /\ ~UNCHANGED job
  <2>1. /\ Owns(w) /\ ~Outstanding(run[w].j)
        /\ \E v \in {"completed", "failed"} : job' = [job EXCEPT ![run[w].j].status = v]
    BY <1>6 DEF PersistOutcome, FailJob, MarkJob, MayEnd
  <2> QED
    BY <1>1, <1>2, <2>1, Updates DEF RowMoves
<1>7. CASE CreateAuto(w) /\ ~UNCHANGED job
  <2>1. /\ RunAt(w, "create")
        /\ LiveJobsOf(Mine(w).of) = {} /\ UnusedJobs # {}
        /\ job' = [job EXCEPT ![Min(UnusedJobs)] = NewJob(Mine(w).of, FALSE)]
        /\ UNCHANGED <<report, importing>>
    BY <1>7 DEF CreateAuto, apiVars
  <2>2. \A j \in ReportJobs : LiveJob(j) => job[j].of # Mine(w).of
    BY <2>1 DEF LiveJobsOf
  <2>3. run[w].at \in Claimed /\ run[w].at = "create"
    BY <2>1 DEF RunAt, Claimed
  <2>4. Mine(w).of \in Reports
    BY <1>1, <2>3 DEF ReportInv, HandlerJob, JobInv, Mine
  <2>5. Mine(w).of \notin importing /\ report[Mine(w).of].status # "none"
    BY <1>1, <2>4 DEF ReportInv, NewReports, Unasked, Mine
  <2>6. report[Mine(w).of].status # "review"
    BY <2>3 DEF ReportInv, NotDone, MyReport
  <2> QED
    BY <1>1, <2>1, <2>2, <2>4, <2>5, <2>6, Creates DEF RowMoves
<1>8. CASE AutoRow(w) /\ ~UNCHANGED job
  <2>1. RunAt(w, "row") /\ job' = [job EXCEPT ![run[w].new].status = "queued"]
    BY <1>8 DEF AutoRow
  <2>2. LiveJob(run[w].new)
    BY <2>1 DEF RunAt, ReportInv, WritersLive, HandlerWrites
  <2> QED
    BY <1>1, <2>1, <2>2, Updates DEF RowMoves
<1>9. CASE RequeueJob(w) /\ ~UNCHANGED job
  <2>1. Owns(w) /\ job' = Requeued(run[w].j)
    BY <1>9 DEF RequeueJob
  <2> QED
    BY <1>1, <1>2, <2>1, Updates DEF RowMoves
<1> QED
  BY <1>3, <1>4, <1>5, <1>6, <1>7, <1>8, <1>9 DEF Works, Extract, Reach, BeginAi, StopAi, FailReport,
     AutoRetry, AutoPending, RequeueReport, MarkReport

\* ... and all other steps.
LEMMA RowNext ==
  ASSUME ReportInv, ~Late, ReportNext
  PROVE  RowMoves
<1>1. TypeInv
  BY DEF ReportInv
<1>2. CASE UNCHANGED job
  BY <1>1, <1>2, Updates DEF RowMoves
<1>3. CASE MakeDispatch \/ AbandonRequest
  <2>1. \A j \in ReportJobs : job'[j].status = job[j].status /\ job'[j].of = job[j].of
    BY <1>1, <1>3, DispatchEffect DEF MakeDispatch, AbandonRequest
  <2> QED
    BY <2>1 DEF RowMoves, RowsKept, KeptRow
<1>4. ASSUME NEW r \in Reports,
             \/ ImportReport(r) \/ CreateJob(r) \/ AskRetry(r) \/ RetryRace(r) \/ CreateRetry(r)
             \/ CancelUnclaimed(r) \/ RequestAnalysisCancel(r)
      PROVE  RowMoves
  BY <1>4, RowRequest
<1>5. ASSUME NEW j \in ReportJobs, MakeReport(j) \/ MakeRow(j)
      PROVE  RowMoves
  <2>1. CASE MakeRow(j)
    <3>1. LiveJob(j) /\ job' = [job EXCEPT ![j].status = "queued"]
      BY <2>1 DEF MakeRow, ReportInv, WritersLive, Requester
    <3> QED
      BY <1>1, <3>1, Updates DEF RowMoves
  <2> QED
    BY <1>2, <1>5, <2>1 DEF MakeReport
<1>6. ASSUME NEW w \in Analysts, Handling(w)
      PROVE  RowMoves
  <2>1. CASE SettleDelivery(w)
    BY <1>1, <2>1, Updates DEF SettleDelivery, RowMoves
  <2> QED
    BY <1>6, <2>1, RowHandler DEF Handling, Works
<1>7. ASSUME NEW w \in Analysts, Recovery(w)
      PROVE  RowMoves
  <2>1. CASE RecoverDispatch(w)
    BY <1>1, <2>1, DispatchEffect DEF RecoverDispatch, RowMoves, RowsKept, KeptRow
  <2>2. CASE RecoverJob(w)
    <3>1. PICK f \in pass[w].todo :
            \/ UNCHANGED job
            \/ job[f.j].status = "running" /\ job' = Requeued(f.j)
            \/ job' = [job EXCEPT ![f.j].copy = 0]
      BY <2>2 DEF RecoverJob
    <3> QED
      BY <1>1, <3>1, Updates DEF RowMoves, LiveJob
  <2> QED
    BY <1>2, <1>7, <2>1, <2>2 DEF Recovery, FailStaleActive, ReadInterrupted, RecoverReport
<1>8. ASSUME NEW w \in Analysts, \/ Take(w) \/ PauseDelivery(w) \/ BeatJob(w) \/ Pause(w)
                                 \/ CloseWorker(w) \/ CrashWorker(w) \/ StartWorker(w)
      PROVE  RowMoves
  <2>1. \/ UNCHANGED job \/ job' = Abandoned(w)
        \/ \E j, v : job' = [job EXCEPT ![j].stale = v]
    BY <1>8 DEF Take, TakeDelivery, PauseDelivery, BeatJob, Pause, CloseWorker, CrashWorker, Ended,
       StartWorker
  <2> QED
    BY <1>1, <2>1, Updates DEF RowMoves
<1>9. ASSUME NEW j \in ReportJobs, Passage(j)
      PROVE  RowMoves
  <2>1. \/ UNCHANGED job
        \/ \E v : \/ job' = [job EXCEPT ![j].stale = v]
                  \/ job' = [job EXCEPT ![j].due = v]
    BY <1>9 DEF Passage, GrowStale, BecomeDue, StallDelivery
  <2> QED
    BY <1>1, <2>1, Updates DEF RowMoves
<1> QED
  BY <1>3, <1>4, <1>5, <1>6, <1>7, <1>8, <1>9 DEF ReportNext, Requesting

-----------------------------------------------------------------------------
(* What a step does to the reports *)

\* Somebody may write to r: a Retry that found a live job, or a live job.
Entitled(r) == \/ asking[r] = "race"
               \/ \E j \in ReportJobs : LiveJob(j) /\ job[j].of = r

\* The analysis of r completes, with nothing outstanding.
Completes(r) ==
  /\ report'[r].status = "review"
  /\ \E j \in ReportJobs : /\ LiveJob(j) /\ job[j].of = r /\ ~Outstanding(j)
                           /\ job'[j].status = "completed"

\* The ways a report moves.
ReportMoves(r) ==
  \/ report'[r].status = report[r].status
  \/ report[r].status = "none" /\ report'[r].status = "pending"
  \/ Entitled(r) /\ report'[r].status \notin {"none", "review"}
  \/ Completes(r)

\* The only report that an update changes.
Writes(q, st) == \A r \in Reports : report'[r].status = IF r = q THEN st ELSE report[r].status

\* Each kind of update of a report changes the status of that report alone.
LEMMA ReportUpdates ==
  ASSUME TypeInv, NEW q, NEW st, NEW f, NEW c
  PROVE  /\ report' = Pending(q) => Writes(q, "pending")
         /\ report' = [report EXCEPT ![q] = [status |-> st, fault |-> f, cancel |-> c]]
              => Writes(q, st)
         /\ report' = [report EXCEPT ![q].status = st, ![q].fault = f] => Writes(q, st)
         /\ report' = [report EXCEPT ![q].cancel = c]
              => \A r \in Reports : report'[r].status = report[r].status
<1>1. report \in [Reports -> ReportRow] /\ \A r \in Reports : report[r] \in ReportRow
  BY Typed
<1> QED
  BY <1>1 DEF Pending, Writes, ReportRow

\* A write on behalf of a live job.
LEMMA EntitledWrite ==
  ASSUME NEW j \in ReportJobs, LiveJob(j), NEW st, st \notin {"none", "review"},
         Writes(job[j].of, st), NEW r \in Reports
  PROVE  ReportMoves(r)
  BY DEF Writes, ReportMoves, Entitled

\* A handler writes to its own report, while its job is live.
LEMMA ReportHandler ==
  ASSUME ReportInv, ~Late, NEW w \in Analysts, Works(w), NEW r \in Reports
  PROVE  ReportMoves(r)
<1>1. TypeInv /\ run[w].j \in ReportJobs
  BY WorksRun DEF ReportInv, TypeInv, RunTyped, HasDelivery
<1>2. Owns(w) => LiveJob(run[w].j)
  BY DEF Owns, Mine, LiveJob
<1>3. Mine(w).of = job[run[w].j].of
  BY DEF Mine
<1>4. CASE UNCHANGED report
  BY <1>4 DEF ReportMoves
<1>5. CASE (Extract(w) \/ BeginAi(w)) /\ ~UNCHANGED report
  <2>1. /\ Owns(w)
        /\ \/ Staged(w, "working")
           \/ report' = [report EXCEPT ![Mine(w).of] =
                [status |-> "analyzing", fault |-> FALSE, cancel |-> FALSE]]
    BY <1>5 DEF Extract, Reach, Refused, BeginAi
  <2>2. Writes(job[run[w].j].of, "working") \/ Writes(job[run[w].j].of, "analyzing")
    BY <1>1, <1>3, <2>1, ReportUpdates DEF Staged
  <2>3. LiveJob(run[w].j)
    BY <1>2, <2>1
  <2> QED
    BY <1>1, <2>2, <2>3 DEF Writes, ReportMoves, Entitled
<1>6. CASE PersistOutcome(w) /\ ~UNCHANGED report
  <2>1. /\ Owns(w) /\ ~Outstanding(run[w].j)
        /\ report' = [report EXCEPT ![Mine(w).of] =
                        [status |-> "review", fault |-> FALSE, cancel |-> FALSE]]
        /\ job' = [job EXCEPT ![run[w].j].status = "completed"]
    BY <1>6 DEF PersistOutcome, Refused, MayEnd
  <2>2. Writes(job[run[w].j].of, "review")
    BY <1>1, <1>3, <2>1, ReportUpdates
  <2>3. job'[run[w].j].status = "completed"
    <3>1. job \in [ReportJobs -> ReportJob] /\ job[run[w].j] \in ReportJob
      BY <1>1, Typed
    <3> QED
      BY <1>1, <2>1, <3>1 DEF ReportJob
  <2> QED
    BY <1>1, <1>2, <2>1, <2>2, <2>3 DEF Writes, ReportMoves, Completes
<1>7. CASE FailReport(w) /\ ~UNCHANGED report
  <2>1. /\ Owns(w)
        /\ report' = [report EXCEPT ![Mine(w).of] =
             [status |-> "failed", fault |-> TRUE,
              cancel |-> report[Mine(w).of].cancel /\ run[w].why # "cancelled"]]
    BY <1>7 DEF FailReport, Refused
  <2>2. Writes(job[run[w].j].of, "failed")
    <3> DEFINE c == report[Mine(w).of].cancel /\ run[w].why # "cancelled"
    <3>1. report' = [report EXCEPT ![Mine(w).of] =
                       [status |-> "failed", fault |-> TRUE, cancel |-> c]]
      BY <2>1
    <3> HIDE DEF c
    <3> QED
      BY <1>1, <1>3, <3>1, ReportUpdates
  <2>3. LiveJob(run[w].j)
    BY <1>2, <2>1
  <2> QED
    BY <1>1, <2>2, <2>3 DEF Writes, ReportMoves, Entitled
<1>8. CASE MarkReport(w) /\ ~UNCHANGED report
  <2>1. /\ Owns(w)
        /\ report' = [report EXCEPT ![Mine(w).of].status = "failed", ![Mine(w).of].fault = TRUE]
    BY <1>8 DEF MarkReport
  <2>2. Writes(job[run[w].j].of, "failed")
    BY <1>1, <1>3, <2>1, ReportUpdates
  <2>3. LiveJob(run[w].j)
    BY <1>2, <2>1
  <2> QED
    BY <1>1, <2>2, <2>3 DEF Writes, ReportMoves, Entitled
<1>9. CASE AutoPending(w) /\ ~UNCHANGED report
  <2>1. RunAt(w, "pending") /\ report' = Pending(Mine(w).of)
    BY <1>9 DEF AutoPending
  <2>2. run[w].new \in ReportJobs /\ LiveJob(run[w].new) /\ job[run[w].new].of = Mine(w).of
    BY <2>1 DEF RunAt, ReportInv, WritersLive, HandlerWrites
  <2>3. Writes(job[run[w].new].of, "pending")
    BY <1>1, <2>1, <2>2, ReportUpdates
  <2> QED
    BY <2>2, <2>3, EntitledWrite
<1>10. CASE RequeueReport(w) /\ ~UNCHANGED report
  <2>1. RunAt(w, "requeued") /\ report' = Pending(Mine(w).of)
    BY <1>10 DEF RequeueReport
  <2>2. LiveJob(run[w].j)
    BY <2>1 DEF RunAt, ReportInv, WritersLive, HandlerWrites
  <2>3. Writes(job[run[w].j].of, "pending")
    BY <1>1, <1>3, <2>1, ReportUpdates
  <2> QED
    BY <1>1, <2>2, <2>3 DEF Writes, ReportMoves, Entitled
<1> QED
  BY <1>4, <1>5, <1>6, <1>7, <1>8, <1>9, <1>10 DEF Works, ClaimJob, StopAi, FailJob, AutoRetry,
     CreateAuto, AutoRow, RequeueJob, HandlerDispatch, MarkJob

\* Every step moves a report in one of those ways.
LEMMA ReportStep ==
  ASSUME ReportInv, ~Late, ReportNext, NEW r \in Reports
  PROVE  ReportMoves(r)
<1>1. TypeInv
  BY DEF ReportInv
<1>2. CASE UNCHANGED report
  BY <1>2 DEF ReportMoves
<1>3. ASSUME NEW q \in Reports, ImportReport(q)
      PROVE  ReportMoves(r)
  <2>1. report[q].status = "none" /\ Writes(q, "pending")
    BY <1>1, <1>3, ReportUpdates DEF ImportReport
  <2> QED
    BY <2>1 DEF Writes, ReportMoves
<1>4. ASSUME NEW q \in Reports, RetryRace(q)
      PROVE  ReportMoves(r)
  <2>1. PICK st \in {"pending", "working", "analyzing"} :
          report' = [report EXCEPT ![q] = [status |-> st, fault |-> FALSE, cancel |-> FALSE]]
    BY <1>4 DEF RetryRace
  <2>2. Writes(q, st) /\ asking[q] = "race"
    BY <1>1, <1>4, <2>1, ReportUpdates DEF RetryRace
  <2> QED
    BY <2>2 DEF Writes, ReportMoves, Entitled
<1>5. ASSUME NEW j \in ReportJobs, MakeReport(j)
      PROVE  ReportMoves(r)
  <2>1. LiveJob(j) /\ Writes(job[j].of, "pending")
    BY <1>1, <1>5, ReportUpdates DEF MakeReport, ReportInv, WritersLive, Requester
  <2> QED
    BY <2>1, EntitledWrite
<1>6. ASSUME NEW q \in Reports, CancelUnclaimed(q) \/ RequestAnalysisCancel(q)
      PROVE  ReportMoves(r)
  <2>1. report' = [report EXCEPT ![q].cancel = TRUE]
    BY <1>6 DEF CancelUnclaimed, RequestAnalysisCancel
  <2> QED
    BY <1>1, <2>1, ReportUpdates DEF ReportMoves
<1>7. ASSUME NEW w \in Analysts, Handling(w)
      PROVE  ReportMoves(r)
  BY <1>2, <1>7, ReportHandler DEF Handling, Works, SettleDelivery
<1>8. ASSUME NEW w \in Analysts, Recovery(w)
      PROVE  ReportMoves(r)
  <2>1. CASE RecoverReport(w)
    <3>1. pass[w].cur \in ReportJobs /\ LiveJob(pass[w].cur)
      BY <2>1 DEF RecoverReport, Recovering, ReportInv, WritersLive, Recoverer
    <3>2. Writes(job[pass[w].cur].of, "pending")
      BY <1>1, <2>1, ReportUpdates DEF RecoverReport
    <3> QED
      BY <3>1, <3>2, EntitledWrite
  <2> QED
    BY <1>2, <1>8, <2>1 DEF Recovery, FailStaleActive, ReadInterrupted, RecoverJob, RecoverDispatch
<1>9. CASE \/ \E q \in Reports : CreateJob(q) \/ CreateRetry(q) \/ AskRetry(q)
           \/ \E j \in ReportJobs : MakeRow(j) \/ Passage(j)
           \/ MakeDispatch \/ AbandonRequest
           \/ \E w \in Analysts : \/ Take(w) \/ BeatJob(w) \/ Pause(w) \/ PauseDelivery(w)
                                  \/ CloseWorker(w) \/ CrashWorker(w) \/ StartWorker(w)
  <2>1. UNCHANGED report
    BY <1>9 DEF CreateJob, CreateRetry, AskRetry, MakeRow, Passage, GrowStale, BecomeDue,
       StallDelivery, MakeDispatch, AbandonRequest, Take, TakeDelivery, BeatJob, Pause,
       PauseDelivery, CloseWorker, CrashWorker, Ended, StartWorker
  <2> QED
    BY <1>2, <2>1
<1> QED
  BY <1>3, <1>4, <1>5, <1>6, <1>7, <1>8, <1>9 DEF ReportNext, Requesting

-----------------------------------------------------------------------------
(* What a step does to those who write *)

\* A request that has still to write to the report or the row.
Making == {"report", "row"}

\* A Retry that was accepted.
Retrying == {"race", "create"}

\* A request that is about to write was so before, or has just created its row.
MakerMoves(j) ==
  maker'[j] \in Making => \/ maker[j] \in Making
                          \/ job[j].status = "none" /\ job'[j].status = "queued"

\* A Retry is accepted for a report that is neither new nor ready for review; an
\* import is that of a new report.
AskMoves(r) ==
  /\ asking'[r] \in Retrying =>
       \/ asking[r] \in Retrying
       \/ r \notin importing' /\ report'[r].status \notin {"none", "review"}
  /\ r \in importing' =>
       \/ r \in importing
       \/ report[r].status = "none" /\ report'[r].status = "pending"

\* A handler that is where it was, or has no row.
Stays(w) == \/ run'[w] = run[w]
            \/ run'[w].at \notin Claimed

\* A handler takes up a row.
Claims(w) == run'[w].at = "extract" /\ LiveJob(run[w].j)

\* It goes on, without a new unfenced write.
WritesOn(w) == \/ run'[w].at \notin {"create", "row", "pending", "requeued"}
               \/ run[w].at = "row" /\ run'[w].at = "pending"

\* It reads that an automatic retry is due.
ReadsReport(w) == /\ run'[w].at = "create" /\ MyReport(w).status = "failed"
                  /\ UNCHANGED <<report, job>>

\* It creates the row of the automatic retry.
CreatesJob(w) == /\ run'[w].at = "row" /\ run'[w].new \in ReportJobs
                 /\ job[run'[w].new].status = "none"
                 /\ job'[run'[w].new].status = "queued" /\ job'[run'[w].new].of = Mine(w).of

\* It is told to stop, and gives its row back.
GivesBack(w) == run'[w].at = "requeued" /\ job'[run[w].j].status = "queued"

\* The ways a handler moves, as far as unfenced writes are concerned.
HandlerMoves(w) ==
  \/ Stays(w)
  \/ /\ run'[w].j = run[w].j /\ run[w].j \in ReportJobs
     /\ \/ Claims(w)
        \/ run[w].at \in Claimed /\ run'[w].new = run[w].new /\ WritesOn(w)
        \/ run[w].at \in Claimed /\ (ReadsReport(w) \/ CreatesJob(w) \/ GivesBack(w))

\* Recovery writes on to the report, or has just given the row back.
PassMoves(w) ==
  pass'[w].at = "pending" =>
    \/ pass[w].at = "pending" /\ pass'[w].cur = pass[w].cur
    \/ pass'[w].cur \in ReportJobs /\ job'[pass'[w].cur].status = "queued"

\* A handler that goes on.
LEMMA Goes ==
  ASSUME TypeInv, NEW w \in Analysts, NEW at, Then(w, at)
  PROVE  /\ run'[w].at = at /\ run'[w].j = run[w].j /\ run'[w].new = run[w].new
         /\ \A x \in Analysts \ {w} : run'[x] = run[x]
<1>1. run \in [Analysts -> Handler] /\ run[w] \in Handler
  BY Typed
<1> QED
  BY <1>1 DEF Then, Handler

\* The stages of an analysis move a handler in one of those ways.
LEMMA HandlerWorks ==
  ASSUME ReportInv, NEW w \in Analysts, Works(w)
  PROVE  HandlerMoves(w) /\ \A x \in Analysts \ {w} : run'[x] = run[x]
<1>1. TypeInv /\ run[w].j \in ReportJobs
  BY WorksRun DEF ReportInv, TypeInv, RunTyped, HasDelivery
<1>2. job \in [ReportJobs -> ReportJob] /\ job[run[w].j] \in ReportJob
  BY <1>1, Typed
<1> DEFINE Goal == HandlerMoves(w) /\ \A x \in Analysts \ {w} : run'[x] = run[x]
<1>3. ASSUME NEW at, Then(w, at),
             \/ at \notin Claimed
             \/ run[w].at \in Claimed /\ at \notin {"create", "row", "pending", "requeued"}
      PROVE  Goal
  BY <1>1, <1>3, Goes DEF HandlerMoves, Stays, WritesOn
<1>4. ASSUME NEW why, run[w].at \in Claimed,
             run' = [run EXCEPT ![w].at = "failReport", ![w].why = why]
      PROVE  Goal
  <2>1. run \in [Analysts -> Handler] /\ run[w] \in Handler
    BY <1>1, Typed
  <2>2. /\ run'[w].at = "failReport" /\ run'[w].j = run[w].j /\ run'[w].new = run[w].new
        /\ \A x \in Analysts \ {w} : run'[x] = run[x]
    BY <1>4, <2>1 DEF Handler
  <2> QED
    BY <1>1, <1>4, <2>2 DEF HandlerMoves, WritesOn
<1> HIDE DEF Goal
<1>5. CASE ClaimJob(w)
  <2>1. \/ LiveJob(run[w].j) /\ Then(w, "extract")
        \/ Then(w, "settle") \/ Then(w, "thrown")
    BY <1>5 DEF ClaimJob
  <2>2. CASE LiveJob(run[w].j) /\ Then(w, "extract")
    BY <1>1, <2>2, Goes DEF Goal, HandlerMoves, Claims
  <2> QED
    BY <1>3, <2>1, <2>2 DEF Goal, Claimed
<1>6. CASE Extract(w) \/ BeginAi(w) \/ PersistOutcome(w)
  <2>1. /\ run[w].at \in Claimed
        /\ \/ Then(w, "begin") \/ Then(w, "ai") \/ Then(w, "outcome") \/ Then(w, "dispatch")
           \/ \E why : run' = [run EXCEPT ![w].at = "failReport", ![w].why = why]
    BY <1>6 DEF Extract, Reach, Refused, RunAt, BeginAi, PersistOutcome, Claimed
  <2> QED
    BY <1>3, <1>4, <2>1 DEF Goal, Claimed
<1>7. CASE StopAi(w)
  <2>1. /\ run[w].at \in Claimed
        /\ \/ Then(w, "requeue") \/ Then(w, "dispatch")
           \/ \E why : run' = [run EXCEPT ![w].at = "failReport", ![w].why = why]
    BY <1>7 DEF StopAi, RunAt, Claimed
  <2> QED
    BY <1>3, <1>4, <2>1 DEF Goal, Claimed
<1>8. CASE FailReport(w) \/ FailJob(w)
  <2>1. /\ run[w].at \in Claimed
        /\ \/ Then(w, "failReport") \/ Then(w, "failJob") \/ Then(w, "thrown")
           \/ Then(w, "auto") \/ Then(w, "dispatch")
    BY <1>8 DEF FailReport, FailJob, Refused, RunAt, Claimed
  <2> QED
    BY <1>3, <2>1 DEF Goal, Claimed
<1>9. CASE AutoRetry(w)
  <2>1. /\ run[w].at \in Claimed /\ UNCHANGED <<report, job>>
        /\ \/ MyReport(w).status = "failed" /\ Then(w, "create")
           \/ Then(w, "dispatch")
    BY <1>9 DEF AutoRetry, RunAt, Claimed
  <2>2. CASE MyReport(w).status = "failed" /\ Then(w, "create")
    BY <1>1, <2>1, <2>2, Goes DEF Goal, HandlerMoves, ReadsReport
  <2> QED
    BY <1>3, <2>1, <2>2 DEF Goal, Claimed
<1>10. CASE CreateAuto(w)
  <2>1. /\ run[w].at \in Claimed
        /\ \/ Then(w, "dispatch")
           \/ /\ UnusedJobs # {}
              /\ job' = [job EXCEPT ![Min(UnusedJobs)] = NewJob(Mine(w).of, FALSE)]
              /\ run' = [run EXCEPT ![w].at = "row", ![w].new = Min(UnusedJobs)]
    BY <1>10 DEF CreateAuto, RunAt, Claimed
  <2>2. CASE ~Then(w, "dispatch")
    <3> DEFINE n == Min(UnusedJobs)
    <3>1. n \in ReportJobs /\ job[n].status = "none"
      BY <2>1, <2>2, Picked DEF UnusedJobs
    <3>2. /\ job' = [job EXCEPT ![n] = NewJob(Mine(w).of, FALSE)]
          /\ run' = [run EXCEPT ![w].at = "row", ![w].new = n]
      BY <2>1, <2>2
    <3> HIDE DEF n
    <3>3. Mine(w).of \in Reports \cup {None}
      BY <1>2 DEF Mine, ReportJob
    <3>4. job'[n].status = "queued" /\ job'[n].of = Mine(w).of
      BY <1>2, <3>1, <3>2, <3>3, NewJobType
    <3>5. run \in [Analysts -> Handler] /\ run[w] \in Handler
      BY <1>1, Typed
    <3>6. /\ run'[w].at = "row" /\ run'[w].new = n /\ run'[w].j = run[w].j
          /\ \A x \in Analysts \ {w} : run'[x] = run[x]
      BY <3>2, <3>5 DEF Handler
    <3> QED
      BY <1>1, <2>1, <3>1, <3>4, <3>6 DEF Goal, HandlerMoves, CreatesJob
  <2> QED
    BY <1>3, <2>1, <2>2 DEF Goal, Claimed
<1>11. CASE AutoRow(w)
  <2>1. run[w].at = "row" /\ (Then(w, "pending") \/ Then(w, "dispatch"))
    BY <1>11 DEF AutoRow, RunAt
  <2>2. CASE Then(w, "pending")
    BY <1>1, <2>1, <2>2, Goes DEF Goal, HandlerMoves, WritesOn, Claimed
  <2> QED
    BY <1>3, <2>1, <2>2 DEF Goal, Claimed
<1>12. CASE RequeueJob(w)
  <2>1. /\ run[w].at = "requeue"
        /\ \/ job' = Requeued(run[w].j) /\ Then(w, "requeued")
           \/ Then(w, "dispatch")
    BY <1>12 DEF RequeueJob, RunAt
  <2>2. CASE job' = Requeued(run[w].j) /\ Then(w, "requeued")
    <3>1. job'[run[w].j].status = "queued"
      BY <1>1, <1>2, <2>2 DEF Requeued, ReportJob
    <3> QED
      BY <1>1, <2>1, <2>2, <3>1, Goes DEF Goal, HandlerMoves, GivesBack, Claimed
  <2> QED
    BY <1>3, <2>1, <2>2 DEF Goal, Claimed
<1>13. CASE \/ AutoPending(w) \/ RequeueReport(w) \/ HandlerDispatch(w)
            \/ MarkReport(w) \/ MarkJob(w)
  <2>1. \/ Then(w, "dispatch") \/ Then(w, "settle") \/ Then(w, "raised")
        \/ Then(w, "markJob") \/ Then(w, "marked")
    BY <1>13 DEF AutoPending, RequeueReport, HandlerDispatch, MarkReport, MarkJob
  <2> QED
    BY <1>3, <2>1 DEF Goal, Claimed
<1> QED
  BY <1>5, <1>6, <1>7, <1>8, <1>9, <1>10, <1>11, <1>12, <1>13 DEF Works, Goal

\* Every step does.
LEMMA HandlerStep ==
  ASSUME ReportInv, ReportNext, NEW w \in Analysts
  PROVE  HandlerMoves(w)
<1>1. run \in [Analysts -> Handler]
  BY Typed DEF ReportInv
<1>2. CASE UNCHANGED run
  BY <1>2 DEF HandlerMoves, Stays
<1>3. ASSUME NEW x \in Analysts, Works(x)
      PROVE  HandlerMoves(w)
  <2>1. CASE x = w
    BY <1>3, <2>1, HandlerWorks
  <2>2. CASE x # w
    <3>1. run'[w] = run[w]
      BY <1>3, <2>2, HandlerWorks
    <3> QED
      BY <3>1 DEF HandlerMoves, Stays
  <2> QED
    BY <2>1, <2>2
<1>4. ASSUME NEW x \in Analysts, Take(x) \/ SettleDelivery(x) \/ CrashWorker(x)
      PROVE  HandlerMoves(w)
  <2>1. CASE Take(x)
    <3>1. PICK j \in ReportJobs, k \in Copy : TakeDelivery(x, j, k)
      BY <2>1 DEF Take
    <3>2. run' = [run EXCEPT ![x] = [NoHandler EXCEPT !.at = "claim", !.j = j, !.copy = k]]
      BY <3>1 DEF TakeDelivery
    <3>3. [NoHandler EXCEPT !.at = "claim", !.j = j, !.copy = k].at = "claim"
      BY DEF NoHandler
    <3>4. run'[w] = run[w] \/ run'[w].at = "claim"
      BY <1>1, <3>2, <3>3
    <3> QED
      BY <3>4 DEF HandlerMoves, Stays, Claimed
  <2>2. CASE run' = [run EXCEPT ![x] = NoHandler]
    <3>1. run'[w] = run[w] \/ run'[w].at = "idle"
      BY <1>1, <2>2 DEF NoHandler
    <3> QED
      BY <3>1 DEF HandlerMoves, Stays, Claimed
  <2> QED
    BY <1>4, <2>1, <2>2 DEF SettleDelivery, CrashWorker, Ended
<1>5. CASE \/ Requesting \/ AbandonRequest
           \/ \E r \in Reports : \/ ImportReport(r) \/ AskRetry(r)
                                 \/ CancelUnclaimed(r) \/ RequestAnalysisCancel(r)
           \/ \E x \in Analysts : \/ BeatJob(x) \/ Recovery(x) \/ Pause(x) \/ PauseDelivery(x)
                                  \/ CloseWorker(x) \/ StartWorker(x)
           \/ \E j \in ReportJobs : Passage(j)
  <2>1. UNCHANGED run
    BY <1>5 DEF Requesting, CreateJob, RetryRace, CreateRetry, MakeReport, MakeRow, MakeDispatch,
       AbandonRequest, ImportReport, AskRetry, CancelUnclaimed, RequestAnalysisCancel, BeatJob,
       Recovery, FailStaleActive, ReadInterrupted, RecoverJob, RecoverReport, RecoverDispatch,
       Pause, PauseDelivery, CloseWorker, StartWorker, Passage, GrowStale, BecomeDue, StallDelivery
  <2> QED
    BY <1>2, <2>1
<1> QED
  BY <1>3, <1>4, <1>5 DEF ReportNext, Handling, Works

\* Every step moves the maker of a job as MakerMoves says.
LEMMA MakerStep ==
  ASSUME ReportInv, ReportNext, NEW j \in ReportJobs
  PROVE  MakerMoves(j)
<1>1. /\ maker \in [ReportJobs -> {"no", "report", "row", "dispatch"}]
      /\ job \in [ReportJobs -> ReportJob]
  BY DEF ReportInv, TypeInv, ApiTyped, StoreTyped
<1>2. CASE UNCHANGED maker
  BY <1>2 DEF MakerMoves
<1>3. ASSUME NEW r \in Reports, CreateJob(r) \/ CreateRetry(r), ~UNCHANGED maker
      PROVE  MakerMoves(j)
  <2>1. /\ UnusedJobs # {}
        /\ job' = [job EXCEPT ![Min(UnusedJobs)] = NewJob(r, TRUE)]
        /\ \E m : maker' = [maker EXCEPT ![Min(UnusedJobs)] = m]
    BY <1>3 DEF CreateJob, CreateRetry
  <2>2. Min(UnusedJobs) \in UnusedJobs
    BY <2>1, Picked
  <2>3. CASE j = Min(UnusedJobs)
    <3>1. job[j].status = "none" /\ job'[j] = NewJob(r, TRUE)
      BY <1>1, <2>1, <2>2, <2>3 DEF UnusedJobs
    <3> QED
      BY <3>1, NewJobType DEF MakerMoves
  <2>4. CASE j # Min(UnusedJobs)
    BY <1>1, <2>1, <2>4 DEF MakerMoves
  <2> QED
    BY <2>3, <2>4
<1>4. CASE \/ \E i \in ReportJobs : MakeReport(i) \/ MakeRow(i)
           \/ MakeDispatch \/ AbandonRequest
  <2>1. \/ UNCHANGED maker
        \/ \E i : maker' = [maker EXCEPT ![i] = "no"]
        \/ \E i : maker' = [maker EXCEPT ![i] = "dispatch"]
        \/ \E i \in ReportJobs : maker[i] = "report" /\ maker' = [maker EXCEPT ![i] = "row"]
    BY <1>4 DEF MakeReport, MakeRow, MakeDispatch, AbandonRequest
  <2> QED
    BY <1>1, <2>1 DEF MakerMoves, Making
<1>5. CASE \/ \E r \in Reports : \/ RetryRace(r) \/ ImportReport(r) \/ AskRetry(r)
                                 \/ CancelUnclaimed(r) \/ RequestAnalysisCancel(r)
           \/ \E w \in Analysts : \/ Take(w) \/ Handling(w) \/ BeatJob(w) \/ Recovery(w)
                                  \/ Pause(w) \/ PauseDelivery(w)
                                  \/ CloseWorker(w) \/ CrashWorker(w) \/ StartWorker(w)
           \/ \E i \in ReportJobs : Passage(i)
  <2>1. ASSUME NEW w \in Analysts, Handling(w)
        PROVE  UNCHANGED maker
    BY <2>1, WorksRun DEF ReportInv, Handling, Works, SettleDelivery, apiVars
  <2>2. UNCHANGED maker
    BY <1>5, <2>1 DEF RetryRace, ImportReport, AskRetry, CancelUnclaimed, RequestAnalysisCancel,
       Take, TakeDelivery, BeatJob, Recovery, FailStaleActive, ReadInterrupted, RecoverJob,
       RecoverReport, RecoverDispatch, Pause, PauseDelivery, CloseWorker, CrashWorker, Ended,
       StartWorker, Passage, GrowStale, BecomeDue, StallDelivery, apiVars
  <2> QED
    BY <1>2, <2>2
<1> QED
  BY <1>2, <1>3, <1>4, <1>5 DEF ReportNext, Requesting

\* Every step moves a Retry as AskMoves says.
LEMMA AskStep ==
  ASSUME ReportInv, ReportNext, NEW r \in Reports
  PROVE  AskMoves(r)
<1>1. /\ asking \in [Reports -> {"no", "create", "race", "dispatch"}]
      /\ importing \subseteq Reports
      /\ report \in [Reports -> ReportRow] /\ TypeInv
  BY DEF ReportInv, TypeInv, ApiTyped, StoreTyped
<1>2. CASE UNCHANGED <<asking, importing>>
  BY <1>2 DEF AskMoves
<1>3. ASSUME NEW q \in Reports, AskRetry(q)
      PROVE  AskMoves(r)
  <2>1. UNCHANGED <<report, importing>> /\ \A x \in Reports \ {q} : asking'[x] = asking[x]
    BY <1>1, <1>3 DEF AskRetry
  <2>2. CASE r = q /\ asking'[q] \in Retrying
    <3>1. report[q].status = "failed" \/ Orphaned(q)
      BY <1>1, <1>3, <2>2 DEF AskRetry, Retrying
    <3>2. report[q].status \notin {"none", "review"}
      BY <3>1 DEF Orphaned, ActiveReport
    <3>3. q \notin importing
      <4>1. ASSUME q \in importing
            PROVE  report[q].status = "pending" /\ \A j \in ReportJobs : job[j].of # q
        BY <4>1 DEF ReportInv, NewReports, Unasked
      <4> QED
        BY <3>1, <4>1 DEF Orphaned
    <3> QED
      BY <2>1, <2>2, <3>2, <3>3 DEF AskMoves
  <2> QED
    BY <2>1, <2>2 DEF AskMoves
<1>4. ASSUME NEW q \in Reports, ImportReport(q)
      PROVE  AskMoves(r)
  <2>1. /\ UNCHANGED asking /\ importing' = importing \cup {q}
        /\ report[q].status = "none" /\ report'[q].status = "pending"
    BY <1>1, <1>4, ReportUpdates DEF ImportReport, Writes
  <2> QED
    BY <2>1 DEF AskMoves
<1>5. CASE \/ \E q \in Reports : \/ CreateJob(q) \/ RetryRace(q) \/ CreateRetry(q)
                                 \/ CancelUnclaimed(q) \/ RequestAnalysisCancel(q)
           \/ \E j \in ReportJobs : MakeReport(j) \/ MakeRow(j) \/ Passage(j)
           \/ MakeDispatch \/ AbandonRequest
           \/ \E w \in Analysts : \/ Take(w) \/ Handling(w) \/ BeatJob(w) \/ Recovery(w)
                                  \/ Pause(w) \/ PauseDelivery(w)
                                  \/ CloseWorker(w) \/ CrashWorker(w) \/ StartWorker(w)
  <2>1. ASSUME NEW w \in Analysts, Handling(w)
        PROVE  UNCHANGED <<asking, importing>>
    <3>1. CASE Works(w)
      BY <1>1, <3>1, WorksRun DEF apiVars
    <3>2. CASE SettleDelivery(w)
      BY <3>2 DEF SettleDelivery, apiVars
    <3> QED
      BY <2>1, <3>1, <3>2 DEF Handling, Works
  <2>2. importing' \subseteq importing
    BY <1>5, <2>1 DEF CreateJob, RetryRace, CreateRetry, CancelUnclaimed, RequestAnalysisCancel,
       MakeReport, MakeRow, MakeDispatch, AbandonRequest,
       Take, TakeDelivery, BeatJob, Recovery, FailStaleActive, ReadInterrupted, RecoverJob,
       RecoverReport, RecoverDispatch, Pause, PauseDelivery, CloseWorker, CrashWorker, Ended,
       StartWorker, Passage, GrowStale, BecomeDue, StallDelivery, apiVars
  <2>3. \/ UNCHANGED asking
        \/ \E q : asking' = [asking EXCEPT ![q] = "no"]
        \/ \E q : asking' = [asking EXCEPT ![q] = "dispatch"]
    BY <1>5, <2>1 DEF CreateJob, RetryRace, CreateRetry, CancelUnclaimed, RequestAnalysisCancel,
       MakeReport, MakeRow, MakeDispatch, AbandonRequest,
       Take, TakeDelivery, BeatJob, Recovery, FailStaleActive, ReadInterrupted, RecoverJob,
       RecoverReport, RecoverDispatch, Pause, PauseDelivery, CloseWorker, CrashWorker, Ended,
       StartWorker, Passage, GrowStale, BecomeDue, StallDelivery, apiVars
  <2> QED
    BY <1>1, <2>2, <2>3 DEF AskMoves, Retrying
<1> QED
  BY <1>3, <1>4, <1>5 DEF ReportNext, Requesting

\* Every step moves a recovery pass as PassMoves says.
LEMMA PassStep ==
  ASSUME ReportInv, ReportNext, NEW w \in Analysts
  PROVE  PassMoves(w)
<1>1. TypeInv /\ pass \in [Analysts -> RecoveryState] /\ job \in [ReportJobs -> ReportJob]
  BY Typed DEF ReportInv
<1>2. CASE UNCHANGED pass
  BY <1>2 DEF PassMoves
<1>3. ASSUME NEW x \in Analysts, RecoverJob(x)
      PROVE  PassMoves(w)
  <2>1. PICK f \in pass[x].todo :
          \/ /\ job' = Requeued(f.j)
             /\ pass' = [pass EXCEPT ![x].todo = @ \ {f}, ![x].at = "pending", ![x].cur = f.j]
          \/ pass' = [pass EXCEPT ![x].todo = @ \ {f}] /\ pass[x].at = "recover"
    BY <1>3 DEF RecoverJob, Recovering
  <2>2. f.j \in ReportJobs /\ pass[x] \in RecoveryState /\ pass[w] \in RecoveryState
    BY <1>1 DEF RecoveryState, Finding
  <2>3. job' = Requeued(f.j) => job'[f.j].status = "queued"
    <3>1. job[f.j] \in ReportJob
      BY <1>1, <2>2
    <3> QED
      BY <1>1, <2>2, <3>1 DEF Requeued, ReportJob
  <2>4. CASE w # x
    <3>1. pass'[w] = pass[w]
      BY <1>1, <2>1, <2>4
    <3> QED
      BY <3>1 DEF PassMoves
  <2>5. CASE w = x
    BY <1>1, <2>1, <2>2, <2>3, <2>5 DEF PassMoves, RecoveryState
  <2> QED
    BY <2>4, <2>5
<1>4. ASSUME NEW x \in Analysts,
             \/ FailStaleActive(x) \/ ReadInterrupted(x) \/ RecoverReport(x) \/ RecoverDispatch(x)
             \/ CrashWorker(x) \/ StartWorker(x)
      PROVE  PassMoves(w)
  <2>1. PICK v : pass' = [pass EXCEPT ![x] = v] /\ v.at # "pending"
    <3>1. CASE RecoverReport(x)
      <4>1. /\ pass' = [pass EXCEPT ![x] = [@ EXCEPT !.at = "recover", !.cur = 0]]
            /\ pass[x] \in RecoveryState
        BY <1>1, <3>1 DEF RecoverReport
      <4>2. [pass[x] EXCEPT !.at = "recover", !.cur = 0].at = "recover"
        BY <4>1 DEF RecoveryState
      <4> QED
        BY <4>1, <4>2
    <3>2. CASE FailStaleActive(x) \/ ReadInterrupted(x) \/ StartWorker(x)
      <4>1. \/ pass' = [pass EXCEPT ![x] = [NoRecovery EXCEPT !.at = "read"]]
            \/ \E S : pass' = [pass EXCEPT ![x] = [NoRecovery EXCEPT !.at = "recover", !.todo = S]]
            \/ \E S : pass' = [pass EXCEPT ![x] = [NoRecovery EXCEPT !.at = "startup", !.old = S]]
        BY <3>2 DEF FailStaleActive, ReadInterrupted, StartWorker
      <4>2. /\ [NoRecovery EXCEPT !.at = "read"].at # "pending"
            /\ \A S : [NoRecovery EXCEPT !.at = "recover", !.todo = S].at # "pending"
            /\ \A S : [NoRecovery EXCEPT !.at = "startup", !.old = S].at # "pending"
        BY DEF NoRecovery
      <4> QED
        BY <4>1, <4>2
    <3>3. CASE RecoverDispatch(x) \/ CrashWorker(x)
      <4>1. pass' = [pass EXCEPT ![x] = NoRecovery] /\ NoRecovery.at # "pending"
        BY <3>3 DEF RecoverDispatch, CrashWorker, Ended, NoRecovery
      <4> QED
        BY <4>1
    <3> QED
      BY <1>4, <3>1, <3>2, <3>3
  <2>2. pass'[w] = pass[w] \/ pass'[w].at # "pending"
    BY <1>1, <2>1
  <2> QED
    BY <2>2 DEF PassMoves
<1>5. CASE \/ Requesting \/ AbandonRequest
           \/ \E r \in Reports : \/ ImportReport(r) \/ AskRetry(r)
                                 \/ CancelUnclaimed(r) \/ RequestAnalysisCancel(r)
           \/ \E x \in Analysts : \/ Take(x) \/ Handling(x) \/ BeatJob(x)
                                  \/ Pause(x) \/ PauseDelivery(x) \/ CloseWorker(x)
           \/ \E j \in ReportJobs : Passage(j)
  <2>1. ASSUME NEW x \in Analysts, Handling(x)
        PROVE  UNCHANGED pass
    BY <1>1, <2>1, WorksRun DEF Handling, Works, SettleDelivery
  <2>2. UNCHANGED pass
    BY <1>5, <2>1 DEF Requesting, CreateJob, RetryRace, CreateRetry, MakeReport, MakeRow, MakeDispatch,
       AbandonRequest, ImportReport, AskRetry, CancelUnclaimed, RequestAnalysisCancel, BeatJob,
       Take, TakeDelivery, Pause, PauseDelivery, CloseWorker, Passage, GrowStale, BecomeDue,
       StallDelivery
  <2> QED
    BY <1>2, <2>2
<1> QED
  BY <1>3, <1>4, <1>5 DEF ReportNext, Recovery

-----------------------------------------------------------------------------
(* The invariant is inductive *)

\* A row that this step created.
NewRow(j) == /\ job[j].status = "none" /\ job'[j].of \in Reports
             /\ CreatedRow(j, job'[j].of)

\* What becomes of one row.
LEMMA RowFacts ==
  ASSUME ReportInv, ~Late, ReportNext, NEW j \in ReportJobs
  PROVE  /\ job[j].status # "none" => job'[j].status # "none" /\ job'[j].of = job[j].of
         /\ job'[j].status # "none" => job[j].status # "none" \/ NewRow(j)
         /\ LiveJob(j)' => (LiveJob(j) /\ job'[j].of = job[j].of) \/ NewRow(j)
         /\ LiveJob(j) /\ Outstanding(j) => LiveJob(j)'
         /\ job[j].status \in {"completed", "failed"} => job'[j].status = job[j].status
         /\ job'[j].of = job[j].of \/ NewRow(j)
<1>1. CASE RowsKept
  BY <1>1 DEF RowsKept, KeptRow, LiveJob
<1>2. ASSUME NEW n \in UnusedJobs, NEW r \in Reports, CreatedRow(n, r)
      PROVE  /\ job'[j] = job[j] \/ NewRow(j)
             /\ job[j].status # "none" => job'[j] = job[j]
  BY <1>2 DEF CreatedRow, NewRow, UnusedJobs
<1>3. CASE \E n \in UnusedJobs, r \in Reports : CreatedRow(n, r)
  BY <1>2, <1>3 DEF LiveJob
<1>4. ASSUME NEW E \in SUBSET ReportJobs, EndedRows(E)
      PROVE  \/ job'[j] = job[j]
             \/ /\ LiveJob(j) /\ ~Outstanding(j)
                /\ job'[j].status \in {"completed", "failed"} /\ job'[j].of = job[j].of
  BY <1>4 DEF EndedRows
<1>5. CASE \E E \in SUBSET ReportJobs : EndedRows(E)
  BY <1>4, <1>5 DEF LiveJob
<1> QED
  BY <1>1, <1>3, <1>5, RowNext DEF RowMoves

\* A new row is the only live one of its report.
LEMMA JobNext ==
  ASSUME ReportInv, ~Late, ReportNext
  PROVE  JobInv'
<1>1. ASSUME NEW j \in ReportJobs, job'[j].status # "none"
      PROVE  job'[j].of \in Reports
  BY <1>1, RowFacts DEF NewRow, ReportInv, JobInv
<1>2. ASSUME NEW i \in ReportJobs, NEW j \in ReportJobs, LiveJob(i)', LiveJob(j)',
             job'[i].of = job'[j].of
      PROVE  i = j
  <2>1. /\ (LiveJob(i) /\ job'[i].of = job[i].of) \/ NewRow(i)
        /\ (LiveJob(j) /\ job'[j].of = job[j].of) \/ NewRow(j)
    BY <1>2, RowFacts
  <2>2. CASE LiveJob(i) /\ job'[i].of = job[i].of /\ LiveJob(j) /\ job'[j].of = job[j].of
    BY <1>2, <2>2 DEF ReportInv, JobInv
  <2>3. CASE NewRow(i)
    <3>1. /\ \A k \in ReportJobs \ {i} : job'[k] = job[k]
          /\ \A k \in ReportJobs : LiveJob(k) => job[k].of # job'[i].of
      BY <2>3 DEF NewRow, CreatedRow
    <3> QED
      BY <1>2, <3>1 DEF LiveJob
  <2>4. CASE NewRow(j)
    <3>1. /\ \A k \in ReportJobs \ {j} : job'[k] = job[k]
          /\ \A k \in ReportJobs : LiveJob(k) => job[k].of # job'[j].of
      BY <2>4 DEF NewRow, CreatedRow
    <3> QED
      BY <1>2, <3>1 DEF LiveJob
  <2> QED
    BY <2>1, <2>2, <2>3, <2>4
<1> QED
  BY <1>1, <1>2 DEF JobInv

\* A report that was imported is untouched until its job is created.
LEMMA NewReportsNext ==
  ASSUME ReportInv, ~Late, ReportNext
  PROVE  NewReports'
<1> SUFFICES ASSUME NEW r \in Reports
             PROVE  /\ r \in importing' => report'[r].status = "pending"
                    /\ r \in importing' \/ report'[r].status = "none" => Unasked(r)'
  BY DEF NewReports
<1>1. ReportMoves(r) /\ AskMoves(r)
  BY ReportStep, AskStep
<1>2. /\ r \in importing => report[r].status = "pending"
      /\ r \in importing \/ report[r].status = "none" => Unasked(r)
  BY DEF ReportInv, NewReports
<1>3. Unasked(r) => ~Entitled(r) /\ ~Completes(r)
  BY DEF Unasked, Entitled, Completes, Retrying
<1>4. r \in importing' => report'[r].status = "pending"
  BY <1>1, <1>2, <1>3 DEF ReportMoves, AskMoves
<1>5. r \in importing' \/ report'[r].status = "none"
        => r \in importing \/ report[r].status = "none"
  BY <1>1, <1>2, <1>3 DEF ReportMoves, AskMoves, Completes
<1>6. ASSUME r \in importing' \/ report'[r].status = "none", Unasked(r)
      PROVE  Unasked(r)'
  <2>1. asking'[r] \notin Retrying
    BY <1>1, <1>6 DEF AskMoves, Unasked, Retrying
  <2>2. ASSUME NEW j \in ReportJobs PROVE job'[j].of # r
    <3>1. job'[j].of = job[j].of \/ NewRow(j)
      BY RowFacts
    <3>2. CASE NewRow(j)
      BY <1>6, <3>2 DEF NewRow, CreatedRow
    <3> QED
      BY <1>6, <3>1, <3>2 DEF Unasked
  <2> QED
    BY <2>1, <2>2 DEF Unasked, Retrying
<1> QED
  BY <1>2, <1>4, <1>5, <1>6

\* Rows are never deleted.
LEMMA HandlerJobNext ==
  ASSUME ReportInv, ~Late, ReportNext
  PROVE  HandlerJob'
<1> SUFFICES ASSUME NEW w \in Analysts, run'[w].at \in Claimed
             PROVE  job'[run'[w].j].status # "none"
  BY DEF HandlerJob, Mine
<1>1. HandlerMoves(w)
  BY HandlerStep
<1>2. run[w].at \in Claimed => run[w].j \in ReportJobs /\ job[run[w].j].status # "none"
  BY DEF ReportInv, TypeInv, RunTyped, HasDelivery, HandlerJob, Mine, Claimed
<1>3. run'[w].j = run[w].j /\ run[w].j \in ReportJobs /\ job[run[w].j].status # "none"
  BY <1>1, <1>2 DEF HandlerMoves, Stays, Claims, LiveJob
<1> QED
  BY <1>3, RowFacts

\* Nobody ends a job that is still written to.
LEMMA WritersNext ==
  ASSUME ReportInv, ~Late, ReportNext
  PROVE  WritersLive'
<1>1. \A j \in ReportJobs : LiveJob(j) /\ Outstanding(j) => LiveJob(j)'
  BY RowFacts
<1>2. ASSUME NEW j \in ReportJobs PROVE Requester(j)'
  <2>1. MakerMoves(j) /\ Requester(j)
    BY MakerStep DEF ReportInv, WritersLive
  <2>2. maker[j] \in Making => Outstanding(j)
    BY DEF Making, Outstanding
  <2> QED
    BY <1>1, <2>1, <2>2 DEF MakerMoves, Requester, Making, LiveJob
<1>3. ASSUME NEW w \in Analysts PROVE Recoverer(w)'
  <2>1. PassMoves(w) /\ Recoverer(w)
    BY PassStep DEF ReportInv, WritersLive
  <2>2. pass[w].at = "pending" => Outstanding(pass[w].cur)
    BY DEF Outstanding
  <2>3. CASE pass[w].at = "pending" /\ pass'[w].cur = pass[w].cur
    BY <1>1, <2>1, <2>2, <2>3 DEF Recoverer, LiveJob
  <2> QED
    BY <2>1, <2>3 DEF PassMoves, Recoverer, LiveJob
<1>4. ASSUME NEW w \in Analysts PROVE HandlerWrites(w)'
  <2>1. HandlerMoves(w) /\ HandlerWrites(w)
    BY HandlerStep DEF ReportInv, WritersLive
  <2>2. /\ run[w].at \in {"row", "pending"} => Outstanding(run[w].new)
        /\ run[w].at = "requeued" => Outstanding(run[w].j)
    BY DEF Outstanding
  <2>3. run[w].at \in Claimed => run[w].j \in ReportJobs /\ job[run[w].j].status # "none"
    BY DEF ReportInv, TypeInv, RunTyped, HasDelivery, HandlerJob, Mine, Claimed
  <2>4. ASSUME run'[w].at \in {"row", "pending"}
        PROVE  /\ run'[w].new \in ReportJobs
               /\ job'[run'[w].new].status \in {"queued", "running"}
               /\ job'[run'[w].new].of = job'[run'[w].j].of
    <3>1. \/ /\ run[w].at \in {"row", "pending"}
             /\ run'[w].new = run[w].new /\ run'[w].j = run[w].j
          \/ run'[w].j = run[w].j /\ run[w].at \in Claimed /\ CreatesJob(w)
      BY <2>1, <2>4 DEF HandlerMoves, Stays, Claims, WritesOn, ReadsReport, GivesBack, Claimed
    <3>2. CASE /\ run[w].at \in {"row", "pending"}
               /\ run'[w].new = run[w].new /\ run'[w].j = run[w].j
      <4>1. /\ run[w].new \in ReportJobs /\ LiveJob(run[w].new)
            /\ job[run[w].new].of = job[run[w].j].of /\ run[w].at \in Claimed
        BY <2>1, <3>2 DEF HandlerWrites, Mine, Claimed
      <4>2. job'[run[w].new].status \in {"queued", "running"}
        <5>1. PICK n \in ReportJobs : n = run[w].new
          BY <4>1
        <5>2. LiveJob(n)'
          BY <1>1, <2>2, <3>2, <4>1, <5>1
        <5> QED
          BY <5>1, <5>2 DEF LiveJob
      <4>3. job'[run[w].new].of = job[run[w].new].of
        BY <4>1, RowFacts DEF LiveJob
      <4>4. job'[run[w].j].of = job[run[w].j].of
        BY <2>3, <4>1, RowFacts
      <4> QED
        BY <3>2, <4>1, <4>2, <4>3, <4>4
    <3>3. CASE run'[w].j = run[w].j /\ run[w].at \in Claimed /\ CreatesJob(w)
      <4>1. job'[run[w].j].of = job[run[w].j].of
        BY <2>3, <3>3, RowFacts
      <4> QED
        BY <3>3, <4>1 DEF CreatesJob, Mine, LiveJob
    <3> QED
      BY <3>1, <3>2, <3>3
  <2>5. ASSUME run'[w].at = "requeued"
        PROVE  job'[run'[w].j].status \in {"queued", "running"}
    <3>1. /\ run'[w].j = run[w].j
          /\ run[w].at = "requeued" \/ job'[run[w].j].status = "queued"
      BY <2>1, <2>5 DEF HandlerMoves, Stays, Claims, WritesOn, ReadsReport, CreatesJob, GivesBack,
         Claimed
    <3>2. CASE run[w].at = "requeued"
      <4>1. run[w].j \in ReportJobs /\ LiveJob(run[w].j)
        BY <2>1, <2>3, <3>2 DEF HandlerWrites, Claimed
      <4>2. PICK n \in ReportJobs : n = run[w].j
        BY <4>1
      <4>3. LiveJob(n)'
        BY <1>1, <2>2, <3>2, <4>1, <4>2
      <4> QED
        BY <3>1, <4>2, <4>3 DEF LiveJob
    <3> QED
      BY <3>1, <3>2
  <2> QED
    BY <2>4, <2>5 DEF HandlerWrites, LiveJob, Mine
<1> QED
  BY <1>2, <1>3, <1>4 DEF WritersLive

\* An analysis completes when nothing of its report is left to be written.
LEMMA NotDoneNext ==
  ASSUME ReportInv, ~Late, ReportNext
  PROVE  NotDone'
<1>1. ASSUME NEW r \in Reports, report'[r].status = "review"
      PROVE  report[r].status = "review" \/ Completes(r)
  BY <1>1, ReportStep DEF ReportMoves
<1>2. ASSUME NEW j \in ReportJobs, LiveJob(j)', report'[job'[j].of].status = "review"
      PROVE  FALSE
  <2>1. (LiveJob(j) /\ job'[j].of = job[j].of) \/ NewRow(j)
    BY <1>2, RowFacts
  <2>2. CASE NewRow(j)
    BY <1>2, <2>2 DEF NewRow, CreatedRow
  <2>3. CASE LiveJob(j) /\ job'[j].of = job[j].of
    <3>1. job[j].of \in Reports /\ report[job[j].of].status # "review"
      BY <2>3 DEF ReportInv, JobInv, NotDone, LiveJob
    <3>2. PICK i \in ReportJobs : /\ LiveJob(i) /\ job[i].of = job[j].of
                                  /\ job'[i].status = "completed"
      BY <1>1, <1>2, <2>3, <3>1 DEF Completes
    <3>3. i = j
      BY <2>3, <3>2 DEF ReportInv, JobInv
    <3> QED
      BY <1>2, <3>2, <3>3 DEF LiveJob
  <2> QED
    BY <2>1, <2>2, <2>3
<1>3. ASSUME NEW r \in Reports, asking'[r] \in Retrying, report'[r].status = "review"
      PROVE  FALSE
  <2>1. AskMoves(r)
    BY AskStep
  <2>2. asking[r] \in Retrying
    BY <1>3, <2>1 DEF AskMoves
  <2>3. Completes(r)
    BY <1>1, <1>3, <2>2 DEF ReportInv, NotDone, Retrying
  <2>4. PICK i \in ReportJobs : job[i].of = r /\ ~Outstanding(i)
    BY <2>3 DEF Completes
  <2> QED
    BY <2>2, <2>4 DEF Outstanding, Retrying
<1>4. ASSUME NEW w \in Analysts, run'[w].at = "create", MyReport(w)'.status = "review"
      PROVE  FALSE
  <2>1. /\ run'[w].j = run[w].j
        /\ run[w].at = "create" \/ (run[w].at \in Claimed /\ ReadsReport(w))
    <3>1. HandlerMoves(w)
      BY HandlerStep
    <3> QED
      BY <1>4, <3>1 DEF HandlerMoves, Stays, Claims, WritesOn, CreatesJob, GivesBack, Claimed
  <2>2. CASE run[w].at \in Claimed /\ ReadsReport(w)
    BY <1>4, <2>1, <2>2 DEF ReadsReport, MyReport, Mine
  <2>3. CASE run[w].at = "create"
    <3>1. run[w].j \in ReportJobs /\ job[run[w].j].status # "none"
      BY <2>3 DEF ReportInv, TypeInv, RunTyped, HasDelivery, HandlerJob, Mine, Claimed
    <3>2. job[run[w].j].of \in Reports /\ job'[run[w].j].of = job[run[w].j].of
      BY <3>1, RowFacts DEF ReportInv, JobInv
    <3>3. Completes(job[run[w].j].of)
      BY <1>1, <1>4, <2>1, <2>3, <3>2 DEF ReportInv, NotDone, MyReport, Mine
    <3>4. PICK i \in ReportJobs : job[i].of = job[run[w].j].of /\ ~Outstanding(i)
      BY <3>3 DEF Completes
    <3> QED
      BY <2>3, <3>4 DEF Outstanding
  <2> QED
    BY <2>1, <2>2, <2>3
<1> QED
  BY <1>2, <1>3, <1>4 DEF NotDone, Retrying

\* Every step preserves the invariant.
LEMMA ReportInvNext ==
  ASSUME ReportInv, ~Late, [ReportNext]_reportOwn
  PROVE  ReportInv'
<1>1. CASE ReportNext
  BY <1>1, TypeNext, JobNext, NewReportsNext, HandlerJobNext, WritersNext, NotDoneNext DEF ReportInv
<1>2. CASE UNCHANGED reportOwn
  BY <1>2 DEF reportOwn, processVars, ReportInv, TypeInv, StoreTyped, ApiTyped, RunTyped, HasDelivery,
     JobInv, NewReports, Unasked, HandlerJob, WritersLive, Requester, HandlerWrites, Recoverer,
     NotDone, LiveJob, Mine, MyReport
<1> QED
  BY <1>1, <1>2

-----------------------------------------------------------------------------
(* However late a statement arrives *)

\* A statement that writes the row of j WHERE id is still to come: that of the
\* request, or of the automatic retry, that created it.
UnfencedRow(j) == \/ maker[j] = "row"
                  \/ \E w \in Analysts : run[w].at = "row" /\ run[w].new = j

\* A statement that writes the report r WHERE id is still to come: that of a
\* Retry, an automatic retry, a shutdown or recovery.
UnfencedReport(r) ==
  \/ asking[r] = "race"
  \/ \E j \in ReportJobs : maker[j] = "report" /\ job[j].of = r
  \/ \E w \in Analysts : \/ run[w].at \in {"pending", "requeued"} /\ Mine(w).of = r
                         \/ pass[w].at = "pending" /\ job[pass[w].cur].of = r

\* A job that has ended is started again by a statement that is not fenced, or
\* not at all: not by a claim, a stage, a heartbeat, a requeue or recovery.
RestartsUnfenced ==
  [][\A j \in ReportJobs :
       job[j].status \in {"completed", "failed"} =>
         job'[j].status = job[j].status \/ UnfencedRow(j)]_reportOwn

\* A report that is ready for review leaves that state by a statement that is not
\* fenced, or while a job of it is live.
OverwritesUnfenced ==
  [][\A r \in Reports :
       report[r].status = "review" =>
         report'[r].status = "review" \/ UnfencedReport(r) \/ LiveJobsOf(r) # {}]_reportOwn

\* Rows that a step keeps, creates, or takes from their live state leave an ended
\* row alone.
LEMMA EndedStays ==
  ASSUME TypeInv, NEW j \in ReportJobs, job[j].status \in {"completed", "failed"}, NEW i, NEW v
  PROVE  /\ RowsKept => job'[j].status = job[j].status
         /\ LiveJob(i) /\ job' = [job EXCEPT ![i].status = v] => job'[j].status = job[j].status
         /\ UnusedJobs # {} /\ job' = [job EXCEPT ![Min(UnusedJobs)] = v]
              => job'[j].status = job[j].status
<1>1. job \in [ReportJobs -> ReportJob] /\ ~LiveJob(j)
  BY Typed DEF LiveJob
<1>2. RowsKept => job'[j].status = job[j].status
  BY <1>1 DEF RowsKept, KeptRow
<1>3. LiveJob(i) /\ job' = [job EXCEPT ![i].status = v] => job'[j].status = job[j].status
  <2> SUFFICES ASSUME LiveJob(i), job' = [job EXCEPT ![i].status = v]
               PROVE  job'[j].status = job[j].status
    OBVIOUS
  <2>1. i # j
    BY <1>1
  <2> QED
    BY <1>1, <2>1
<1>4. UnusedJobs # {} /\ job' = [job EXCEPT ![Min(UnusedJobs)] = v]
        => job'[j].status = job[j].status
  <2> SUFFICES ASSUME UnusedJobs # {}, job' = [job EXCEPT ![Min(UnusedJobs)] = v]
               PROVE  job'[j].status = job[j].status
    OBVIOUS
  <2>1. Min(UnusedJobs) \in UnusedJobs
    BY Picked
  <2>2. Min(UnusedJobs) # j
    BY <2>1 DEF UnusedJobs
  <2> QED
    BY <1>1, <2>2
<1> QED
  BY <1>2, <1>3, <1>4

\* The stages of an analysis, late or not.
LEMMA LateRowHandler ==
  ASSUME TypeInv, NEW w \in Analysts, Works(w),
         NEW j \in ReportJobs, job[j].status \in {"completed", "failed"}
  PROVE  job'[j].status = job[j].status \/ UnfencedRow(j)
<1>1. run[w].j \in ReportJobs /\ job \in [ReportJobs -> ReportJob]
  BY WorksRun, Typed DEF TypeInv, RunTyped, HasDelivery
<1>2. Owns(w) => LiveJob(run[w].j)
  BY DEF Owns, Mine, LiveJob
<1>3. CASE UNCHANGED job
  BY <1>3
<1>4. CASE HandlerDispatch(w)
  BY <1>4, DispatchEffect DEF HandlerDispatch
<1>5. CASE ClaimJob(w) /\ ~UNCHANGED job
  <2>1. /\ LiveJob(run[w].j)
        /\ job' = [job EXCEPT ![run[w].j] =
             [@ EXCEPT !.status = "running", !.copy = run[w].copy, !.owner = w,
                       !.stale = FALSE]]
    BY <1>5 DEF ClaimJob
  <2>2. run[w].j # j
    BY <2>1 DEF LiveJob
  <2> QED
    BY <1>1, <2>1, <2>2
<1>6. CASE (PersistOutcome(w) \/ FailJob(w) \/ MarkJob(w)) /\ ~UNCHANGED job
  <2>1. Owns(w) /\ \E v \in {"completed", "failed"} : job' = [job EXCEPT ![run[w].j].status = v]
    BY <1>6 DEF PersistOutcome, FailJob, MarkJob
  <2> QED
    BY <1>2, <2>1, EndedStays
<1>7. CASE CreateAuto(w) /\ ~UNCHANGED job
  <2>1. UnusedJobs # {} /\ job' = [job EXCEPT ![Min(UnusedJobs)] = NewJob(Mine(w).of, FALSE)]
    BY <1>7 DEF CreateAuto
  <2> QED
    BY <2>1, EndedStays
<1>8. CASE AutoRow(w) /\ ~UNCHANGED job
  <2>1. run[w].at = "row" /\ job' = [job EXCEPT ![run[w].new].status = "queued"]
    BY <1>8 DEF AutoRow, RunAt
  <2>2. CASE run[w].new = j
    BY <2>1, <2>2 DEF UnfencedRow
  <2>3. CASE run[w].new # j
    BY <1>1, <2>1, <2>3
  <2> QED
    BY <2>2, <2>3
<1>9. CASE RequeueJob(w) /\ ~UNCHANGED job
  <2>1. Owns(w) /\ job' = Requeued(run[w].j)
    BY <1>9 DEF RequeueJob
  <2> QED
    BY <1>2, <2>1, Updates, EndedStays
<1> QED
  BY <1>3, <1>4, <1>5, <1>6, <1>7, <1>8, <1>9 DEF Works, Extract, Reach, BeginAi, StopAi, FailReport,
     AutoRetry, AutoPending, RequeueReport, MarkReport

\* Every step leaves an ended row alone, or was announced.
LEMMA LateRow ==
  ASSUME TypeInv, ReportNext, NEW j \in ReportJobs, job[j].status \in {"completed", "failed"}
  PROVE  job'[j].status = job[j].status \/ UnfencedRow(j)
<1> DEFINE Goal == job'[j].status = job[j].status \/ UnfencedRow(j)
<1>1. RowsKept => Goal
  BY EndedStays
<1>2. UNCHANGED job => Goal
  OBVIOUS
<1>3. CASE MakeDispatch \/ AbandonRequest
  BY <1>3, DispatchEffect DEF MakeDispatch, AbandonRequest
<1>4. ASSUME NEW r \in Reports,
             \/ ImportReport(r) \/ CreateJob(r) \/ AskRetry(r) \/ RetryRace(r) \/ CreateRetry(r)
             \/ CancelUnclaimed(r) \/ RequestAnalysisCancel(r)
      PROVE  Goal
  <2>1. job \in [ReportJobs -> ReportJob] /\ job[j] \in ReportJob
    BY Typed
  <2>2. CASE CreateJob(r) \/ CreateRetry(r)
    <3>1. \/ UNCHANGED job
          \/ UnusedJobs # {} /\ \E v : job' = [job EXCEPT ![Min(UnusedJobs)] = v]
      BY <2>2 DEF CreateJob, CreateRetry
    <3> QED
      BY <3>1, EndedStays
  <2>3. CASE AskRetry(r)
    <3>1. PICK S : job' = [i \in ReportJobs |-> IF i \in S THEN [job[i] EXCEPT !.due = TRUE]
                                                ELSE job[i]]
      BY <2>3 DEF AskRetry
    <3> QED
      BY <2>1, <3>1 DEF ReportJob
  <2>4. CASE CancelUnclaimed(r)
    <3> DEFINE E == {i \in LiveJobsOf(r) : job[i].status = "queued" /\ job[i].copy = 0}
    <3>1. job' = [i \in ReportJobs |-> IF i \in E THEN [job[i] EXCEPT !.status = "failed"]
                                       ELSE job[i]]
      BY <2>4 DEF CancelUnclaimed
    <3>2. j \notin E
      BY DEF LiveJobsOf, LiveJob
    <3> QED
      BY <3>1, <3>2
  <2> QED
    BY <1>2, <1>4, <2>2, <2>3, <2>4 DEF ImportReport, RetryRace, RequestAnalysisCancel
<1>5. ASSUME NEW i \in ReportJobs, MakeReport(i) \/ MakeRow(i)
      PROVE  Goal
  <2>1. CASE MakeRow(i)
    <3>1. maker[i] = "row" /\ job' = [job EXCEPT ![i].status = "queued"]
      BY <2>1 DEF MakeRow
    <3>2. CASE i = j
      BY <3>1, <3>2 DEF UnfencedRow
    <3>3. CASE i # j
      BY <3>1, <3>3, Typed
    <3> QED
      BY <3>2, <3>3
  <2> QED
    BY <1>2, <1>5, <2>1 DEF MakeReport
<1>6. ASSUME NEW w \in Analysts, Handling(w)
      PROVE  Goal
  <2>1. CASE SettleDelivery(w)
    BY <1>1, <2>1, Updates DEF SettleDelivery
  <2> QED
    BY <1>6, <2>1, LateRowHandler DEF Handling, Works
<1>7. ASSUME NEW w \in Analysts, Recovery(w)
      PROVE  Goal
  <2>1. CASE RecoverDispatch(w)
    BY <2>1, DispatchEffect DEF RecoverDispatch
  <2>2. CASE RecoverJob(w)
    <3>1. PICK f \in pass[w].todo :
            \/ UNCHANGED job
            \/ job[f.j].status = "running" /\ job' = Requeued(f.j)
            \/ job' = [job EXCEPT ![f.j].copy = 0]
      BY <2>2 DEF RecoverJob
    <3> QED
      BY <1>1, <3>1, Updates DEF LiveJob
  <2> QED
    BY <1>2, <1>7, <2>1, <2>2 DEF Recovery, FailStaleActive, ReadInterrupted, RecoverReport
<1>8. ASSUME NEW w \in Analysts, \/ Take(w) \/ PauseDelivery(w) \/ BeatJob(w) \/ Pause(w)
                                 \/ CloseWorker(w) \/ CrashWorker(w) \/ StartWorker(w)
      PROVE  Goal
  <2>1. \/ UNCHANGED job \/ job' = Abandoned(w)
        \/ \E i, v : job' = [job EXCEPT ![i].stale = v]
    BY <1>8 DEF Take, TakeDelivery, PauseDelivery, BeatJob, Pause, CloseWorker, CrashWorker, Ended,
       StartWorker
  <2> QED
    BY <1>1, <2>1, Updates
<1>9. ASSUME NEW i \in ReportJobs, Passage(i)
      PROVE  Goal
  <2>1. \/ UNCHANGED job
        \/ \E v : \/ job' = [job EXCEPT ![i].stale = v]
                  \/ job' = [job EXCEPT ![i].due = v]
    BY <1>9 DEF Passage, GrowStale, BecomeDue, StallDelivery
  <2> QED
    BY <1>1, <2>1, Updates
<1> QED
  BY <1>3, <1>4, <1>5, <1>6, <1>7, <1>8, <1>9 DEF ReportNext, Requesting

\* A write to the report of a live job, or one that was announced.
LEMMA LateWrite ==
  ASSUME NEW r \in Reports, report[r].status = "review", NEW q, NEW st, Writes(q, st),
         \/ UnfencedReport(q)
         \/ \E j \in ReportJobs : LiveJob(j) /\ job[j].of = q
  PROVE  report'[r].status = "review" \/ UnfencedReport(r) \/ LiveJobsOf(r) # {}
<1>1. CASE q = r
  BY <1>1 DEF LiveJobsOf
<1>2. CASE q # r
  BY <1>2 DEF Writes
<1> QED
  BY <1>1, <1>2

\* The stages of an analysis, late or not.
LEMMA LateReportHandler ==
  ASSUME TypeInv, NEW w \in Analysts, Works(w), NEW r \in Reports, report[r].status = "review"
  PROVE  report'[r].status = "review" \/ UnfencedReport(r) \/ LiveJobsOf(r) # {}
<1>1. run[w].j \in ReportJobs
  BY WorksRun DEF TypeInv, RunTyped, HasDelivery
<1>2. Owns(w) => \E j \in ReportJobs : LiveJob(j) /\ job[j].of = Mine(w).of
  BY <1>1 DEF Owns, Mine, LiveJob
<1>3. CASE UNCHANGED report
  BY <1>3
<1>4. CASE (Extract(w) \/ BeginAi(w)) /\ ~UNCHANGED report
  <2>1. /\ Owns(w)
        /\ \/ Staged(w, "working")
           \/ report' = [report EXCEPT ![Mine(w).of] =
                [status |-> "analyzing", fault |-> FALSE, cancel |-> FALSE]]
    BY <1>4 DEF Extract, Reach, Refused, BeginAi
  <2>2. Writes(Mine(w).of, "working") \/ Writes(Mine(w).of, "analyzing")
    BY <2>1, ReportUpdates, ZenonT(30) DEF Staged
  <2>3. CASE Writes(Mine(w).of, "working")
    BY <1>2, <2>1, <2>3, LateWrite
  <2>4. CASE Writes(Mine(w).of, "analyzing")
    BY <1>2, <2>1, <2>4, LateWrite
  <2> QED
    BY <2>2, <2>3, <2>4
<1>5. CASE PersistOutcome(w) /\ ~UNCHANGED report
  <2>1. /\ Owns(w)
        /\ report' = [report EXCEPT ![Mine(w).of] =
                        [status |-> "review", fault |-> FALSE, cancel |-> FALSE]]
    BY <1>5 DEF PersistOutcome, Refused
  <2>2. Writes(Mine(w).of, "review")
    BY <2>1, ReportUpdates
  <2> QED
    BY <1>2, <2>1, <2>2, LateWrite
<1>6. CASE FailReport(w) /\ ~UNCHANGED report
  <2> DEFINE c == report[Mine(w).of].cancel /\ run[w].why # "cancelled"
  <2>1. /\ Owns(w)
        /\ report' = [report EXCEPT ![Mine(w).of] =
                        [status |-> "failed", fault |-> TRUE, cancel |-> c]]
    BY <1>6 DEF FailReport, Refused
  <2> HIDE DEF c
  <2>2. Writes(Mine(w).of, "failed")
    BY <2>1, ReportUpdates
  <2> QED
    BY <1>2, <2>1, <2>2, LateWrite
<1>7. CASE MarkReport(w) /\ ~UNCHANGED report
  <2>1. /\ Owns(w)
        /\ report' = [report EXCEPT ![Mine(w).of].status = "failed", ![Mine(w).of].fault = TRUE]
    BY <1>7 DEF MarkReport
  <2>2. Writes(Mine(w).of, "failed")
    BY <2>1, ReportUpdates
  <2> QED
    BY <1>2, <2>1, <2>2, LateWrite
<1>8. CASE (AutoPending(w) \/ RequeueReport(w)) /\ ~UNCHANGED report
  <2>1. run[w].at \in {"pending", "requeued"} /\ report' = Pending(Mine(w).of)
    BY <1>8 DEF AutoPending, RequeueReport, RunAt
  <2>2. Writes(Mine(w).of, "pending") /\ UnfencedReport(Mine(w).of)
    BY <2>1, ReportUpdates DEF UnfencedReport
  <2> QED
    BY <2>2, LateWrite
<1> QED
  BY <1>3, <1>4, <1>5, <1>6, <1>7, <1>8 DEF Works, ClaimJob, StopAi, FailJob, AutoRetry,
     CreateAuto, AutoRow, RequeueJob, HandlerDispatch, MarkJob

\* Every step leaves a report in review, or is that of a live job, or was announced.
LEMMA LateReport ==
  ASSUME TypeInv, ReportNext, NEW r \in Reports, report[r].status = "review"
  PROVE  report'[r].status = "review" \/ UnfencedReport(r) \/ LiveJobsOf(r) # {}
<1> DEFINE Goal == report'[r].status = "review" \/ UnfencedReport(r) \/ LiveJobsOf(r) # {}
<1>1. UNCHANGED report => Goal
  OBVIOUS
<1>2. ASSUME NEW q \in Reports, ImportReport(q)
      PROVE  Goal
  <2>1. report[q].status = "none" /\ Writes(q, "pending")
    BY <1>2, ReportUpdates DEF ImportReport
  <2> QED
    BY <2>1 DEF Writes
<1>3. ASSUME NEW q \in Reports, RetryRace(q)
      PROVE  Goal
  <2>1. PICK st \in {"pending", "working", "analyzing"} :
          report' = [report EXCEPT ![q] = [status |-> st, fault |-> FALSE, cancel |-> FALSE]]
    BY <1>3 DEF RetryRace
  <2>2. Writes(q, st) /\ UnfencedReport(q)
    BY <1>3, <2>1, ReportUpdates DEF RetryRace, UnfencedReport
  <2> QED
    BY <2>2, LateWrite
<1>4. ASSUME NEW j \in ReportJobs, MakeReport(j)
      PROVE  Goal
  <2>1. Writes(job[j].of, "pending") /\ UnfencedReport(job[j].of)
    BY <1>4, ReportUpdates DEF MakeReport, UnfencedReport
  <2> QED
    BY <2>1, LateWrite
<1>5. ASSUME NEW q \in Reports, CancelUnclaimed(q) \/ RequestAnalysisCancel(q)
      PROVE  Goal
  <2>1. report' = [report EXCEPT ![q].cancel = TRUE]
    BY <1>5 DEF CancelUnclaimed, RequestAnalysisCancel
  <2> QED
    BY <2>1, ReportUpdates
<1>6. ASSUME NEW w \in Analysts, Handling(w)
      PROVE  Goal
  BY <1>1, <1>6, LateReportHandler DEF Handling, Works, SettleDelivery
<1>7. ASSUME NEW w \in Analysts, Recovery(w)
      PROVE  Goal
  <2>1. CASE RecoverReport(w)
    <3>1. Writes(job[pass[w].cur].of, "pending") /\ UnfencedReport(job[pass[w].cur].of)
      BY <2>1, ReportUpdates DEF RecoverReport, Recovering, UnfencedReport
    <3> QED
      BY <3>1, LateWrite
  <2> QED
    BY <1>1, <1>7, <2>1 DEF Recovery, FailStaleActive, ReadInterrupted, RecoverJob, RecoverDispatch
<1>8. CASE \/ \E q \in Reports : CreateJob(q) \/ CreateRetry(q) \/ AskRetry(q)
           \/ \E j \in ReportJobs : MakeRow(j) \/ Passage(j)
           \/ MakeDispatch \/ AbandonRequest
           \/ \E w \in Analysts : \/ Take(w) \/ BeatJob(w) \/ Pause(w) \/ PauseDelivery(w)
                                  \/ CloseWorker(w) \/ CrashWorker(w) \/ StartWorker(w)
  <2>1. UNCHANGED report
    BY <1>8 DEF CreateJob, CreateRetry, AskRetry, MakeRow, Passage, GrowStale, BecomeDue,
       StallDelivery, MakeDispatch, AbandonRequest, Take, TakeDelivery, BeatJob, Pause,
       PauseDelivery, CloseWorker, CrashWorker, Ended, StartWorker
  <2> QED
    BY <1>1, <2>1
<1> QED
  BY <1>2, <1>3, <1>4, <1>5, <1>6, <1>7, <1>8 DEF ReportNext, Requesting

-----------------------------------------------------------------------------
(* Theorems *)

\* Steps, and steps of others, preserve the types.
LEMMA TypeStep ==
  ASSUME TypeInv, [ReportNext]_reportOwn
  PROVE  TypeInv'
<1>1. ASSUME UNCHANGED reportOwn PROVE TypeInv'
  BY <1>1 DEF reportOwn, TypeInv, StoreTyped, ApiTyped, RunTyped, HasDelivery
<1> QED
  BY <1>1, TypeNext

\* Reports, rows, BullMQ jobs, requests, handlers and recovery are always well
\* formed, with or without late writes.
THEOREM ReportTypeCorrect == ReportSpec => []ReportTypeOK
<1>1. TypeInv /\ [ReportNext]_reportOwn => TypeInv'
  BY TypeStep
<1> QED
  BY <1>1, TypeInit, TypeCovers, PTL DEF ReportSpec

\* createExclusivePipelineJob keeps its promise, if no request, retry or recovery
\* outlasts the analysis it writes to: a report has one live job at most.
THEOREM OneJob == ASSUME ~Late PROVE ReportSpec => []OneLiveJob
<1>1. ReportInv /\ [ReportNext]_reportOwn => ReportInv'
  BY ReportInvNext
<1>2. ReportInv => OneLiveJob
  <2> SUFFICES ASSUME ReportInv, NEW r \in Reports
               PROVE  Cardinality(LiveJobsOf(r)) <= 1
    BY DEF OneLiveJob
  <2>1. \A i, j \in LiveJobsOf(r) : i = j
    BY DEF ReportInv, JobInv, LiveJobsOf
  <2>2. CASE LiveJobsOf(r) = {}
    BY <2>2, FS_EmptySet
  <2>3. CASE LiveJobsOf(r) # {}
    <3>1. PICK j : LiveJobsOf(r) = {j}
      BY <2>1, <2>3
    <3>2. Cardinality({j}) = 1
      BY FS_Singleton
    <3> QED
      BY <3>1, <3>2
  <2> QED
    BY <2>2, <2>3
<1> QED
  BY <1>1, <1>2, ReportInvInit, PTL DEF ReportSpec

\* The fence, the claim and recovery together: a row that is completed or failed
\* is not started again, under the same assumption.
THEOREM JobsEndOnce == ASSUME ~Late PROVE ReportSpec => JobEndsOnce
<1>1. ReportInv /\ [ReportNext]_reportOwn => ReportInv'
  BY ReportInvNext
<1>2. ASSUME ReportInv, [ReportNext]_reportOwn
      PROVE  [\A j \in ReportJobs :
                job[j].status \in {"completed", "failed"} => job'[j].status = job[j].status]_reportOwn
  BY <1>2, RowFacts
<1> QED
  BY <1>1, <1>2, ReportInvInit, PTL DEF ReportSpec, JobEndsOnce

\* And a report that is ready for review stays so.
THEOREM OutcomesKept == ASSUME ~Late PROVE ReportSpec => OutcomeKept
<1>1. ReportInv /\ [ReportNext]_reportOwn => ReportInv'
  BY ReportInvNext
<1>2. ASSUME ReportInv, ReportNext, NEW r \in Reports, report[r].status = "review"
      PROVE  report'[r].status = "review"
  <2>1. ~Entitled(r)
    BY <1>2 DEF ReportInv, NotDone, Entitled
  <2>2. ReportMoves(r)
    BY <1>2, ReportStep
  <2> QED
    BY <1>2, <2>1, <2>2 DEF ReportMoves, Completes
<1>3. ReportInv /\ [ReportNext]_reportOwn =>
        [\A r \in Reports : report[r].status = "review" => report'[r].status = "review"]_reportOwn
  BY <1>2
<1> QED
  BY <1>1, <1>3, ReportInvInit, PTL DEF ReportSpec, OutcomeKept

\* Without any assumption on time: a job that has ended is started again only by
\* the WHERE id statement of whoever created it.
THEOREM RestartsAreUnfenced == ReportSpec => RestartsUnfenced
<1>1. TypeInv /\ [ReportNext]_reportOwn => TypeInv'
  BY TypeStep
<1>2. TypeInv /\ [ReportNext]_reportOwn =>
        [\A j \in ReportJobs :
           job[j].status \in {"completed", "failed"} =>
             job'[j].status = job[j].status \/ UnfencedRow(j)]_reportOwn
  BY LateRow
<1> QED
  BY <1>1, <1>2, TypeInit, PTL DEF ReportSpec, RestartsUnfenced

\* Likewise a report in review is overwritten only by such a statement, or on
\* behalf of a job that is live.
THEOREM OverwritesAreUnfenced == ReportSpec => OverwritesUnfenced
<1>1. TypeInv /\ [ReportNext]_reportOwn => TypeInv'
  BY TypeStep
<1>2. TypeInv /\ [ReportNext]_reportOwn =>
        [\A r \in Reports :
           report[r].status = "review" =>
             report'[r].status = "review" \/ UnfencedReport(r) \/ LiveJobsOf(r) # {}]_reportOwn
  BY LateReport
<1> QED
  BY <1>1, <1>2, TypeInit, PTL DEF ReportSpec, OverwritesUnfenced

=============================================================================
