----------------------------- MODULE MCReports ------------------------------
(***************************************************************************)
(* Report analyses for TLC.  A behaviour exercises one part:               *)
(*   "fence"   analyses by two workers, whose processes may be paused;     *)
(*   "retry"   analysts who retry and cancel;                              *)
(*   "crash"   a worker that stops, dies and starts again;                 *)
(*   "errors"  failing statements and requests.                            *)
(***************************************************************************)
EXTENDS ReportAnalysis, TLC

CONSTANTS Parts, w1, w2

VARIABLE part

reportVars == <<reportOwn, part, stops>>

MCInit ==
  /\ part \in Parts
  /\ ReportInit
  /\ stops = 0
  /\ \A w \in Analysts : (workers[w] = "down") <=> part # "fence" /\ w # w1

\* Bounds of the parts.
Alone == \A w \in Analysts \ {w1} : workers'[w] = "down"

NoAnalysts ==
  /\ \A r \in Reports : ~report'[r].cancel
  /\ UNCHANGED asking

\* The second worker recovers what the first one was doing.
Paused ==
  /\ \A w \in Analysts : run'[w].why # "transient"
  /\ pass'[w1] = pass[w1]

\* What may go wrong: a pause; the writes of a shutdown; one thing, and then the
\* record of it.
Faults ==
  /\ part # "retry"
  /\ part = "fence" => reportFaults = 0 /\ UNCHANGED <<report, maker, importing, run, pass>>
  /\ part = "crash" => reportFaults = 0 /\ run[w1].at \in {"requeue", "requeued"}
  /\ part = "errors" => reportFaults = 0 \/ run[w1].at \in {"raised", "markJob"}

Fair == part \in {"crash", "errors"}

ReportBounds ==
  /\ part # "fence" => Alone
  /\ part # "retry" => NoAnalysts
  /\ part # "crash" => kills' = 0
  /\ part = "fence" => Paused
  /\ part = "retry" => \A w \in Analysts : run'[w].j # MaxReportJobs
  /\ Fair => \A w \in Analysts : run'[w].why = "transient" => run'[w].j = 1
  /\ reportFaults' # reportFaults => Faults

MCNext == ReportNext /\ ReportBounds /\ UNCHANGED <<part, stops>>

\* Where it is used: requests that began are finished, the worker takes jobs and
\* its handler comes to an end, its timer fires; a process that stops is killed
\* when it takes too long, and is started again; tokens and locks lapse.
ReportFairness ==
  /\ WF_reportOwn(Fair /\ Requesting /\ ReportBounds)
  /\ WF_reportOwn(Fair /\ Take(w1) /\ ReportBounds)
  /\ WF_reportOwn(Fair /\ Handling(w1) /\ ReportBounds)
  /\ WF_reportOwn(Fair /\ Recovery(w1) /\ ReportBounds)
  /\ WF_reportOwn(Fair /\ workers[w1] = "closing" /\ CrashWorker(w1) /\ ReportBounds)
  /\ WF_reportOwn(Fair /\ StartWorker(w1) /\ ReportBounds)
  /\ \A j \in ReportJobs : WF_reportOwn(Fair /\ Passage(j) /\ ReportBounds)

MCFairSpec == MCInit /\ [][MCNext]_reportVars /\ ReportFairness

\* An analysis that is queued or runs comes to an end: its row is not lost with
\* a BullMQ job, a worker process, a dispatch that was rolled back or a failure
\* that could not be recorded.
JobsEnd ==
  \A j \in ReportJobs : Fair /\ LiveJob(j) ~> ~LiveJob(j)

\* A report that waits or is analysed comes to be failed or ready for review,
\* through shutdowns, crashes and automatic retries.
ReportsSettle ==
  \A r \in Reports : part = "crash" /\ ActiveReport(r) ~> ~ActiveReport(r)

=============================================================================
