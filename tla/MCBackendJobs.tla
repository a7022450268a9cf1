---------------------------- MODULE MCBackendJobs ---------------------------
(***************************************************************************)
(* The backend's job workers for TLC: deep searches with the bulk jobs     *)
(* over them, exports, and the AI requests of report analyses.  They share *)
(* no state but the bound on crashes, so a behaviour exercises one part:   *)
(*   "deep"    deep searches, while nobody asks for a bulk job;            *)
(*   "bulk"    bulk jobs over deep searches that run undisturbed;          *)
(*   "export"  exports;                                                    *)
(*   "gate"    requests to a local or a hosted AI provider;                *)
(*   "slots"   requests to a local one that end, one way or another, before *)
(*             the first heartbeat, and waiters that poll in time.         *)
(***************************************************************************)
EXTENDS BulkQuery, SearchExport, InferenceScheduler, TLC

CONSTANTS Parts, s1, s2, t1, t2, d1, d2, c1, c2, b1, e1, r1, r2

VARIABLE part

exportOwn == <<table, jobs, files, requests, handler, janitor, alive>>

jobVars == <<vars, exportOwn, inferenceOwn, part>>

MCInit ==
  /\ part \in Parts
  /\ Init
  /\ ExportInit
  /\ InferenceInit
  /\ part # "gate" => isLocal = TRUE

\* Bounds of the parts.
NoBulkCalls == bulkCall' = bulkCall

Calm ==
  /\ bulkCall' # bulkCall => \A s \in Slots : slot[s].pc = "idle"
  /\ \A d \in Searches : /\ ~row'[d].cancel /\ row'[d].status # "failed"
                        /\ queue'[d].stalls = 0
  /\ up'

Timely ==
  \A r \in Requests :
    /\ ~holder'[r].due
    /\ phase'[r] \in {"polling", "probing", "lastProbe"} => lease'[r] # LapsedRow

MCNext ==
  /\ UNCHANGED part
  /\ \/ /\ part = "deep" /\ Next /\ NoBulkCalls
        /\ UNCHANGED <<exportOwn, inferenceOwn>>
     \/ /\ part = "bulk" /\ Next /\ Calm
        /\ UNCHANGED <<exportOwn, inferenceOwn>>
     \/ /\ part = "export" /\ ExportNext
        /\ UNCHANGED <<deepOwn, bulkOwn, inferenceOwn>>
     \/ /\ part \in {"gate", "slots"} /\ InferenceNext
        /\ part = "slots" => Timely
        /\ UNCHANGED <<vars, exportOwn>>

MCSpec == MCInit /\ [][MCNext]_jobVars

\* Requests that have their row go on, free slots take jobs and handlers run
\* on, a fetch loop comes to the end of its cursor, timers fire,
\* and time passes.  Nothing dies where this is used.
SearchFairness ==
  /\ \A d \in Searches : /\ WF_vars(part \in {"deep", "bulk"} /\ AddJob(d) /\ UNCHANGED bulkOwn)
                         /\ WF_vars(part \in {"deep", "bulk"} /\ Age(d) /\ UNCHANGED bulkOwn)
  /\ \A s \in Slots :
       WF_vars(part \in {"deep", "bulk"} /\ RunDeepSearch(s) /\ UNCHANGED bulkOwn)
  /\ WF_vars(part \in {"deep", "bulk"} /\ Cleanup /\ UNCHANGED bulkOwn)
  /\ \A b \in Bulks : WF_vars(part = "bulk" /\ AddBulkJob(b) /\ UNCHANGED deepOwn)
  /\ \A s \in BulkSlots : WF_vars(part = "bulk" /\ ProcessJob(s) /\ UNCHANGED deepOwn)

ExportFairness ==
  /\ \A e \in Exports : WF_exportVars(part = "export" /\ AddExportJob(e))
  /\ \A s \in Slots : /\ WF_exportVars(part = "export" /\ RunExport(s))
                      /\ SF_exportVars(part = "export" /\ FetchLast(s))

MCFairSpec == MCSpec /\ SearchFairness /\ ExportFairness /\ InferenceFairness

\* The rows, queues, files and handlers of all the jobs are well formed.
JobsTypeOK == BulkTypeOK /\ ExportTypeOK /\ InferenceTypeOK

Symmetry ==
  Permutations({s1, s2}) \cup Permutations({t1, t2}) \cup Permutations({c1, c2})
  \cup Permutations({r1, r2})

=============================================================================
