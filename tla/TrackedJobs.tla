----------------------------- MODULE TrackedJobs -----------------------------
(***************************************************************************)
(* What a user is promised about a background search job (an export or a   *)
(* deep search): its status runs through a fixed life cycle, its result is *)
(* there from the moment the job is "ready" until its retention lapses, a  *)
(* job that was cancelled never becomes ready, and what is left of a       *)
(* result that is not offered may only disappear.                          *)
(*                                                                         *)
(* "claimed" is the stores' processing or running, "ready" their ready or  *)
(* completed.                                                              *)
(***************************************************************************)
CONSTANTS Ids,        \* job ids
          Claimable   \* the statuses a worker may claim a job from

VARIABLES status,  \* the life cycle of each job
          result,  \* the jobs that have a result
          lapsed   \* the jobs whose result is past its retention

Status == {"none", "queued", "claimed", "ready", "failed", "cancelled",
           "expired", "purged"}

TypeOK == /\ status \in [Ids -> Status]
          /\ result \subseteq Ids
          /\ lapsed \subseteq Ids

Init == /\ status = [i \in Ids |-> "none"]
        /\ result = {}
        /\ lapsed = {}

Move(i, from, to) ==
  /\ status[i] \in from
  /\ status' = [status EXCEPT ![i] = to]

Submit(i) == Move(i, {"none"}, "queued") /\ UNCHANGED <<result, lapsed>>

\* A worker starts on the job: nothing of an earlier attempt is left.
Claim(i) == /\ Move(i, Claimable, "claimed")
            /\ i \notin result
            /\ UNCHANGED <<result, lapsed>>

Finish(i) == /\ Move(i, {"claimed"}, "ready")
             /\ result' = result \cup {i}
             /\ UNCHANGED lapsed

\* A failing job may leave a result behind that nobody is offered.
Fail(i) == /\ Move(i, {"claimed"}, "failed")
           /\ result' \in {result, result \cup {i}}
           /\ UNCHANGED lapsed

Cancel(i) == /\ Move(i, {"queued", "claimed"}, "cancelled")
             /\ UNCHANGED <<result, lapsed>>

\* Time passes the end of the retention of a ready result.
Lapse(i) == /\ status[i] = "ready"
            /\ lapsed' = lapsed \cup {i}
            /\ UNCHANGED <<status, result>>

\* A result goes: never while it is offered.
Drop(i) == /\ i \in result
           /\ status[i] # "ready" \/ i \in lapsed
           /\ result' = result \ {i}
           /\ UNCHANGED <<status, lapsed>>

Expire(i) == /\ Move(i, {"ready"}, "expired")
             /\ i \in lapsed
             /\ UNCHANGED <<result, lapsed>>

\* The metadata of a job that is over is deleted.
Purge(i) == /\ Move(i, {"failed", "cancelled", "expired"}, "purged")
            /\ lapsed' = lapsed \ {i}
            /\ UNCHANGED result

Next == \E i \in Ids :
  \/ Submit(i) \/ Claim(i) \/ Finish(i) \/ Fail(i) \/ Cancel(i)
  \/ Lapse(i) \/ Drop(i) \/ Expire(i) \/ Purge(i)

vars == <<status, result, lapsed>>

Spec == Init /\ [][Next]_vars

=============================================================================
