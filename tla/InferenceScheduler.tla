------------------------- MODULE InferenceScheduler -------------------------
(***************************************************************************)
(* The shared gate in front of one AI provider.  A request inserts a lease *)
(* row, polls until it is granted a slot, sends, and gives the slot back.  *)
(* A holder renews its row by heartbeats and gives the slot up when it     *)
(* cannot; rows that are not renewed expire.  With a local provider an     *)
(* aborted request may still be executing, so its row, like one that       *)
(* expired, is quarantined until a probe is served promptly.               *)
(*                                                                         *)
(* Time goes in ticks of one heartbeat interval.  Each request runs in a   *)
(* process that may die.                                                   *)
(***************************************************************************)
EXTENDS Integers, FiniteSetsExt

CONSTANTS
  Requests,      \* the calls of callAiProvider, each with its own lease token
  SafetyNet,     \* the worker's timer, which probes too
  Capacity,      \* max_concurrent_ai_requests
  HoldLease,     \* holdLeaseMs, in heartbeats
  WaitLease,     \* waitLeaseMs, in heartbeats
  DbPrompt       \* whether a claim, and the progress write that follows it, are
                 \* answered, be it by an error, within one heartbeat

ASSUME SchedulerAssumption ==
  /\ IsFiniteSet(Requests)
  /\ Capacity \in Nat \ {0}
  /\ HoldLease \in Nat \ (0 .. 3)
  /\ WaitLease \in 1 .. HoldLease
  /\ DbPrompt \in BOOLEAN
  /\ SafetyNet \notin Requests

VARIABLES
  isLocal,   \* the provider's policy, which makes its leases fail_closed
  lease,     \* PostgreSQL: threat_library_ai_capacity_leases, by token
  ahead,     \* by waiting row, the waiting rows with a smaller id
  phase,     \* how far callAiProvider is
  holder,    \* the closure of startHolding
  renewal,   \* the heartbeat statement of a holder, while it is under way
  provider,  \* what the provider executes, abandoned requests included
  probe      \* verifyQuarantine: the claimed row, and whether it was served

inferenceOwn ==
  <<isLocal, lease, ahead, phase, holder, renewal, provider, probe>>

\* lossDeadlineMs: two heartbeats before the row expires.
LossDeadline == Max({1, HoldLease - 2})

Probers == Requests \cup {SafetyNet}

\* left: heartbeats until lease_expires_at; of a quarantined row, 0 once its
\* worst-case bound has passed.
LeaseRow == [state : {"none", "waiting", "holding", "quarantined"},
             left : 0 .. HoldLease]

NoLease == [state |-> "none", left |-> 0]
WaitingRow == [state |-> "waiting", left |-> WaitLease]
LapsedRow == [state |-> "waiting", left |-> 0]
HeldRow == [state |-> "holding", left |-> HoldLease]
QuarantinedRow == [state |-> "quarantined", left |-> 1]

\* unconfirmed: heartbeats since lastConfirmedAt; due: the interval's tick.
Holder == [unconfirmed : 0 .. LossDeadline, lost : BOOLEAN, due : BOOLEAN]

NewHolder == [unconfirmed |-> 0, lost |-> FALSE, due |-> FALSE]

\* stage: sent, executed with or without a row to renew.
Renewal == [stage : {"none", "sent", "kept", "missed"}, age : 0 .. LossDeadline]

NoRenewal == [stage |-> "none", age |-> 0]

\* on: the row being probed, none if it is the set itself.
Probe == [on : SUBSET Requests, served : BOOLEAN]

NoProbe == [on |-> {}, served |-> FALSE]

InferenceTypeOK ==
  /\ isLocal \in BOOLEAN
  /\ lease \in [Requests -> LeaseRow]
  /\ ahead \in [Requests -> SUBSET Requests]
  /\ phase \in [Requests -> {"idle", "polling", "probing", "lastProbe", "granted",
                            "held", "executing", "aborted", "leaving", "parting",
                            "gone"}]
  /\ holder \in [Requests -> Holder]
  /\ renewal \in [Requests -> Renewal]
  /\ provider \subseteq Requests
  /\ probe \in [Probers -> Probe]
  /\ \A r, q \in Requests :
       /\ q \in ahead[r] => lease[r].state = "waiting" /\ lease[q].state = "waiting"
       /\ lease[r].state = "waiting" /\ lease[q].state = "waiting" /\ r # q
          => (q \in ahead[r] <=> r \notin ahead[q])
  /\ \A p \in Probers : Cardinality(probe[p].on) <= 1

InferenceInit ==
  /\ isLocal \in BOOLEAN
  /\ lease = [r \in Requests |-> NoLease]
  /\ ahead = [r \in Requests |-> {}]
  /\ phase = [r \in Requests |-> "idle"]
  /\ holder = [r \in Requests |-> NewHolder]
  /\ renewal = [r \in Requests |-> NoRenewal]
  /\ provider = {}
  /\ probe = [p \in Probers |-> NoProbe]

Goes(r, from, to) == phase[r] = from /\ phase' = [phase EXCEPT ![r] = to]

RowsIn(t, s) == {q \in Requests : t[q].state = s}

Holding(t) == Cardinality(RowsIn(t, "holding") \cup RowsIn(t, "quarantined"))

-----------------------------------------------------------------------------
(* Waiting for a slot: acquire *)

\* insertWaiter; if it fails, the call ends before it has a row.
InsertWaiter(r) ==
  /\ Goes(r, "idle", "polling")
  /\ lease' = [lease EXCEPT ![r] = WaitingRow]
  /\ ahead' = [ahead EXCEPT ![r] = RowsIn(lease, "waiting")]
  /\ UNCHANGED <<isLocal, holder, renewal, provider, probe>>

\* Mutant: an expired holder is dropped whatever its provider may be doing.
SweptOpen ==
  [q \in Requests |-> IF lease[q].left = 0 /\ lease[q].state \in {"waiting", "holding"}
                      THEN NoLease ELSE lease[q]]

\* Mutant: the row of a holder never expires.
SweptWaiters ==
  [q \in Requests |-> IF lease[q] = LapsedRow THEN NoLease ELSE lease[q]]

\* The table after the claim's three clean-up statements.
Swept ==
  [q \in Requests |->
     CASE lease[q] = LapsedRow -> NoLease
       [] lease[q].left = 0 /\ lease[q].state = "holding" ->
            IF isLocal THEN QuarantinedRow ELSE NoLease
       [] OTHER -> lease[q]]

SweptAhead ==
  [q \in Requests |-> IF Swept[q].state = "waiting"
                      THEN ahead[q] \cap RowsIn(Swept, "waiting") ELSE {}]

\* Who is ahead of the claimant's row, which is renewed, or new at the tail.
Before(r) == IF Swept[r].state = "waiting" THEN SweptAhead[r]
             ELSE RowsIn(Swept, "waiting")

\* r waits no more.
Without(a, r) == [q \in Requests |-> IF q = r THEN {} ELSE a[q] \ {r}]

Grantable(r) == Holding(Swept) + Cardinality(Before(r)) < Capacity

\* The head of the line behind a quarantined row probes the provider.
MayProbe(r) == Before(r) = {} /\ RowsIn(Swept, "quarantined") # {}

\* ai_capacity_quarantined: a bound has passed, and no slot is free.
Hopeless ==
  /\ \E q \in Requests : Swept[q].state = "quarantined" /\ Swept[q].left = 0
  /\ Holding(Swept) >= Capacity

\* tryClaim, one transaction under the endpoint's lock, and what acquire does
\* with the view.  A request whose earlier grant went unnoticed has a row that
\* is not waiting: its INSERT fails, and all is rolled back.
TryClaim(r) ==
  /\ phase[r] = "polling"
  /\ lease[r].state \in {"none", "waiting"}
  /\ IF Grantable(r)
     THEN /\ lease' = [Swept EXCEPT ![r] = HeldRow]
          /\ ahead' = Without(SweptAhead, r)
          /\ phase' = [phase EXCEPT ![r] = "granted"]
     ELSE /\ lease' = [Swept EXCEPT ![r] = WaitingRow]
          /\ ahead' = [SweptAhead EXCEPT ![r] = Before(r)]
          /\ phase' = [phase EXCEPT ![r] =
                        CASE MayProbe(r) -> IF Hopeless THEN "lastProbe" ELSE "probing"
                          [] Hopeless /\ ~MayProbe(r) -> "leaving"
                          [] OTHER -> "polling"]
  /\ UNCHANGED <<isLocal, holder, renewal, provider, probe>>

\* The reply to the COMMIT is lost.
ClaimUnnoticed(r) ==
  /\ Goes(r, "granted", "polling")
  /\ UNCHANGED <<isLocal, lease, ahead, holder, renewal, provider, probe>>

\* startHolding counts from the reply.
StartHolding(r) ==
  /\ Goes(r, "granted", "held")
  /\ holder' = [holder EXCEPT ![r] = NewHolder]
  /\ UNCHANGED <<isLocal, lease, ahead, renewal, provider, probe>>

\* The caller's signal, capacity_wait_timeout, or a database that fails for
\* longer than the waiter's lease.
GiveUp(r) ==
  /\ Goes(r, "polling", "leaving")
  /\ UNCHANGED <<isLocal, lease, ahead, holder, renewal, provider, probe>>

\* The interval that keeps the row of a probing waiter alive.
KeepAlive(r) ==
  /\ phase[r] \in {"probing", "lastProbe"}
  /\ lease[r].state = "waiting"
  /\ lease' = [lease EXCEPT ![r] = WaitingRow]
  /\ UNCHANGED <<isLocal, ahead, phase, holder, renewal, provider, probe>>

\* deleteLease, for the catch of acquire and for release.
Delete(r) ==
  /\ lease' = [lease EXCEPT ![r] = NoLease]
  /\ ahead' = Without(ahead, r)

DeleteLease(r) ==
  /\ Goes(r, "leaving", "gone")
  /\ Delete(r) \/ UNCHANGED <<lease, ahead>>
  /\ UNCHANGED <<isLocal, holder, renewal, provider, probe>>

\* A later call takes the place, and with it the token, of one that nothing
\* refers to any more; a waiting row that expired, which any claim deletes,
\* goes with it.
NextCall(r) ==
  /\ Goes(r, "gone", "idle")
  /\ lease[r] \in {NoLease, LapsedRow}
  /\ r \notin provider /\ renewal[r].stage = "none"
  /\ \A p \in Probers : r \notin probe[p].on
  /\ Delete(r)
  /\ UNCHANGED <<isLocal, holder, renewal, provider, probe>>

-----------------------------------------------------------------------------
(* Holding a slot: startHolding, callAiProvider, executeProviderCall *)

\* The timer is cleared.
StopTimer(r) == holder' = [holder EXCEPT ![r] = NewHolder]

\* The request goes out; only now a lost lease would abort it.
Send(r) ==
  /\ Goes(r, "held", "executing")
  /\ provider' = provider \cup {r}
  /\ UNCHANGED <<isLocal, lease, ahead, holder, renewal, probe>>

\* The deadline has passed, the signal is aborted, or the connection fails.
NotSent(r) ==
  /\ Goes(r, "held", "leaving")
  /\ StopTimer(r)
  /\ UNCHANGED <<isLocal, lease, ahead, renewal, provider, probe>>

\* The provider's answer, or its error status, is here.
Answered(r) ==
  /\ Goes(r, "executing", "leaving")
  /\ provider' = provider \ {r}
  /\ StopTimer(r)
  /\ UNCHANGED <<isLocal, lease, ahead, renewal, probe>>

\* A timeout, a reset, a shutdown or a cancellation.
Abort(r) ==
  /\ Goes(r, "executing", "aborted")
  /\ UNCHANGED <<isLocal, lease, ahead, holder, renewal, provider, probe>>

\* The provider ends an aborted request, by itself or as it sees the close.
Abandon(r) ==
  /\ r \in provider /\ phase[r] # "executing"
  /\ provider' = provider \ {r}
  /\ UNCHANGED <<isLocal, lease, ahead, phase, holder, renewal, probe>>

\* requiresSlotQuarantine, and quarantine: an UPDATE, or an INSERT where the row
\* is gone; it may fail.
Quarantine(r) ==
  /\ IF isLocal
     THEN /\ Goes(r, "aborted", "parting")
          /\ \/ lease' = [lease EXCEPT ![r] = QuarantinedRow]
             \/ UNCHANGED lease
     ELSE Goes(r, "aborted", "leaving") /\ UNCHANGED lease
  /\ StopTimer(r)
  /\ UNCHANGED <<isLocal, ahead, renewal, provider, probe>>

\* The timer runs until the slot is released or quarantined.
Beats(r) == phase[r] \in {"held", "executing", "aborted"} /\ ~holder[r].lost

\* markLost: the callbacks abort a request that was sent.
MarkLost(r) ==
  /\ holder' = [holder EXCEPT ![r] = [NewHolder EXCEPT !.lost = TRUE]]
  /\ phase' = [phase EXCEPT ![r] = IF @ = "executing" THEN "aborted" ELSE @]

\* One call of the interval.
Heartbeat(r) ==
  /\ Beats(r) /\ holder[r].due
  /\ IF holder[r].unconfirmed >= LossDeadline
     THEN MarkLost(r) /\ UNCHANGED renewal
     ELSE /\ holder' = [holder EXCEPT ![r].due = FALSE]
          /\ renewal' = IF renewal[r].stage # "none" THEN renewal
                        ELSE [renewal EXCEPT ![r] = [stage |-> "sent", age |-> 0]]
          /\ UNCHANGED phase
  /\ UNCHANGED <<isLocal, lease, ahead, provider, probe>>

\* The database executes the statement, however late.
Renew(r) ==
  /\ renewal[r].stage = "sent"
  /\ IF lease[r].state = "holding"
     THEN /\ lease' = [lease EXCEPT ![r] = HeldRow]
          /\ renewal' = [renewal EXCEPT ![r].stage = "kept"]
     ELSE renewal' = [renewal EXCEPT ![r].stage = "missed"] /\ UNCHANGED lease
  /\ UNCHANGED <<isLocal, ahead, phase, holder, provider, probe>>

\* Mutant: the renewal counts from its reply.
ConfirmedOnReply(r) ==
  /\ renewal[r].stage \in {"kept", "missed"}
  /\ renewal' = [renewal EXCEPT ![r] = NoRenewal]
  /\ IF ~Beats(r) THEN UNCHANGED <<phase, holder>>
     ELSE IF renewal[r].stage = "missed" THEN MarkLost(r)
     ELSE /\ holder' = [holder EXCEPT ![r].unconfirmed = 0]
          /\ UNCHANGED phase
  /\ UNCHANGED <<isLocal, lease, ahead, provider, probe>>

\* Its reply arrives: the lease is confirmed from when it was sent.
Confirmed(r) ==
  /\ renewal[r].stage \in {"kept", "missed"}
  /\ renewal' = [renewal EXCEPT ![r] = NoRenewal]
  /\ IF ~Beats(r) THEN UNCHANGED <<phase, holder>>
     ELSE IF renewal[r].stage = "missed" THEN MarkLost(r)
     ELSE /\ holder' = [holder EXCEPT ![r].unconfirmed = renewal[r].age]
          /\ UNCHANGED phase
  /\ UNCHANGED <<isLocal, lease, ahead, provider, probe>>

\* It fails, before or after the database has executed it.
RenewalFails(r) ==
  /\ renewal[r].stage # "none"
  /\ renewal' = [renewal EXCEPT ![r] = NoRenewal]
  /\ UNCHANGED <<isLocal, lease, ahead, phase, holder, provider, probe>>

-----------------------------------------------------------------------------
(* Probing a quarantined slot: verifyQuarantine *)

\* By a waiter, by the holder in the background, and by the safety net.
Probes(p) ==
  p \in Requests => phase[p] \in {"probing", "lastProbe", "parting"}

\* What the caller does next, given whether the row is reported released.
AfterProbe(p, released) ==
  /\ probe' = [probe EXCEPT ![p] = NoProbe]
  /\ phase' = IF p = SafetyNet THEN phase
             ELSE [phase EXCEPT ![p] = CASE @ = "parting" -> "gone"
                                        [] @ = "lastProbe" /\ ~released -> "leaving"
                                        [] OTHER -> "polling"]

\* Mutant: a row whose worst-case bound has passed is no longer probed.
ClaimProbeInTime(p) ==
  /\ Probes(p) /\ probe[p].on = {}
  /\ \E q \in RowsIn(lease, "quarantined") :
       /\ lease[q].left > 0
       /\ probe' = [probe EXCEPT ![p] = [on |-> {q}, served |-> FALSE]]
  /\ UNCHANGED <<isLocal, lease, ahead, phase, holder, renewal, provider>>

\* The claim; whether a row's verify_after has come is left open.
ClaimProbe(p) ==
  /\ Probes(p) /\ probe[p].on = {}
  /\ \E q \in RowsIn(lease, "quarantined") :
       probe' = [probe EXCEPT ![p] = [on |-> {q}, served |-> FALSE]]
  /\ UNCHANGED <<isLocal, lease, ahead, phase, holder, renewal, provider>>

NothingToProbe(p) ==
  /\ p # SafetyNet
  /\ Probes(p) /\ probe[p].on = {}
  /\ AfterProbe(p, FALSE)
  /\ UNCHANGED <<isLocal, lease, ahead, holder, renewal, provider>>

\* verifyProviderIdle: the provider streams within the budget only if it has
\* nothing else to do on one of its lanes.
ProbeServed(p) ==
  /\ probe[p].on # {} /\ ~probe[p].served
  /\ Cardinality(provider) < Capacity
  /\ probe' = [probe EXCEPT ![p].served = TRUE]
  /\ UNCHANGED <<isLocal, lease, ahead, phase, holder, renewal, provider>>

ProbeBusy(p) ==
  /\ probe[p].on # {} /\ ~probe[p].served
  /\ AfterProbe(p, FALSE)
  /\ UNCHANGED <<isLocal, lease, ahead, holder, renewal, provider>>

\* The DELETE, whose failure is ignored.
ReleaseProbed(p) ==
  /\ probe[p].served
  /\ \/ lease' = [q \in Requests |->
                    IF q \in probe[p].on /\ lease[q].state = "quarantined"
                    THEN NoLease ELSE lease[q]]
     \/ UNCHANGED lease
  /\ AfterProbe(p, TRUE)
  /\ UNCHANGED <<isLocal, ahead, holder, renewal, provider>>

\* releaseQuarantined, by an administrator who made sure the provider is idle.
ReleaseQuarantined ==
  /\ RowsIn(lease, "quarantined") # {} /\ provider = {}
  /\ lease' = [q \in Requests |-> IF lease[q].state = "quarantined" THEN NoLease
                                  ELSE lease[q]]
  /\ UNCHANGED <<isLocal, ahead, phase, holder, renewal, provider, probe>>

-----------------------------------------------------------------------------
(* Time and failure *)

Older(n) == IF n < LossDeadline THEN n + 1 ELSE n

\* Room for one more heartbeat before a claim is answered and the request sent,
\* and for the waiter's lease, after which a claim that went unnoticed and can
\* only fail from then on is given up.
Prompt(r) ==
  /\ phase[r] \in {"granted", "held"} => lease[r].left = HoldLease
  /\ phase[r] = "polling" /\ lease[r].state = "holding" => lease[r].left >= HoldLease - 1

\* Timers fire on time: no heartbeat is still due when the next one is.
Tick ==
  /\ \A r \in Requests : ~(Beats(r) /\ holder[r].due)
  /\ DbPrompt => \A r \in Requests : Prompt(r)
  /\ lease' = [r \in Requests |->
                 IF lease[r].left > 0 /\ lease[r].state \in {"waiting", "holding"}
                 THEN [lease[r] EXCEPT !.left = @ - 1] ELSE lease[r]]
  /\ holder' = [r \in Requests |->
                  IF Beats(r)
                  THEN [holder[r] EXCEPT !.unconfirmed = Older(@), !.due = TRUE]
                  ELSE holder[r]]
  /\ renewal' = [r \in Requests |->
                   IF renewal[r].stage # "none"
                   THEN [renewal[r] EXCEPT !.age = Older(@)] ELSE renewal[r]]
  /\ <<lease, holder, renewal>>' # <<lease, holder, renewal>>
  /\ UNCHANGED <<isLocal, ahead, phase, provider, probe>>

\* A quarantine's worst-case bound passes; how long it is is left open.
PassBound(r) ==
  /\ lease[r].state = "quarantined" /\ lease[r].left > 0
  /\ lease' = [lease EXCEPT ![r].left = 0]
  /\ UNCHANGED <<isLocal, ahead, phase, holder, renewal, provider, probe>>

\* The process of a request dies; its request may go on at the provider.
Die(r) ==
  /\ phase[r] \notin {"idle", "gone"}
  /\ phase' = [phase EXCEPT ![r] = "gone"]
  /\ probe' = [probe EXCEPT ![r] = NoProbe]
  /\ StopTimer(r)
  /\ UNCHANGED <<isLocal, lease, ahead, renewal, provider>>

-----------------------------------------------------------------------------
Acquiring(r) ==
  \/ InsertWaiter(r) \/ TryClaim(r) \/ ClaimUnnoticed(r) \/ StartHolding(r)
  \/ GiveUp(r) \/ KeepAlive(r) \/ DeleteLease(r) \/ NextCall(r)

Executing(r) ==
  \/ Send(r) \/ NotSent(r) \/ Answered(r) \/ Abort(r) \/ Abandon(r)
  \/ Quarantine(r)
  \/ Heartbeat(r) \/ Renew(r) \/ Confirmed(r) \/ RenewalFails(r)

Probing(p) ==
  ClaimProbe(p) \/ NothingToProbe(p) \/ ProbeServed(p) \/ ProbeBusy(p)
  \/ ReleaseProbed(p)

InferenceNext ==
  \/ \E r \in Requests : Acquiring(r) \/ Executing(r) \/ PassBound(r) \/ Die(r)
  \/ \E p \in Probers : Probing(p)
  \/ ReleaseQuarantined
  \/ Tick

\* What a request does next, unless it is aborted or gives up waiting; a claim
\* that went unnoticed is given up.
Working(r) ==
  \/ TryClaim(r) \/ ClaimUnnoticed(r) \/ StartHolding(r) \/ DeleteLease(r)
  \/ GiveUp(r) /\ lease[r].state # "waiting"
  \/ Send(r) \/ NotSent(r) \/ Answered(r) \/ Abort(r) \/ Quarantine(r)
  \/ Probing(r)

Clock == Tick \/ \E r \in Requests : Heartbeat(r)

\* Requests, timers and the safety net go on, every request is answered or runs
\* into its timeouts, and a provider ends what was abandoned.  Among the safety
\* net's probes of an idle provider, and the releases that follow, some succeed.
InferenceFairness ==
  /\ \A r \in Requests : WF_inferenceOwn(Working(r)) /\ WF_inferenceOwn(Abandon(r))
  /\ WF_inferenceOwn(Clock)
  /\ WF_inferenceOwn(Probing(SafetyNet))
  /\ SF_inferenceOwn(ProbeServed(SafetyNet))
  /\ SF_inferenceOwn(ReleaseProbed(SafetyNet) /\ lease' # lease)

-----------------------------------------------------------------------------
(* Properties *)

\* Never more requests than slots believe they own one, also when renewals
\* hang, fail or are answered late (startHolding's loss deadline against the
\* expiry tryClaim acts on).
SlotsNotShared ==
  Cardinality({r \in Requests : /\ phase[r] \in {"held", "executing"}
                                /\ ~holder[r].lost}) <= Capacity

\* A local provider with one slot never has a second request, not even beside
\* one that was abandoned by an abort, a lost lease or a dead process: an
\* expired or given-up slot is quarantined until the provider is idle.
NoOverload == isLocal /\ Capacity = 1 => Cardinality(provider) <= 1

\* A quarantined slot is free again in the end, although nobody may be waiting
\* for it and its worst-case bound may have passed (the worker's safety net).
SlotRecovered ==
  \A r \in Requests : lease[r].state = "quarantined" ~> lease[r].state = "none"

\* A request that goes on waiting is served, unless it is told that a bound
\* has passed: the slots of dead, aborted and unnoticed requests come back.
WaiterServed ==
  \A r \in Requests : phase[r] = "polling" ~> phase[r] \in {"held", "leaving", "gone"}

=============================================================================
