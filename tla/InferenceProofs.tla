-------------------------- MODULE InferenceProofs ---------------------------
(***************************************************************************)
(* The gate in front of an AI provider for any number of requests, slots   *)
(* and heartbeats: the types, that slots are not shared, and that a local  *)
(* provider with one slot is never given a second request.                 *)
(***************************************************************************)
EXTENDS InferenceScheduler, TLAPS, FiniteSetTheorems

InferenceSpec == InferenceInit /\ [][InferenceNext]_inferenceOwn

Waiters == {"polling", "probing", "lastProbe"}

\* The phases a request whose row may expire, or be probed, can be in.
InferencePast == {"executing", "aborted", "parting", "leaving", "gone"}

\* A waiting row is that of a request that waits or is over.
WaitersWait ==
  \A r \in Requests : lease[r].state = "waiting" => phase[r] \in Waiters \cup {"leaving", "gone"}

\* A row that is claimed by a probe is claimed by one that goes on.
ProbersProbe ==
  /\ \A r \in Requests : probe[r].on # {} => phase[r] \in {"probing", "lastProbe", "parting"}
  /\ \A p \in Probers : probe[p].served => probe[p].on # {}

InferenceTypeInv == InferenceTypeOK /\ WaitersWait /\ ProbersProbe

\* A slot that was granted, and is not used so far, has at most aged by one
\* heartbeat, and one whose grant went unnoticed by two.
FreshInv ==
  \A r \in Requests :
    /\ phase[r] \in {"granted", "held"}
         => lease[r].state = "holding" /\ lease[r].left >= HoldLease - 1
    /\ phase[r] = "polling" /\ lease[r].state = "holding" => lease[r].left >= HoldLease - 2
    /\ lease[r].state = "holding" => phase[r] \notin {"idle", "probing", "lastProbe"}

\* A holder's clock runs ahead of the row's: what is left of the lease, and what
\* the holder knows to have passed, add up to the lease but for one heartbeat.
\* A renewal that was executed covers the time since it was sent.
ClockInv ==
  \A r \in Requests :
    /\ renewal[r].stage # "none" => phase[r] \in InferencePast \cup {"held"}
    /\ Beats(r) =>
         /\ lease[r].state = "holding"
         /\ lease[r].left + holder[r].unconfirmed >= HoldLease - 1
         /\ holder[r].unconfirmed = LossDeadline => holder[r].due
         /\ renewal[r].stage # "none" => renewal[r].age <= holder[r].unconfirmed
         /\ renewal[r].stage = "kept" => lease[r].left + renewal[r].age >= HoldLease

\* No more rows hold a slot than there are; quarantined rows may come on top.
RowsInv == Cardinality(RowsIn(lease, "holding")) <= Capacity

SlotInv == InferenceTypeInv /\ FreshInv /\ ClockInv /\ RowsInv

\* What a probe is on is a row that nobody will use.
QuarantineInv ==
  \A r \in Requests :
    /\ lease[r].state = "quarantined" => phase[r] \in InferencePast
    /\ \A p \in Probers : r \in probe[p].on => phase[r] \in InferencePast

\* A request that has a slot or that the provider executes.
Active(r) == r \in provider \/ phase[r] \in {"granted", "held"}

\* What a local provider with one slot executes has a row that holds it: one
\* that was released was probed while the provider was idle.
ActiveInv ==
  isLocal /\ Capacity = 1 =>
    /\ \A r \in provider :
         /\ phase[r] \in {"executing", "aborted", "parting", "gone"}
         /\ lease[r].state \in {"holding", "quarantined"}
         /\ \A p \in Probers : probe[p].served => r \notin probe[p].on
    /\ \A r, q \in Requests : Active(r) /\ Active(q) => r = q

LoadInv == SlotInv /\ QuarantineInv /\ ActiveInv

-----------------------------------------------------------------------------
(* Types *)

\* The loss deadline lies before the end of the lease.
LEMMA Deadline == LossDeadline = HoldLease - 2 /\ LossDeadline \in Nat /\ LossDeadline >= 2
<1> DEFINE S == {1, HoldLease - 2}
<1>1. HoldLease \in Nat /\ HoldLease >= 4
  BY SchedulerAssumption
<1>2. HoldLease - 2 \in S /\ \A y \in S : HoldLease - 2 >= y
  BY <1>1
<1>3. Max(S) \in S /\ \A y \in S : Max(S) >= y
  <2> HIDE DEF S
  <2> QED
    BY <1>2 DEF Max
<1>4. Max(S) = HoldLease - 2
  BY <1>1, <1>2, <1>3
<1> QED
  BY <1>1, <1>4 DEF LossDeadline

\* The rows, closures, statements and probes that the steps create.
LEMMA Created ==
  /\ {NoLease, WaitingRow, LapsedRow, HeldRow, QuarantinedRow} \subseteq LeaseRow
  /\ NoLease.state = "none" /\ WaitingRow.state = "waiting" /\ LapsedRow.state = "waiting"
  /\ HeldRow.state = "holding" /\ HeldRow.left = HoldLease
  /\ QuarantinedRow.state = "quarantined"
  /\ LapsedRow.left = 0 /\ NewHolder \in Holder /\ [NewHolder EXCEPT !.lost = TRUE] \in Holder
  /\ NewHolder.unconfirmed = 0 /\ ~NewHolder.lost /\ [NewHolder EXCEPT !.lost = TRUE].lost
  /\ NoRenewal \in Renewal /\ NoRenewal.stage = "none"
  /\ NoProbe \in Probe /\ NoProbe.on = {} /\ ~NoProbe.served
<1>1. /\ 0 \in 0 .. HoldLease /\ 1 \in 0 .. HoldLease /\ HoldLease \in 0 .. HoldLease
      /\ WaitLease \in 0 .. HoldLease
  BY SchedulerAssumption
<1>2. 0 \in 0 .. LossDeadline
  BY Deadline
<1>3. {NoLease, WaitingRow, LapsedRow, HeldRow, QuarantinedRow} \subseteq LeaseRow
  BY <1>1 DEF LeaseRow, NoLease, WaitingRow, LapsedRow, HeldRow, QuarantinedRow
<1>4. /\ NoLease.state = "none" /\ WaitingRow.state = "waiting" /\ LapsedRow.state = "waiting"
      /\ HeldRow.state = "holding" /\ HeldRow.left = HoldLease
      /\ QuarantinedRow.state = "quarantined" /\ LapsedRow.left = 0
  BY DEF NoLease, WaitingRow, LapsedRow, HeldRow, QuarantinedRow
<1>5. /\ NewHolder \in Holder /\ [NewHolder EXCEPT !.lost = TRUE] \in Holder
      /\ NewHolder.unconfirmed = 0 /\ ~NewHolder.lost /\ [NewHolder EXCEPT !.lost = TRUE].lost
  BY <1>2 DEF Holder, NewHolder
<1>6. NoRenewal \in Renewal /\ NoRenewal.stage = "none"
  BY <1>2 DEF Renewal, NoRenewal
<1>7. NoProbe \in Probe /\ NoProbe.on = {} /\ ~NoProbe.served
  BY DEF Probe, NoProbe
<1> QED
  BY <1>3, <1>4, <1>5, <1>6, <1>7

\* What the sweep of a claim makes of a row.
LEMMA SweptRow ==
  ASSUME lease \in [Requests -> LeaseRow], NEW q \in Requests
  PROVE  /\ Swept \in [Requests -> LeaseRow]
         /\ Swept[q].state \in {"waiting", "holding"} => Swept[q] = lease[q]
         /\ lease[q].state \in {"none", "quarantined"} => Swept[q] = lease[q]
         /\ lease[q].state = "holding" /\ lease[q].left > 0 => Swept[q] = lease[q]
         /\ lease[q].state = "holding" /\ isLocal
              => Swept[q].state \in {"holding", "quarantined"}
         /\ Swept[q].state = "quarantined"
              => \/ lease[q].state = "quarantined"
                 \/ lease[q].state = "holding" /\ lease[q].left = 0
<1>1. /\ lease[q] \in LeaseRow /\ lease[q].left \in Nat
      /\ lease[q].state \in {"none", "waiting", "holding", "quarantined"}
  BY SchedulerAssumption DEF LeaseRow
<1>2. /\ Swept[q] = CASE lease[q] = LapsedRow -> NoLease
                      [] lease[q].left = 0 /\ lease[q].state = "holding" ->
                           IF isLocal THEN QuarantinedRow ELSE NoLease
                      [] OTHER -> lease[q]
  BY DEF Swept
<1>3. Swept \in [Requests -> LeaseRow]
  <2>1. ASSUME NEW x \in Requests
        PROVE  (CASE lease[x] = LapsedRow -> NoLease
                  [] lease[x].left = 0 /\ lease[x].state = "holding" ->
                       IF isLocal THEN QuarantinedRow ELSE NoLease
                  [] OTHER -> lease[x]) \in LeaseRow
    BY Created
  <2> QED
    BY <2>1 DEF Swept
<1>4. LapsedRow.state = "waiting" /\ NoLease.state = "none"
      /\ QuarantinedRow.state = "quarantined"
  BY Created
<1> QED
  BY <1>1, <1>2, <1>3, <1>4

\* Steps of a request on the way to its slot, and away from it, that leave the
\* table alone.
Quiet(r) ==
  \/ ClaimUnnoticed(r) \/ StartHolding(r) \/ GiveUp(r) \/ Send(r) \/ NotSent(r)
  \/ Answered(r) \/ Abort(r) \/ Abandon(r) \/ Heartbeat(r) \/ Confirmed(r)
  \/ RenewalFails(r) \/ Die(r)

\* Steps on a row that leave the waiting rows alone.
Rows(r) == KeepAlive(r) \/ Quarantine(r) \/ Renew(r) \/ PassBound(r)

\* Probing without the release that may end it.
Asks(p) == ClaimProbe(p) \/ NothingToProbe(p) \/ ProbeServed(p) \/ ProbeBusy(p)

\* Every step is one of these.
LEMMA Steps ==
  InferenceNext =>
    \/ \E r \in Requests : \/ InsertWaiter(r) \/ TryClaim(r) \/ DeleteLease(r) \/ NextCall(r)
                           \/ Quiet(r) \/ Rows(r)
    \/ \E p \in Probers : Asks(p) \/ ReleaseProbed(p)
    \/ ReleaseQuarantined \/ Tick
  BY Zenon DEF InferenceNext, Acquiring, Executing, Quiet, Rows, Probing, Asks

\* The table is well formed after every step.
LEMMA TypeLease ==
  ASSUME InferenceTypeOK, InferenceNext
  PROVE  lease' \in [Requests -> LeaseRow]
<1>1. lease \in [Requests -> LeaseRow]
  BY DEF InferenceTypeOK
<1>2. ASSUME NEW r \in Requests, Quiet(r)
      PROVE  UNCHANGED lease
  BY <1>2 DEF Quiet, ClaimUnnoticed, StartHolding, GiveUp, Send, NotSent, Answered, Abort,
     Abandon, Heartbeat, Confirmed, RenewalFails, Die
<1>8. ASSUME NEW p \in Probers, Asks(p)
      PROVE  UNCHANGED lease
  BY <1>8 DEF Asks, ClaimProbe, NothingToProbe, ProbeServed, ProbeBusy
<1>3. ASSUME NEW r \in Requests, InsertWaiter(r) \/ DeleteLease(r) \/ NextCall(r)
      PROVE  lease' \in [Requests -> LeaseRow]
  BY <1>1, <1>3, Created DEF InsertWaiter, DeleteLease, NextCall, Delete
<1>4. ASSUME NEW r \in Requests, TryClaim(r)
      PROVE  lease' \in [Requests -> LeaseRow]
  BY <1>1, <1>4, SweptRow, Created DEF TryClaim
<1>5. ASSUME NEW r \in Requests, Rows(r)
      PROVE  lease' \in [Requests -> LeaseRow]
  <2>1. lease[r] \in LeaseRow /\ [lease[r] EXCEPT !.left = 0] \in LeaseRow
    BY <1>1, SchedulerAssumption DEF LeaseRow
  <2> QED
    BY <1>1, <1>5, <2>1, Created DEF Rows, KeepAlive, Quarantine, Renew, PassBound
<1>6. ASSUME (\E p \in Probers : ReleaseProbed(p)) \/ ReleaseQuarantined
      PROVE  lease' \in [Requests -> LeaseRow]
  BY <1>1, <1>6, Created DEF ReleaseProbed, ReleaseQuarantined
<1>7. ASSUME Tick
      PROVE  lease' \in [Requests -> LeaseRow]
  <2>1. ASSUME NEW r \in Requests
        PROVE  /\ lease[r] \in LeaseRow
               /\ lease[r].left > 0 => [lease[r] EXCEPT !.left = @ - 1] \in LeaseRow
    BY <1>1, SchedulerAssumption DEF LeaseRow
  <2> QED
    BY <1>7, <2>1 DEF Tick
<1> QED
  BY <1>1, <1>2, <1>3, <1>4, <1>5, <1>6, <1>7, <1>8, Steps

Phases == {"idle", "polling", "probing", "lastProbe", "granted", "held", "executing",
           "aborted", "leaving", "parting", "gone"}

\* So are the closures, statements and probes.
LEMMA TypeOther ==
  ASSUME InferenceTypeOK, InferenceNext
  PROVE  /\ isLocal' \in BOOLEAN /\ phase' \in [Requests -> Phases]
         /\ holder' \in [Requests -> Holder] /\ renewal' \in [Requests -> Renewal]
         /\ provider' \subseteq Requests /\ probe' \in [Probers -> Probe]
         /\ \A p \in Probers : Cardinality(probe'[p].on) <= 1
<1> DEFINE Goal ==
      /\ isLocal' \in BOOLEAN /\ phase' \in [Requests -> Phases]
      /\ holder' \in [Requests -> Holder] /\ renewal' \in [Requests -> Renewal]
      /\ provider' \subseteq Requests /\ probe' \in [Probers -> Probe]
      /\ \A p \in Probers : Cardinality(probe'[p].on) <= 1
<1>1. /\ isLocal \in BOOLEAN /\ phase \in [Requests -> Phases]
      /\ holder \in [Requests -> Holder] /\ renewal \in [Requests -> Renewal]
      /\ provider \subseteq Requests /\ probe \in [Probers -> Probe]
      /\ \A p \in Probers : Cardinality(probe[p].on) <= 1
  BY DEF InferenceTypeOK, Phases
<1>2. Requests \subseteq Probers /\ Cardinality({}) = 0 /\ \A x : Cardinality({x}) = 1
  BY FS_EmptySet, FS_Singleton DEF Probers
<1>3. ASSUME NEW r \in Requests, InsertWaiter(r) \/ DeleteLease(r) \/ NextCall(r)
      PROVE  Goal
  BY <1>1, <1>3 DEF InsertWaiter, DeleteLease, NextCall, Goes, Phases
<1>4. ASSUME NEW r \in Requests, TryClaim(r)
      PROVE  Goal
  BY <1>1, <1>4 DEF TryClaim, Phases
<1>5. ASSUME NEW r \in Requests,
             \/ ClaimUnnoticed(r) \/ StartHolding(r) \/ GiveUp(r) \/ Send(r) \/ NotSent(r)
             \/ Answered(r) \/ Abort(r) \/ Abandon(r)
      PROVE  Goal
  BY <1>1, <1>5, Created DEF ClaimUnnoticed, StartHolding, GiveUp, Send, NotSent, Answered,
     Abort, Abandon, Goes, StopTimer, Phases
<1>6. ASSUME NEW r \in Requests, MarkLost(r)
      PROVE  phase' \in [Requests -> Phases] /\ holder' \in [Requests -> Holder]
  BY <1>1, <1>6, Created DEF MarkLost, Phases
<1>7. ASSUME NEW r \in Requests, Heartbeat(r)
      PROVE  Goal
  <2>1. [stage |-> "sent", age |-> 0] \in Renewal
    BY Deadline DEF Renewal
  <2>2. [holder[r] EXCEPT !.due = FALSE] \in Holder
    BY <1>1 DEF Holder
  <2> QED
    BY <1>1, <1>6, <1>7, <2>1, <2>2 DEF Heartbeat
<1>8. ASSUME NEW r \in Requests, Confirmed(r) \/ RenewalFails(r)
      PROVE  Goal
  <2>1. [holder[r] EXCEPT !.unconfirmed = renewal[r].age] \in Holder
    BY <1>1 DEF Holder, Renewal
  <2>2. renewal' \in [Requests -> Renewal]
    BY <1>1, <1>8, Created DEF Confirmed, RenewalFails
  <2>3. phase' \in [Requests -> Phases] /\ holder' \in [Requests -> Holder]
    BY <1>1, <1>6, <1>8, <2>1 DEF Confirmed, RenewalFails
  <2> QED
    BY <1>1, <1>8, <2>2, <2>3 DEF Confirmed, RenewalFails
<1>16. ASSUME NEW p \in Probers, NEW v \in Probe, Cardinality(v.on) <= 1,
              probe' = [probe EXCEPT ![p] = v]
       PROVE  /\ probe' \in [Probers -> Probe]
              /\ \A x \in Probers : Cardinality(probe'[x].on) <= 1
  <2>1. \A x \in Probers : probe'[x] = IF x = p THEN v ELSE probe[x]
    BY <1>1, <1>16
  <2> QED
    BY <1>1, <1>16, <2>1
<1>17. NoProbe \in Probe /\ Cardinality(NoProbe.on) <= 1
  BY <1>2, Created
<1>9. ASSUME NEW r \in Requests, Die(r) \/ KeepAlive(r) \/ PassBound(r) \/ Quarantine(r)
      PROVE  Goal
  <2>1. CASE Die(r)
    BY <1>1, <1>2, <1>16, <1>17, <2>1, Created DEF Die, StopTimer, Phases
  <2>2. CASE KeepAlive(r) \/ PassBound(r) \/ Quarantine(r)
    BY <1>1, <2>2, Created DEF KeepAlive, PassBound, Quarantine, Goes, StopTimer, Phases
  <2> QED
    BY <1>9, <2>1, <2>2
<1>10. ASSUME NEW r \in Requests, Renew(r)
       PROVE  Goal
  <2>1. /\ [renewal[r] EXCEPT !.stage = "kept"] \in Renewal
        /\ [renewal[r] EXCEPT !.stage = "missed"] \in Renewal
    BY <1>1 DEF Renewal
  <2> QED
    BY <1>1, <1>10, <2>1 DEF Renew
<1>11. ASSUME NEW p \in Probers, NEW released \in BOOLEAN, AfterProbe(p, released)
       PROVE  /\ phase' \in [Requests -> Phases] /\ probe' \in [Probers -> Probe]
              /\ \A x \in Probers : Cardinality(probe'[x].on) <= 1
  <2>1. phase' \in [Requests -> Phases]
    BY <1>1, <1>11 DEF AfterProbe, Phases
  <2> QED
    BY <1>11, <1>16, <1>17, <2>1 DEF AfterProbe
<1>12. ASSUME NEW p \in Probers, NothingToProbe(p) \/ ProbeBusy(p) \/ ReleaseProbed(p)
       PROVE  Goal
  BY <1>1, <1>11, <1>12 DEF NothingToProbe, ProbeBusy, ReleaseProbed
<1>13. ASSUME NEW p \in Probers, ClaimProbe(p) \/ ProbeServed(p)
       PROVE  Goal
  <2>1. /\ \A q \in Requests : [on |-> {q}, served |-> FALSE] \in Probe
        /\ [probe[p] EXCEPT !.served = TRUE] \in Probe
        /\ [probe[p] EXCEPT !.served = TRUE].on = probe[p].on
    BY <1>1 DEF Probe
  <2>2. \A q \in Requests : Cardinality([on |-> {q}, served |-> FALSE].on) <= 1
    BY <1>2
  <2>3. /\ probe' \in [Probers -> Probe]
        /\ \A x \in Probers : Cardinality(probe'[x].on) <= 1
    <3>1. CASE ClaimProbe(p)
      BY <1>16, <2>1, <2>2, <3>1 DEF ClaimProbe, RowsIn
    <3>2. CASE ProbeServed(p)
      <4>1. probe' = [probe EXCEPT ![p] = [probe[p] EXCEPT !.served = TRUE]]
        BY <3>2 DEF ProbeServed
      <4> QED
        BY <1>1, <1>16, <2>1, <4>1
    <3> QED
      BY <1>13, <3>1, <3>2
  <2> QED
    BY <1>1, <1>13, <2>3 DEF ClaimProbe, ProbeServed
<1>14. ASSUME Tick
       PROVE  Goal
  <2>1. ASSUME NEW n \in 0 .. LossDeadline
        PROVE  Older(n) \in 0 .. LossDeadline
    BY Deadline DEF Older
  <2>2. ASSUME NEW r \in Requests
        PROVE  [holder[r] EXCEPT !.unconfirmed = Older(@), !.due = TRUE] \in Holder
    BY <1>1, <2>1 DEF Holder
  <2>3. ASSUME NEW r \in Requests
        PROVE  [renewal[r] EXCEPT !.age = Older(@)] \in Renewal
    BY <1>1, <2>1 DEF Renewal
  <2> QED
    BY <1>1, <1>14, <2>2, <2>3 DEF Tick
<1>15. ASSUME ReleaseQuarantined
       PROVE  Goal
  BY <1>1, <1>15 DEF ReleaseQuarantined
<1> QED
  BY <1>3, <1>4, <1>5, <1>7, <1>8, <1>9, <1>10, <1>12, <1>13, <1>14, <1>15, Steps
  DEF Quiet, Rows, Asks

\* Who probes, as InferenceTypeInv says.
LEMMA TypeProbers ==
  ASSUME InferenceTypeOK, ProbersProbe, InferenceNext
  PROVE  ProbersProbe'
<1>1. /\ phase \in [Requests -> Phases] /\ probe \in [Probers -> Probe]
      /\ Requests \subseteq Probers
  BY DEF InferenceTypeOK, Phases, Probers
<1>2. CASE UNCHANGED <<phase, probe>>
  BY <1>2 DEF ProbersProbe
<1>3. ASSUME NEW r \in Requests, UNCHANGED probe,
             phase[r] \notin {"probing", "lastProbe", "parting"},
             phase' = [phase EXCEPT ![r] = phase'[r]]
      PROVE  ProbersProbe'
  BY <1>1, <1>3 DEF ProbersProbe
<1>4. ASSUME NEW r \in Requests,
             \/ InsertWaiter(r) \/ DeleteLease(r) \/ NextCall(r) \/ TryClaim(r) \/ Quarantine(r)
             \/ ClaimUnnoticed(r) \/ StartHolding(r) \/ GiveUp(r) \/ Send(r) \/ NotSent(r)
             \/ Answered(r) \/ Abort(r)
      PROVE  ProbersProbe'
  <2>1. UNCHANGED probe /\ phase[r] \notin {"probing", "lastProbe", "parting"}
    BY <1>4 DEF InsertWaiter, DeleteLease, NextCall, TryClaim, Quarantine, ClaimUnnoticed,
       StartHolding, GiveUp, Send, NotSent, Answered, Abort, Goes
  <2>2. phase' = [phase EXCEPT ![r] = phase'[r]]
    BY <1>1, <1>4 DEF InsertWaiter, DeleteLease, NextCall, TryClaim, Quarantine, ClaimUnnoticed,
       StartHolding, GiveUp, Send, NotSent, Answered, Abort, Goes
  <2> QED
    BY <1>3, <2>1, <2>2
<1>5. ASSUME NEW r \in Requests, Heartbeat(r) \/ Confirmed(r)
      PROVE  ProbersProbe'
  <2>1. CASE UNCHANGED phase
    BY <1>2, <1>5, <2>1 DEF Heartbeat, Confirmed
  <2>2. CASE MarkLost(r) /\ phase[r] = "executing"
    BY <1>1, <1>3, <1>5, <2>2 DEF Heartbeat, Confirmed, MarkLost
  <2>3. MarkLost(r) /\ phase[r] # "executing" => UNCHANGED phase
    BY <1>1 DEF MarkLost
  <2> QED
    BY <1>5, <2>1, <2>2, <2>3 DEF Heartbeat, Confirmed
<1>6. ASSUME NEW r \in Requests, Abandon(r) \/ RenewalFails(r) \/ KeepAlive(r) \/ Renew(r)
                                  \/ PassBound(r)
      PROVE  ProbersProbe'
  BY <1>2, <1>6 DEF Abandon, RenewalFails, KeepAlive, Renew, PassBound
<1>7. ASSUME NEW r \in Requests, Die(r)
      PROVE  ProbersProbe'
  BY <1>1, <1>7, Created DEF Die, ProbersProbe
<1>8. ASSUME NEW p \in Probers, ClaimProbe(p)
      PROVE  ProbersProbe'
  BY <1>1, <1>8 DEF ClaimProbe, Probes, ProbersProbe
<1>9. ASSUME NEW p \in Probers, ProbeServed(p)
      PROVE  ProbersProbe'
  <2>1. \A x \in Probers : probe'[x].on = probe[x].on
    BY <1>1, <1>9 DEF ProbeServed, Probe
  <2>2. \A x \in Probers : probe'[x].served => probe[x].on # {}
    BY <1>1, <1>9 DEF ProbeServed, ProbersProbe
  <2> QED
    BY <1>1, <1>9, <2>1, <2>2 DEF ProbeServed, ProbersProbe
<1>10. ASSUME NEW p \in Probers, NEW released \in BOOLEAN, AfterProbe(p, released)
       PROVE  ProbersProbe'
  BY <1>1, <1>10, Created DEF AfterProbe, ProbersProbe
<1>11. ASSUME NEW p \in Probers, NothingToProbe(p) \/ ProbeBusy(p) \/ ReleaseProbed(p)
       PROVE  ProbersProbe'
  BY <1>10, <1>11 DEF NothingToProbe, ProbeBusy, ReleaseProbed
<1>12. Tick \/ ReleaseQuarantined => ProbersProbe'
  BY <1>2 DEF Tick, ReleaseQuarantined
<1> QED
  BY <1>4, <1>5, <1>6, <1>7, <1>8, <1>9, <1>11, <1>12, Steps DEF Quiet, Rows, Asks

-----------------------------------------------------------------------------
(* What a step does to one request and its row *)

Paces ==
  {<<"granted", "polling">>, <<"polling", "leaving">>, <<"held", "executing">>,
   <<"held", "leaving">>, <<"executing", "leaving">>, <<"executing", "aborted">>,
   <<"aborted", "parting">>, <<"aborted", "leaving">>, <<"probing", "polling">>,
   <<"lastProbe", "polling">>, <<"lastProbe", "leaving">>, <<"parting", "gone">>,
   <<"leaving", "gone">>}

\* It stays where it is, goes on, or dies.
Walks(x) ==
  \/ phase'[x] = phase[x]
  \/ <<phase[x], phase'[x]>> \in Paces /\ (phase[x] = "aborted" /\ isLocal => phase'[x] = "parting")
  \/ phase'[x] = "gone" /\ phase[x] # "idle"
  \/ StartHolding(x) /\ phase[x] = "granted" /\ phase'[x] = "held"

Joins(x) == phase[x] = "idle" /\ phase'[x] = "polling" /\ lease'[x] = WaitingRow

Claims(x) ==
  /\ phase[x] = "polling" /\ lease[x].state \in {"none", "waiting"}
  /\ \/ phase'[x] = "granted" /\ lease'[x] = HeldRow /\ TryClaim(x) /\ Grantable(x)
     \/ phase'[x] \in Waiters \cup {"leaving"} /\ lease'[x] = WaitingRow

Ends(x) == phase[x] = "leaving" /\ phase'[x] = "gone" /\ lease'[x] = NoLease

Recycles(x) ==
  /\ phase[x] = "gone" /\ phase'[x] = "idle"
  /\ lease[x].state \in {"none", "waiting"} /\ lease'[x] = NoLease
  /\ x \notin provider /\ renewal[x].stage = "none"
  /\ \A p \in Probers : x \notin probe[p].on

Renewed(x) ==
  /\ phase'[x] = phase[x]
  /\ \/ lease[x].state = "waiting" /\ lease'[x] = WaitingRow
     \/ lease[x].state = "holding" /\ lease'[x] = HeldRow

Quarantined(x) ==
  \/ /\ isLocal /\ phase[x] = "aborted" /\ phase'[x] = "parting"
     /\ lease'[x].state = "quarantined"
  \/ /\ phase'[x] = phase[x]
     /\ lease[x].state = "quarantined" /\ lease'[x].state = "quarantined"

Released(x) ==
  /\ lease[x].state = "quarantined" /\ lease'[x] = NoLease /\ Walks(x)
  /\ provider = {} \/ \E p \in Probers : probe[p].served /\ x \in probe[p].on

Ages(x) ==
  /\ phase'[x] = phase[x] /\ Tick
  /\ lease[x].state \in {"waiting", "holding"} /\ lease[x].left > 0
  /\ lease'[x].state = lease[x].state /\ lease'[x].left = lease[x].left - 1

Moves(x) ==
  \/ lease'[x] = lease[x] /\ Walks(x)
  \/ lease'[x] = Swept[x] /\ phase'[x] = phase[x]
  \/ Joins(x) \/ Claims(x) \/ Ends(x) \/ Recycles(x) \/ Renewed(x) \/ Quarantined(x)
  \/ Released(x) \/ Ages(x)

\* Every step does one of these.
LEMMA StepMoves ==
  ASSUME InferenceTypeOK, ProbersProbe, InferenceNext, NEW x \in Requests
  PROVE  Moves(x)
<1>1. /\ phase \in [Requests -> Phases] /\ lease \in [Requests -> LeaseRow]
      /\ Requests \subseteq Probers /\ lease[x] \in LeaseRow
  BY DEF InferenceTypeOK, Phases, Probers
<1>2. ASSUME NEW r \in Requests, InsertWaiter(r)
      PROVE  Moves(x)
  BY <1>1, <1>2 DEF InsertWaiter, Goes, Moves, Joins, Walks
<1>3. ASSUME NEW r \in Requests, TryClaim(r)
      PROVE  Moves(x)
  <2>1. Swept \in [Requests -> LeaseRow]
    BY <1>1, SweptRow
  <2>2. CASE x = r
    BY <1>1, <1>3, <2>1, <2>2 DEF TryClaim, Moves, Claims, Waiters
  <2>3. CASE x # r
    BY <1>1, <1>3, <2>1, <2>3 DEF TryClaim, Moves
  <2> QED
    BY <2>2, <2>3
<1>4. ASSUME NEW r \in Requests, DeleteLease(r)
      PROVE  Moves(x)
  BY <1>1, <1>4 DEF DeleteLease, Delete, Goes, Moves, Ends, Walks, Paces
<1>5. ASSUME NEW r \in Requests, NextCall(r)
      PROVE  Moves(x)
  <2>1. lease[r].state \in {"none", "waiting"}
    BY <1>5, Created DEF NextCall
  <2> QED
    BY <1>1, <1>5, <2>1 DEF NextCall, Delete, Goes, Moves, Recycles, Walks
<1>6. ASSUME NEW r \in Requests, UNCHANGED lease,
             \/ ClaimUnnoticed(r) \/ StartHolding(r) \/ GiveUp(r) \/ Send(r) \/ NotSent(r)
             \/ Answered(r) \/ Abort(r) \/ Abandon(r)
      PROVE  Moves(x)
  BY <1>1, <1>6 DEF ClaimUnnoticed, StartHolding, GiveUp, Send, NotSent, Answered, Abort,
     Abandon, Goes, Moves, Walks, Paces
<1>7. ASSUME NEW r \in Requests, Heartbeat(r) \/ Confirmed(r) \/ RenewalFails(r) \/ Die(r)
      PROVE  Moves(x)
  <2>1. UNCHANGED lease
    BY <1>7 DEF Heartbeat, Confirmed, RenewalFails, Die
  <2>2. CASE UNCHANGED phase
    BY <2>1, <2>2 DEF Moves, Walks
  <2>3. CASE MarkLost(r) \/ Die(r)
    BY <1>1, <2>1, <2>3 DEF MarkLost, Die, Moves, Walks, Paces
  <2> QED
    BY <1>7, <2>2, <2>3 DEF Heartbeat, Confirmed, RenewalFails
<1>8. ASSUME NEW r \in Requests, KeepAlive(r) \/ Renew(r)
      PROVE  Moves(x)
  BY <1>1, <1>8 DEF KeepAlive, Renew, Moves, Renewed, Walks
<1>9. ASSUME NEW r \in Requests, Quarantine(r)
      PROVE  Moves(x)
  BY <1>1, <1>9, Created DEF Quarantine, Goes, Moves, Quarantined, Walks, Paces
<1>10. ASSUME NEW r \in Requests, PassBound(r)
       PROVE  Moves(x)
  <2>1. [lease[r] EXCEPT !.left = 0].state = lease[r].state
    BY <1>1 DEF LeaseRow
  <2> QED
    BY <1>1, <1>10, <2>1 DEF PassBound, Moves, Quarantined, Walks
<1>11. ASSUME NEW p \in Probers, NEW released \in BOOLEAN, AfterProbe(p, released), Probes(p)
       PROVE  Walks(x)
  BY <1>1, <1>11 DEF AfterProbe, Probes, Walks, Paces
<1>12. ASSUME NEW p \in Probers, ClaimProbe(p) \/ ProbeServed(p)
       PROVE  Moves(x)
  BY <1>12 DEF ClaimProbe, ProbeServed, Moves, Walks
<1>13. ASSUME NEW p \in Probers, NothingToProbe(p) \/ ProbeBusy(p)
       PROVE  Moves(x)
  <2>1. Probes(p)
    BY <1>13 DEF NothingToProbe, ProbeBusy, ProbersProbe, Probes
  <2> QED
    BY <1>11, <1>13, <2>1 DEF NothingToProbe, ProbeBusy, Moves
<1>14. ASSUME NEW p \in Probers, ReleaseProbed(p)
       PROVE  Moves(x)
  <2>1. Probes(p)
    BY <1>14 DEF ReleaseProbed, ProbersProbe, Probes
  <2>2. Walks(x)
    BY <1>11, <1>14, <2>1 DEF ReleaseProbed
  <2> QED
    BY <1>1, <1>14, <2>2 DEF ReleaseProbed, Moves, Released
<1>15. ASSUME ReleaseQuarantined
       PROVE  Moves(x)
  BY <1>1, <1>15 DEF ReleaseQuarantined, Moves, Released, Walks
<1>16. ASSUME Tick
       PROVE  Moves(x)
  <2>1. /\ [lease[x] EXCEPT !.left = @ - 1].state = lease[x].state
        /\ [lease[x] EXCEPT !.left = @ - 1].left = lease[x].left - 1
    BY <1>1 DEF LeaseRow
  <2>2. UNCHANGED phase
    BY <1>16 DEF Tick
  <2>3. lease'[x] = IF lease[x].left > 0 /\ lease[x].state \in {"waiting", "holding"}
                    THEN [lease[x] EXCEPT !.left = @ - 1] ELSE lease[x]
    BY <1>16 DEF Tick
  <2> QED
    BY <1>16, <2>1, <2>2, <2>3 DEF Moves, Ages, Walks
<1>17. ASSUME NEW r \in Requests,
              \/ ClaimUnnoticed(r) \/ StartHolding(r) \/ GiveUp(r) \/ Send(r) \/ NotSent(r)
              \/ Answered(r) \/ Abort(r) \/ Abandon(r)
       PROVE  UNCHANGED lease
  BY <1>17 DEF ClaimUnnoticed, StartHolding, GiveUp, Send, NotSent, Answered, Abort, Abandon
<1> QED
  BY <1>2, <1>3, <1>4, <1>5, <1>6, <1>7, <1>8, <1>9, <1>10, <1>12, <1>13, <1>14, <1>15,
     <1>16, <1>17, Steps DEF Quiet, Rows, Asks

-----------------------------------------------------------------------------
(* The order of the waiting rows *)

Order ==
  \A r, q \in Requests :
    /\ q \in ahead[r] => lease[r].state = "waiting" /\ lease[q].state = "waiting"
    /\ lease[r].state = "waiting" /\ lease[q].state = "waiting" /\ r # q
         => (q \in ahead[r] <=> r \notin ahead[q])

LEMMA TypeOrder ==
  ASSUME InferenceTypeInv, InferenceNext
  PROVE  ahead' \in [Requests -> SUBSET Requests] /\ Order'
<1>1. /\ phase \in [Requests -> Phases] /\ lease \in [Requests -> LeaseRow]
      /\ ahead \in [Requests -> SUBSET Requests] /\ Order
  BY DEF InferenceTypeInv, InferenceTypeOK, Phases, Order
<1>2. ASSUME UNCHANGED ahead,
             \A x \in Requests : lease'[x].state = "waiting" <=> lease[x].state = "waiting"
      PROVE  ahead' \in [Requests -> SUBSET Requests] /\ Order'
  BY <1>1, <1>2 DEF Order
<1>3. ASSUME NEW r \in Requests, InsertWaiter(r)
      PROVE  ahead' \in [Requests -> SUBSET Requests] /\ Order'
  <2>1. lease[r].state # "waiting"
    BY <1>3 DEF InsertWaiter, Goes, InferenceTypeInv, WaitersWait, Waiters
  <2>2. \A x \in Requests : lease'[x].state = "waiting" <=> x = r \/ lease[x].state = "waiting"
    BY <1>1, <1>3, Created DEF InsertWaiter
  <2>3. \A x \in Requests : ahead'[x] = IF x = r THEN RowsIn(lease, "waiting") ELSE ahead[x]
    BY <1>1, <1>3 DEF InsertWaiter
  <2>4. ahead' \in [Requests -> SUBSET Requests]
    BY <1>1, <1>3 DEF InsertWaiter, RowsIn
  <2> QED
    BY <1>1, <2>1, <2>2, <2>3, <2>4 DEF Order, RowsIn
<1>4. ASSUME NEW r \in Requests, Delete(r)
      PROVE  ahead' \in [Requests -> SUBSET Requests] /\ Order'
  <2>1. \A x \in Requests : lease'[x].state = "waiting" <=> x # r /\ lease[x].state = "waiting"
    BY <1>1, <1>4, Created DEF Delete
  <2>2. \A x \in Requests : ahead'[x] = IF x = r THEN {} ELSE ahead[x] \ {r}
    BY <1>4 DEF Delete, Without
  <2>3. ahead' \in [Requests -> SUBSET Requests]
    BY <1>1, <1>4 DEF Delete, Without
  <2> QED
    BY <1>1, <2>1, <2>2, <2>3 DEF Order
<1>5. ASSUME NEW r \in Requests, TryClaim(r)
      PROVE  ahead' \in [Requests -> SUBSET Requests] /\ Order'
  <2> DEFINE W == RowsIn(Swept, "waiting")
  <2>1. Swept \in [Requests -> LeaseRow] /\ W \subseteq RowsIn(lease, "waiting")
    BY <1>1, SweptRow DEF RowsIn
  <2>2. \A x \in Requests : x \in W <=> Swept[x].state = "waiting"
    BY DEF RowsIn
  <2>3. /\ SweptAhead \in [Requests -> SUBSET Requests]
        /\ \A x \in Requests : SweptAhead[x] = IF x \in W THEN ahead[x] \cap W ELSE {}
    BY <1>1, <2>2 DEF SweptAhead
  <2>4. Before(r) = IF r \in W THEN SweptAhead[r] ELSE W
    BY <2>2 DEF Before
  <2>5. \A x, y \in W : x # y => (y \in SweptAhead[x] <=> x \notin SweptAhead[y])
    BY <1>1, <2>1, <2>3 DEF Order, RowsIn
  <2>6. W \subseteq Requests
    BY DEF RowsIn
  <2> HIDE DEF W
  <2>7. CASE Grantable(r)
    <3>1. \A x \in Requests : lease'[x].state = "waiting" <=> x # r /\ x \in W
      BY <1>5, <2>1, <2>2, <2>7, Created DEF TryClaim
    <3>2. \A x \in Requests : ahead'[x] = IF x = r THEN {} ELSE SweptAhead[x] \ {r}
      BY <1>5, <2>7 DEF TryClaim, Without
    <3>3. ahead' \in [Requests -> SUBSET Requests]
      BY <1>5, <2>3, <2>7 DEF TryClaim, Without
    <3> QED
      BY <2>3, <2>5, <3>1, <3>2, <3>3 DEF Order
  <2>8. CASE ~Grantable(r)
    <3>1. \A x \in Requests : lease'[x].state = "waiting" <=> x = r \/ x \in W
      BY <1>5, <2>1, <2>2, <2>8, Created DEF TryClaim
    <3>2. \A x \in Requests : ahead'[x] = IF x = r THEN Before(r) ELSE SweptAhead[x]
      BY <1>5, <2>3, <2>8 DEF TryClaim
    <3>3. ahead' \in [Requests -> SUBSET Requests]
      BY <1>5, <2>3, <2>4, <2>6, <2>8 DEF TryClaim
    <3> QED
      BY <2>3, <2>4, <2>5, <3>1, <3>2, <3>3 DEF Order
  <2> QED
    BY <2>7, <2>8
<1>6. ASSUME NEW r \in Requests, Quiet(r)
      PROVE  UNCHANGED <<lease, ahead>>
  BY <1>6 DEF Quiet, ClaimUnnoticed, StartHolding, GiveUp, Send, NotSent, Answered, Abort,
     Abandon, Heartbeat, Confirmed, RenewalFails, Die
<1>7. ASSUME NEW r \in Requests, Rows(r)
      PROVE  /\ UNCHANGED ahead
             /\ \A x \in Requests : lease'[x].state = "waiting" <=> lease[x].state = "waiting"
  <2>1. [lease[r] EXCEPT !.left = 0].state = lease[r].state
    BY <1>1 DEF LeaseRow
  <2>2. phase[r] = "aborted" => lease[r].state # "waiting"
    BY DEF InferenceTypeInv, WaitersWait, Waiters
  <2> QED
    BY <1>1, <1>7, <2>1, <2>2, Created DEF Rows, KeepAlive, Quarantine, Goes, Renew, PassBound
<1>8. ASSUME NEW p \in Probers, Asks(p)
      PROVE  UNCHANGED <<lease, ahead>>
  BY <1>8 DEF Asks, ClaimProbe, NothingToProbe, ProbeServed, ProbeBusy
<1>9. ASSUME (\E p \in Probers : ReleaseProbed(p)) \/ ReleaseQuarantined
      PROVE  /\ UNCHANGED ahead
             /\ \A x \in Requests : lease'[x].state = "waiting" <=> lease[x].state = "waiting"
  BY <1>1, <1>9, Created DEF ReleaseProbed, ReleaseQuarantined
<1>10. ASSUME Tick
       PROVE  /\ UNCHANGED ahead
              /\ \A x \in Requests : lease'[x].state = "waiting" <=> lease[x].state = "waiting"
  <2>1. \A x \in Requests : [lease[x] EXCEPT !.left = @ - 1].state = lease[x].state
    BY <1>1 DEF LeaseRow
  <2> QED
    BY <1>10, <2>1 DEF Tick
<1>11. ASSUME NEW r \in Requests, DeleteLease(r) \/ NextCall(r)
       PROVE  Delete(r) \/ UNCHANGED <<lease, ahead>>
  BY <1>11 DEF DeleteLease, NextCall
<1> QED
  BY <1>2, <1>3, <1>4, <1>5, <1>6, <1>7, <1>8, <1>9, <1>10, <1>11, Steps

\* InferenceTypeInv is inductive.
LEMMA InferenceTypeNext ==
  ASSUME InferenceTypeInv, [InferenceNext]_inferenceOwn
  PROVE  InferenceTypeInv'
<1>1. CASE UNCHANGED inferenceOwn
  BY <1>1 DEF inferenceOwn, InferenceTypeInv, InferenceTypeOK, WaitersWait, ProbersProbe
<1>2. CASE InferenceNext
  <2>1. InferenceTypeOK /\ ProbersProbe
    BY DEF InferenceTypeInv
  <2>2. InferenceTypeOK'
    BY <1>2, <2>1, TypeLease, TypeOther, TypeOrder DEF InferenceTypeOK, Order, Phases
  <2>3. WaitersWait'
    <3> SUFFICES ASSUME NEW x \in Requests, lease'[x].state = "waiting"
                 PROVE  phase'[x] \in Waiters \cup {"leaving", "gone"}
      BY DEF WaitersWait
    <3>1. Moves(x)
      BY <1>2, <2>1, StepMoves
    <3>2. lease[x].state = "waiting" => phase[x] \in Waiters \cup {"leaving", "gone"}
      BY DEF InferenceTypeInv, WaitersWait
    <3>3. lease'[x] = Swept[x] => lease[x].state = "waiting"
      BY <2>1, SweptRow DEF InferenceTypeOK
    <3>4. lease'[x] # NoLease /\ lease'[x] # HeldRow
      BY Created
    <3> QED
      BY <3>1, <3>2, <3>3, <3>4 DEF Moves, Walks, Paces, Joins, Claims, Ends, Recycles, Renewed,
         Quarantined, Released, Ages, Waiters
  <2> QED
    BY <1>2, <2>1, <2>2, <2>3, TypeProbers DEF InferenceTypeInv
<1> QED
  BY <1>1, <1>2

LEMMA InferenceTypeInit == InferenceInit => InferenceTypeInv
<1> SUFFICES ASSUME InferenceInit PROVE InferenceTypeInv
  OBVIOUS
<1>1. Cardinality({}) <= 1
  BY FS_EmptySet
<1>2. /\ \A r \in Requests : lease[r].state = "none" /\ ahead[r] = {} /\ probe[r].on = {}
      /\ \A p \in Probers : probe[p].on = {} /\ ~probe[p].served
  BY Created DEF InferenceInit, Probers
<1>3. InferenceTypeOK
  BY <1>1, <1>2, Created DEF InferenceInit, InferenceTypeOK
<1> QED
  BY <1>2, <1>3 DEF InferenceTypeInv, WaitersWait, ProbersProbe

\* The table, the order of its rows, the closures, the statements and the probes
\* are well formed: of two waiting rows one is ahead, and nobody else is.
THEOREM InferenceTypeCorrect == InferenceSpec => []InferenceTypeOK
<1>1. InferenceTypeInv => InferenceTypeOK
  BY DEF InferenceTypeInv
<1> QED
  BY <1>1, InferenceTypeInit, InferenceTypeNext, PTL DEF InferenceSpec

-----------------------------------------------------------------------------
(* Slots are not shared *)

\* A granted slot is fresh until it is used: Prompt lets one heartbeat pass.
LEMMA FreshNext ==
  ASSUME InferenceTypeInv, FreshInv, DbPrompt, InferenceNext
  PROVE  FreshInv'
<1> SUFFICES ASSUME NEW x \in Requests
             PROVE  /\ phase'[x] \in {"granted", "held"}
                         => lease'[x].state = "holding" /\ lease'[x].left >= HoldLease - 1
                    /\ phase'[x] = "polling" /\ lease'[x].state = "holding"
                         => lease'[x].left >= HoldLease - 2
                    /\ lease'[x].state = "holding"
                         => phase'[x] \notin {"idle", "probing", "lastProbe"}
  BY DEF FreshInv
<1>1. Moves(x)
  BY StepMoves DEF InferenceTypeInv
<1>2. /\ HoldLease \in Nat /\ HoldLease >= 4
      /\ lease[x].left \in Nat /\ lease[x].left <= HoldLease
  BY SchedulerAssumption DEF InferenceTypeInv, InferenceTypeOK, LeaseRow
<1>3. /\ phase[x] \in {"granted", "held"}
            => lease[x].state = "holding" /\ lease[x].left >= HoldLease - 1
      /\ phase[x] = "polling" /\ lease[x].state = "holding" => lease[x].left >= HoldLease - 2
      /\ lease[x].state = "holding" => phase[x] \notin {"idle", "probing", "lastProbe"}
  BY DEF FreshInv
<1>4. CASE lease'[x] = lease[x] /\ Walks(x)
  BY <1>2, <1>3, <1>4 DEF Walks, Paces
<1>5. CASE lease'[x] = Swept[x] /\ phase'[x] = phase[x]
  <2>1. /\ Swept[x].state = "holding" => Swept[x] = lease[x]
        /\ lease[x].state = "holding" /\ lease[x].left > 0 => Swept[x] = lease[x]
    BY SweptRow DEF InferenceTypeInv, InferenceTypeOK
  <2> QED
    BY <1>2, <1>3, <1>5, <2>1
<1>6. CASE Joins(x) \/ Claims(x) \/ Ends(x) \/ Recycles(x) \/ Renewed(x)
  BY <1>2, <1>3, <1>6, Created DEF Joins, Claims, Ends, Recycles, Renewed, Waiters
<1>7. CASE Quarantined(x) \/ Released(x)
  BY <1>3, <1>7, Created DEF Quarantined, Released, Walks, Paces
<1>8. CASE Ages(x)
  <2>1. Prompt(x)
    BY <1>8 DEF Ages, Tick
  <2> QED
    BY <1>2, <1>3, <1>8, <2>1 DEF Ages, Prompt
<1> QED
  BY <1>1, <1>4, <1>5, <1>6, <1>7, <1>8 DEF Moves

\* What a step does to the clock of a holder and to its renewal.
Unclocked(x) == holder'[x] = holder[x] /\ renewal'[x] = renewal[x] /\ ~Tick /\ ~StartHolding(x)

Stops(x) ==
  /\ phase'[x] \notin {"held", "executing", "aborted"} \/ holder'[x].lost
  /\ renewal'[x] \in {renewal[x], NoRenewal} /\ ~Tick

\* The heartbeat is sent, or was already.
Sends(x) ==
  /\ UNCHANGED <<lease, phase>> /\ Beats(x) /\ holder[x].unconfirmed < LossDeadline
  /\ holder'[x].unconfirmed = holder[x].unconfirmed
  /\ \/ renewal'[x] = renewal[x]
     \/ renewal'[x].stage = "sent" /\ renewal'[x].age = 0

Executes(x) ==
  /\ UNCHANGED <<phase, holder>> /\ renewal[x].stage = "sent"
  /\ renewal'[x].age = renewal[x].age
  /\ \/ renewal'[x].stage = "kept" /\ lease'[x] = HeldRow
     \/ renewal'[x].stage = "missed" /\ UNCHANGED lease

Learns(x) ==
  /\ UNCHANGED <<lease, phase>> /\ renewal'[x] = NoRenewal
  /\ \/ holder'[x] = holder[x]
     \/ /\ renewal[x].stage = "kept" /\ holder'[x].unconfirmed = renewal[x].age
        /\ holder'[x].due = holder[x].due /\ holder'[x].lost = holder[x].lost

Begins(x) ==
  /\ phase[x] = "granted" /\ phase'[x] = "held" /\ UNCHANGED <<lease, renewal>>
  /\ holder'[x] = NewHolder

LEMMA StepClocks ==
  ASSUME InferenceTypeOK, InferenceNext, NEW x \in Requests
  PROVE  \/ Unclocked(x) \/ Stops(x) \/ Sends(x) \/ Executes(x) \/ Learns(x) \/ Begins(x)
         \/ Tick
<1> DEFINE Goal == \/ Unclocked(x) \/ Stops(x) \/ Sends(x) \/ Executes(x) \/ Learns(x)
                   \/ Begins(x) \/ Tick
<1>1. /\ phase \in [Requests -> Phases] /\ holder \in [Requests -> Holder]
      /\ renewal \in [Requests -> Renewal]
  BY DEF InferenceTypeOK, Phases
<1>2. ASSUME UNCHANGED <<holder, renewal>>
      PROVE  Goal
  <2>1. CASE StartHolding(x)
    BY <1>1, <2>1 DEF StartHolding, Goes, Begins
  <2>2. CASE ~StartHolding(x)
    BY <1>2, <2>2 DEF Unclocked
  <2> QED
    BY <2>1, <2>2
<1>3. ASSUME NEW r \in Requests,
             \/ InsertWaiter(r) \/ DeleteLease(r) \/ NextCall(r) \/ TryClaim(r) \/ ClaimUnnoticed(r)
             \/ GiveUp(r) \/ Send(r) \/ Abort(r) \/ Abandon(r) \/ KeepAlive(r) \/ PassBound(r)
      PROVE  UNCHANGED <<holder, renewal>>
  BY <1>3 DEF InsertWaiter, DeleteLease, NextCall, TryClaim, ClaimUnnoticed, GiveUp, Send,
     Abort, Abandon, KeepAlive, PassBound
<1>4. ASSUME NEW r \in Requests, StartHolding(r)
      PROVE  Goal
  <2>1. CASE r = x
    BY <1>1, <1>4, <2>1 DEF StartHolding, Goes, Begins
  <2>2. CASE r # x /\ ~Tick /\ ~StartHolding(x)
    BY <1>1, <1>4, <2>2 DEF StartHolding, Unclocked
  <2>3. r # x => ~StartHolding(x)
    BY <1>1, <1>4 DEF StartHolding, Goes
  <2> QED
    BY <2>1, <2>2, <2>3
<1>5. ASSUME NEW r \in Requests, NotSent(r) \/ Answered(r) \/ Quarantine(r) \/ Die(r)
      PROVE  Goal
  <2>1. phase'[r] \notin {"held", "executing", "aborted"} /\ UNCHANGED renewal
    BY <1>1, <1>5 DEF NotSent, Answered, Quarantine, Die, Goes
  <2>2. r # x => holder'[x] = holder[x] /\ phase'[x] = phase[x]
    BY <1>1, <1>5 DEF NotSent, Answered, Quarantine, Die, Goes, StopTimer
  <2>3. r # x => ~StartHolding(x)
    BY <1>1, <2>2 DEF StartHolding, Goes
  <2> QED
    BY <2>1, <2>2, <2>3 DEF Stops, Unclocked
<1>6. ASSUME NEW r \in Requests, Heartbeat(r)
      PROVE  Goal
  <2>1. CASE r # x
    <3>1. holder'[x] = holder[x] /\ renewal'[x] = renewal[x]
      BY <1>1, <1>6, <2>1 DEF Heartbeat, MarkLost
    <3>2. ~StartHolding(x)
      BY <1>1, <1>6, <2>1, <3>1 DEF Heartbeat, MarkLost, StartHolding, Goes
    <3> QED
      BY <3>1, <3>2 DEF Unclocked
  <2>2. CASE r = x /\ holder[r].unconfirmed >= LossDeadline
    <3>1. holder'[x].lost /\ renewal'[x] = renewal[x]
      BY <1>1, <1>6, <2>2, Created DEF Heartbeat, MarkLost
    <3> QED
      BY <3>1 DEF Stops
  <2>3. CASE r = x /\ ~(holder[r].unconfirmed >= LossDeadline)
    <3>1. holder[x].unconfirmed < LossDeadline
      BY <1>1, <2>3, Deadline DEF Holder
    <3>2. [holder[x] EXCEPT !.due = FALSE].unconfirmed = holder[x].unconfirmed
      BY <1>1 DEF Holder
    <3>3. holder'[x].unconfirmed = holder[x].unconfirmed
      BY <1>1, <1>6, <2>3, <3>2 DEF Heartbeat
    <3>4. \/ renewal'[x] = renewal[x]
          \/ renewal'[x] = [stage |-> "sent", age |-> 0]
      BY <1>1, <1>6, <2>3 DEF Heartbeat
    <3>5. UNCHANGED <<lease, phase>> /\ Beats(x)
      BY <1>6, <2>3 DEF Heartbeat
    <3> QED
      BY <3>1, <3>3, <3>4, <3>5 DEF Sends
  <2> QED
    BY <2>1, <2>2, <2>3
<1>7. ASSUME NEW r \in Requests, Renew(r)
      PROVE  Goal
  <2>1. CASE r # x
    BY <1>1, <1>7, <2>1 DEF Renew, Unclocked, StartHolding, Goes
  <2>2. CASE r = x
    <3>1. /\ [renewal[x] EXCEPT !.stage = "kept"].stage = "kept"
          /\ [renewal[x] EXCEPT !.stage = "kept"].age = renewal[x].age
          /\ [renewal[x] EXCEPT !.stage = "missed"].stage = "missed"
          /\ [renewal[x] EXCEPT !.stage = "missed"].age = renewal[x].age
      BY <1>1 DEF Renewal
    <3>3. \/ renewal'[x] = [renewal[x] EXCEPT !.stage = "kept"] /\ lease'[x] = HeldRow
          \/ renewal'[x] = [renewal[x] EXCEPT !.stage = "missed"] /\ UNCHANGED lease
      BY <1>1, <1>7, <2>2 DEF Renew, InferenceTypeOK
    <3>4. UNCHANGED <<phase, holder>> /\ renewal[x].stage = "sent"
      BY <1>7, <2>2 DEF Renew
    <3> QED
      BY <3>1, <3>3, <3>4 DEF Executes
  <2> QED
    BY <2>1, <2>2
<1>8. ASSUME NEW r \in Requests, Confirmed(r) \/ RenewalFails(r)
      PROVE  Goal
  <2>1. CASE r # x
    <3>1. holder'[x] = holder[x] /\ renewal'[x] = renewal[x] /\ phase'[x] = phase[x]
      BY <1>1, <1>8, <2>1 DEF Confirmed, RenewalFails, MarkLost
    <3> QED
      BY <1>1, <3>1 DEF Unclocked, StartHolding, Goes
  <2>2. CASE r = x /\ MarkLost(x)
    <3>1. holder'[x].lost /\ renewal'[x] = NoRenewal
      BY <1>1, <1>8, <2>2, Created DEF Confirmed, RenewalFails, MarkLost
    <3> QED
      BY <3>1 DEF Stops
  <2>3. CASE r = x /\ ~MarkLost(x)
    <3>1. /\ [holder[x] EXCEPT !.unconfirmed = renewal[x].age].unconfirmed = renewal[x].age
          /\ [holder[x] EXCEPT !.unconfirmed = renewal[x].age].due = holder[x].due
          /\ [holder[x] EXCEPT !.unconfirmed = renewal[x].age].lost = holder[x].lost
      BY <1>1 DEF Holder
    <3>2. UNCHANGED <<lease, phase>> /\ renewal'[x] = NoRenewal
      BY <1>1, <1>8, <2>3 DEF Confirmed, RenewalFails
    <3>3. \/ holder'[x] = holder[x]
          \/ /\ renewal[x].stage = "kept"
             /\ holder'[x] = [holder[x] EXCEPT !.unconfirmed = renewal[x].age]
      BY <1>1, <1>8, <2>3 DEF Confirmed, RenewalFails
    <3> QED
      BY <3>1, <3>2, <3>3 DEF Learns
  <2> QED
    BY <2>1, <2>2, <2>3
<1>9. ASSUME NEW p \in Probers, Asks(p) \/ ReleaseProbed(p)
      PROVE  UNCHANGED <<holder, renewal>>
  BY <1>9 DEF Asks, ClaimProbe, NothingToProbe, ProbeServed, ProbeBusy, ReleaseProbed
<1>10. ReleaseQuarantined => UNCHANGED <<holder, renewal>>
  BY DEF ReleaseQuarantined
<1> QED
  BY <1>2, <1>3, <1>4, <1>5, <1>6, <1>7, <1>8, <1>9, <1>10, Steps DEF Quiet, Rows

\* The conjuncts of ClockInv for one request.
Answering(x) == renewal[x].stage # "none" => phase[x] \in InferencePast \cup {"held"}

Confirming(x) ==
  Beats(x) =>
    /\ lease[x].state = "holding"
    /\ lease[x].left + holder[x].unconfirmed >= HoldLease - 1
    /\ holder[x].unconfirmed = LossDeadline => holder[x].due
    /\ renewal[x].stage # "none" => renewal[x].age <= holder[x].unconfirmed
    /\ renewal[x].stage = "kept" => lease[x].left + renewal[x].age >= HoldLease

LEMMA ClockNext ==
  ASSUME InferenceTypeInv, FreshInv, ClockInv, DbPrompt, InferenceNext
  PROVE  ClockInv'
<1> SUFFICES ASSUME NEW x \in Requests
             PROVE  Answering(x)' /\ Confirming(x)'
  BY DEF ClockInv, Answering, Confirming
<1>1. Moves(x)
  BY StepMoves DEF InferenceTypeInv
<1>2. /\ \/ Unclocked(x) \/ Stops(x) \/ Sends(x) \/ Executes(x) \/ Learns(x) \/ Begins(x)
         \/ Tick
      /\ InferenceTypeInv'
  BY StepClocks, InferenceTypeNext DEF InferenceTypeInv
<1>3. Answering(x) /\ Confirming(x)
  BY DEF ClockInv, Answering, Confirming
<1>4. /\ HoldLease \in Nat /\ HoldLease >= 4 /\ LossDeadline = HoldLease - 2
      /\ lease[x].left \in Nat /\ holder[x].unconfirmed \in 0 .. LossDeadline
      /\ renewal[x].age \in 0 .. LossDeadline
  BY SchedulerAssumption, Deadline DEF InferenceTypeInv, InferenceTypeOK, LeaseRow, Holder, Renewal
<1>5. /\ lease'[x].left \in Nat /\ holder'[x].unconfirmed \in 0 .. LossDeadline
      /\ renewal'[x].age \in 0 .. LossDeadline
  BY <1>2, SchedulerAssumption DEF InferenceTypeInv, InferenceTypeOK, LeaseRow, Holder, Renewal
<1>6. ASSUME renewal'[x] \in {renewal[x], NoRenewal}, ~Tick
      PROVE  Answering(x)'
  BY <1>1, <1>3, <1>6, Created DEF Answering, Moves, Walks, Paces, Joins, Claims, Ends, Recycles,
     Renewed, Quarantined, Released, Ages, Waiters, InferencePast
<1>7. CASE Unclocked(x)
  <2>1. Answering(x)'
    BY <1>6, <1>7 DEF Unclocked
  <2>2. ASSUME Beats(x)'
        PROVE  Beats(x) /\ (lease'[x] = lease[x] \/ lease'[x] = HeldRow)
    <3>1. holder'[x] = holder[x] /\ ~StartHolding(x) /\ ~Tick
      BY <1>7 DEF Unclocked
    <3>2. phase'[x] \in {"held", "executing", "aborted"} /\ ~holder[x].lost
      BY <2>2, <3>1 DEF Beats
    <3>3. Beats(x)
      BY <1>1, <3>1, <3>2 DEF Beats, Moves, Walks, Paces, Joins, Claims, Ends, Recycles, Renewed,
         Quarantined, Released, Ages, Waiters
    <3>4. lease[x].state = "holding" /\ lease[x].left > 0
      BY <1>3, <1>4, <3>3 DEF Confirming
    <3>5. Swept[x] = lease[x]
      BY <3>4, SweptRow DEF InferenceTypeInv, InferenceTypeOK
    <3> QED
      BY <1>1, <3>1, <3>2, <3>3, <3>4, <3>5 DEF Moves, Joins, Claims, Ends, Recycles, Renewed,
         Quarantined, Released, Ages, Waiters
  <2>3. Confirming(x)'
    <3>1. HeldRow.state = "holding" /\ HeldRow.left = HoldLease
      BY Created
    <3> QED
      BY <1>3, <1>4, <1>7, <2>2, <3>1 DEF Unclocked, Confirming
  <2> QED
    BY <2>1, <2>3
<1>8. CASE Stops(x)
  BY <1>6, <1>8 DEF Stops, Confirming, Beats
<1>9. CASE Sends(x)
  BY <1>3, <1>4, <1>9 DEF Sends, Answering, Confirming, Beats, InferencePast
<1>10. CASE Executes(x)
  BY <1>3, <1>4, <1>10, Created DEF Executes, Answering, Confirming, Beats
<1>11. CASE Learns(x)
  <2>1. Beats(x)' => Beats(x)
    BY <1>11 DEF Learns, Beats
  <2>2. renewal'[x].stage = "none"
    BY <1>11, Created DEF Learns
  <2> QED
    BY <1>3, <1>4, <1>11, <2>1, <2>2 DEF Learns, Answering, Confirming
<1>12. CASE Begins(x)
  BY <1>3, <1>4, <1>12, Created DEF Begins, Answering, Confirming, FreshInv, InferencePast
<1>13. CASE Tick
  <2>1. /\ UNCHANGED phase /\ ~(Beats(x) /\ holder[x].due)
        /\ lease'[x] = IF lease[x].left > 0 /\ lease[x].state \in {"waiting", "holding"}
                       THEN [lease[x] EXCEPT !.left = @ - 1] ELSE lease[x]
        /\ holder'[x] = IF Beats(x)
                        THEN [holder[x] EXCEPT !.unconfirmed = Older(@), !.due = TRUE]
                        ELSE holder[x]
        /\ renewal'[x] = IF renewal[x].stage # "none"
                         THEN [renewal[x] EXCEPT !.age = Older(@)] ELSE renewal[x]
    BY <1>13 DEF Tick
  <2>2. /\ lease[x] \in LeaseRow /\ holder[x] \in Holder /\ renewal[x] \in Renewal
    BY DEF InferenceTypeInv, InferenceTypeOK
  <2>3. /\ [lease[x] EXCEPT !.left = @ - 1].state = lease[x].state
        /\ [lease[x] EXCEPT !.left = @ - 1].left = lease[x].left - 1
    BY <2>2 DEF LeaseRow
  <2>4. /\ [holder[x] EXCEPT !.unconfirmed = Older(@), !.due = TRUE].unconfirmed
             = Older(holder[x].unconfirmed)
        /\ [holder[x] EXCEPT !.unconfirmed = Older(@), !.due = TRUE].due
        /\ [holder[x] EXCEPT !.unconfirmed = Older(@), !.due = TRUE].lost = holder[x].lost
    BY <2>2 DEF Holder
  <2>5. /\ [renewal[x] EXCEPT !.age = Older(@)].stage = renewal[x].stage
        /\ [renewal[x] EXCEPT !.age = Older(@)].age = Older(renewal[x].age)
    BY <2>2 DEF Renewal
  <2>6. Answering(x)'
    BY <1>3, <2>1, <2>5 DEF Answering
  <2>7. CASE Beats(x)
    <3>1. /\ lease[x].state = "holding" /\ holder[x].unconfirmed < LossDeadline
          /\ lease[x].left > 0
      BY <1>3, <1>4, <2>1, <2>7 DEF Confirming
    <3>2. /\ lease'[x].state = "holding" /\ lease'[x].left = lease[x].left - 1
          /\ holder'[x].unconfirmed = holder[x].unconfirmed + 1 /\ holder'[x].due
      BY <2>1, <2>3, <2>4, <2>7, <3>1 DEF Older
    <3>3. /\ renewal'[x].stage = renewal[x].stage
          /\ renewal[x].stage # "none" => renewal'[x].age = renewal[x].age + 1
      <4>1. renewal[x].stage # "none" => renewal[x].age < LossDeadline
        BY <1>3, <1>4, <2>7, <3>1 DEF Confirming
      <4> QED
        BY <2>1, <2>5, <4>1 DEF Older
    <3> QED
      BY <1>3, <1>4, <2>6, <2>7, <3>1, <3>2, <3>3 DEF Confirming
  <2>8. CASE ~Beats(x)
    BY <2>1, <2>6, <2>8 DEF Confirming, Beats
  <2> QED
    BY <2>7, <2>8
<1> QED
  BY <1>2, <1>7, <1>8, <1>9, <1>10, <1>11, <1>12, <1>13

\* What is counted is finite.
LEMMA Counted ==
  ASSUME InferenceTypeInv, NEW S \in SUBSET Requests
  PROVE  /\ IsFiniteSet(S) /\ Cardinality(S) \in Nat
         /\ \A T \in SUBSET S : Cardinality(T) <= Cardinality(S) /\ Cardinality(T) \in Nat
<1>1. ASSUME NEW T \in SUBSET Requests
      PROVE  IsFiniteSet(T) /\ Cardinality(T) \in Nat
  BY FS_Subset, FS_CardinalityType, SchedulerAssumption
<1>2. ASSUME NEW T \in SUBSET S
      PROVE  Cardinality(T) <= Cardinality(S)
  BY <1>1, FS_Subset
<1> QED
  BY <1>1, <1>2

\* A claim is granted while fewer rows hold a slot than there are.
LEMMA GrantLeavesRoom ==
  ASSUME InferenceTypeInv, NEW r \in Requests, Grantable(r)
  PROVE  Cardinality(RowsIn(Swept, "holding") \cup RowsIn(Swept, "quarantined")) < Capacity
<1>1. /\ Before(r) \subseteq Requests
      /\ RowsIn(Swept, "holding") \cup RowsIn(Swept, "quarantined") \subseteq Requests
  BY DEF Before, SweptAhead, RowsIn
<1>2. /\ Cardinality(Before(r)) \in Nat
      /\ Cardinality(RowsIn(Swept, "holding") \cup RowsIn(Swept, "quarantined")) \in Nat
  BY <1>1, Counted
<1> QED
  BY <1>2, SchedulerAssumption DEF Grantable, Holding

\* Only a claim that is granted adds to the rows that hold a slot.
LEMMA RowsNext ==
  ASSUME InferenceTypeInv, RowsInv, InferenceNext
  PROVE  RowsInv'
<1> DEFINE H == RowsIn(lease, "holding")
           K == RowsIn(lease', "holding")
<1>1. /\ H \in SUBSET Requests /\ K \in SUBSET Requests /\ Capacity \in Nat
  BY SchedulerAssumption DEF RowsIn
<1>2. \A x \in Requests : Moves(x)
  BY StepMoves DEF InferenceTypeInv
<1>3. CASE \E r \in Requests : TryClaim(r) /\ Grantable(r)
  <2>1. PICK r \in Requests : TryClaim(r) /\ Grantable(r)
    BY <1>3
  <2> DEFINE A == RowsIn(Swept, "holding") \cup RowsIn(Swept, "quarantined")
  <2>2. Swept \in [Requests -> LeaseRow]
    BY <2>1, SweptRow DEF InferenceTypeInv, InferenceTypeOK
  <2>3. K \subseteq A \cup {r}
    BY <2>1, <2>2 DEF TryClaim, RowsIn
  <2>4. A \subseteq Requests
    BY DEF RowsIn
  <2>5. Cardinality(A) < Capacity
    BY <2>1, GrantLeavesRoom
  <2> HIDE DEF A, K
  <2>6. IsFiniteSet(A) /\ Cardinality(A) \in Nat
    BY <2>4, Counted
  <2>7. Cardinality(A \cup {r}) <= Capacity
    BY <1>1, <2>5, <2>6, FS_AddElement
  <2>8. Cardinality(K) <= Cardinality(A \cup {r}) /\ Cardinality(A \cup {r}) \in Nat
        /\ Cardinality(K) \in Nat
    BY <2>1, <2>3, <2>4, Counted
  <2>9. Cardinality(K) <= Capacity
    BY <1>1, <2>7, <2>8
  <2> QED
    BY <2>9 DEF RowsInv, K
<1>4. CASE ~\E r \in Requests : TryClaim(r) /\ Grantable(r)
  <2>1. ASSUME NEW x \in Requests, lease'[x].state = "holding"
        PROVE  lease[x].state = "holding"
    <3>1. Swept[x].state = "holding" => lease[x].state = "holding"
      BY SweptRow DEF InferenceTypeInv, InferenceTypeOK
    <3> QED
      BY <1>2, <1>4, <2>1, <3>1, Created DEF Moves, Joins, Claims, Ends, Recycles, Renewed,
         Quarantined, Released, Ages
  <2>2. K \subseteq H
    BY <2>1 DEF RowsIn
  <2> HIDE DEF H, K
  <2>3. Cardinality(K) <= Cardinality(H) /\ Cardinality(K) \in Nat /\ Cardinality(H) \in Nat
    BY <1>1, <2>2, Counted
  <2>4. Cardinality(H) <= Capacity
    BY DEF RowsInv, H
  <2>5. Cardinality(K) <= Capacity
    BY <1>1, <2>3, <2>4
  <2> QED
    BY <2>5 DEF RowsInv, K
<1> QED
  BY <1>3, <1>4

\* SlotInv is inductive.
LEMMA SlotInit == InferenceInit => SlotInv
<1> SUFFICES ASSUME InferenceInit PROVE SlotInv
  OBVIOUS
<1>1. InferenceTypeInv
  BY InferenceTypeInit
<1>2. \A r \in Requests : phase[r] = "idle" /\ lease[r].state = "none" /\ renewal[r].stage = "none"
  BY Created DEF InferenceInit
<1>3. RowsIn(lease, "holding") = {}
  BY <1>2 DEF RowsIn
<1>4. RowsInv
  BY <1>3, FS_EmptySet, SchedulerAssumption DEF RowsInv
<1> QED
  BY <1>1, <1>2, <1>4 DEF SlotInv, FreshInv, ClockInv, Beats

LEMMA SlotNext ==
  ASSUME SlotInv, DbPrompt, [InferenceNext]_inferenceOwn
  PROVE  SlotInv'
<1>1. CASE UNCHANGED inferenceOwn
  <2>1. InferenceTypeInv'
    BY <1>1, InferenceTypeNext DEF SlotInv
  <2> QED
    BY <1>1, <2>1 DEF inferenceOwn, SlotInv, FreshInv, ClockInv, RowsInv, RowsIn, Beats
<1>2. CASE InferenceNext
  BY <1>2, InferenceTypeNext, FreshNext, ClockNext, RowsNext DEF SlotInv
<1> QED
  BY <1>1, <1>2

\* Where a claim is answered within a heartbeat, never more requests than there
\* are slots believe they own one: a holder that cannot renew its row gives it
\* up before the row expires, whatever the heartbeats run into.
THEOREM SlotsOwned == ASSUME DbPrompt PROVE InferenceSpec => []SlotsNotShared
<1>1. ASSUME SlotInv PROVE SlotsNotShared
  <2> DEFINE O == {r \in Requests : phase[r] \in {"held", "executing"} /\ ~holder[r].lost}
             H == RowsIn(lease, "holding")
  <2>1. O \subseteq H
    BY <1>1 DEF SlotInv, ClockInv, Beats, RowsIn
  <2>2. H \in SUBSET Requests /\ InferenceTypeInv /\ Capacity \in Nat
    BY <1>1, SchedulerAssumption DEF SlotInv, RowsIn
  <2>3. Cardinality(H) <= Capacity
    BY <1>1 DEF SlotInv, RowsInv
  <2> HIDE DEF O, H
  <2>4. Cardinality(O) <= Capacity
    <3>1. Cardinality(O) <= Cardinality(H) /\ Cardinality(O) \in Nat /\ Cardinality(H) \in Nat
      BY <2>1, <2>2, Counted
    <3> QED
      BY <2>2, <2>3, <3>1
  <2> QED
    BY <2>4 DEF SlotsNotShared, O
<1> QED
  BY <1>1, SlotInit, SlotNext, PTL DEF InferenceSpec

-----------------------------------------------------------------------------
(* A local provider is not overloaded *)

\* What a step does to the requests that the provider executes.
LEMMA StepSends ==
  ASSUME InferenceTypeOK, InferenceNext, NEW x \in Requests, x \in provider'
  PROVE  /\ x \notin provider => Send(x) /\ phase[x] = "held" /\ phase'[x] = "executing"
         /\ ~(phase[x] = "executing" /\ phase'[x] = "leaving")
<1> DEFINE Goal ==
      /\ x \notin provider => Send(x) /\ phase[x] = "held" /\ phase'[x] = "executing"
      /\ ~(phase[x] = "executing" /\ phase'[x] = "leaving")
<1>1. phase \in [Requests -> Phases] /\ provider \subseteq Requests
  BY DEF InferenceTypeOK, Phases
<1>2. ASSUME NEW r \in Requests, InsertWaiter(r) \/ DeleteLease(r) \/ NextCall(r) \/ TryClaim(r)
      PROVE  Goal
  BY <1>1, <1>2 DEF InsertWaiter, DeleteLease, NextCall, TryClaim, Goes
<1>3. ASSUME NEW r \in Requests,
             \/ ClaimUnnoticed(r) \/ StartHolding(r) \/ GiveUp(r) \/ NotSent(r) \/ Abort(r)
             \/ Quarantine(r)
      PROVE  Goal
  BY <1>1, <1>3 DEF ClaimUnnoticed, StartHolding, GiveUp, NotSent, Abort, Quarantine, Goes
<1>4. ASSUME NEW r \in Requests, Send(r) \/ Answered(r)
      PROVE  Goal
  <2>1. CASE Send(r)
    BY <1>1, <2>1 DEF Send, Goes
  <2>2. CASE Answered(r)
    BY <1>1, <2>2 DEF Answered, Goes
  <2> QED
    BY <1>4, <2>1, <2>2
<1>5. ASSUME NEW r \in Requests,
             \/ Abandon(r) \/ RenewalFails(r) \/ KeepAlive(r) \/ Renew(r) \/ PassBound(r)
      PROVE  Goal
  BY <1>5 DEF Abandon, RenewalFails, KeepAlive, Renew, PassBound
<1>6. ASSUME NEW r \in Requests, Heartbeat(r) \/ Confirmed(r) \/ Die(r)
      PROVE  Goal
  <2>1. UNCHANGED provider
    BY <1>6 DEF Heartbeat, Confirmed, Die
  <2>2. phase[x] = "executing" => phase'[x] \in {"executing", "aborted", "gone"}
    BY <1>1, <1>6 DEF Heartbeat, Confirmed, Die, MarkLost
  <2> QED
    BY <2>1, <2>2
<1>7. ASSUME NEW p \in Probers, Asks(p) \/ ReleaseProbed(p)
      PROVE  Goal
  <2>1. UNCHANGED provider
    BY <1>7 DEF Asks, ClaimProbe, NothingToProbe, ProbeServed, ProbeBusy, ReleaseProbed
  <2>2. phase[x] = "executing" => phase'[x] # "leaving"
    BY <1>1, <1>7 DEF Asks, ClaimProbe, NothingToProbe, ProbeServed, ProbeBusy, ReleaseProbed,
       AfterProbe
  <2> QED
    BY <2>1, <2>2
<1>8. Tick \/ ReleaseQuarantined => Goal
  BY DEF Tick, ReleaseQuarantined
<1> QED
  BY <1>2, <1>3, <1>4, <1>5, <1>6, <1>7, <1>8, Steps DEF Quiet, Rows

\* What a step does to a probe: it claims a quarantined row, or is served while
\* the provider has a slot to spare.
LEMMA StepProbes ==
  ASSUME InferenceTypeOK, InferenceNext, NEW p \in Probers, NEW x \in Requests
  PROVE  /\ x \in probe'[p].on =>
              \/ x \in probe[p].on
              \/ lease[x].state = "quarantined" /\ UNCHANGED phase /\ ~probe'[p].served
         /\ probe'[p].served => /\ x \in probe'[p].on => x \in probe[p].on
                                /\ probe[p].served \/ Cardinality(provider) < Capacity
<1> DEFINE Goal ==
      /\ x \in probe'[p].on =>
           \/ x \in probe[p].on
           \/ lease[x].state = "quarantined" /\ UNCHANGED phase /\ ~probe'[p].served
      /\ probe'[p].served =>
           /\ x \in probe'[p].on => x \in probe[p].on
           /\ probe[p].served \/ Cardinality(provider) < Capacity
<1>1. probe \in [Probers -> Probe] /\ probe[p] \in Probe /\ NoProbe.on = {} /\ ~NoProbe.served
  BY Created DEF InferenceTypeOK
<1>2. probe'[p] = probe[p] \/ probe'[p] = NoProbe => Goal
  BY <1>1
<1>3. ASSUME NEW r \in Requests, Quiet(r) \/ Rows(r)
      PROVE  probe'[p] = probe[p] \/ probe'[p] = NoProbe
  BY <1>1, <1>3 DEF Quiet, ClaimUnnoticed, StartHolding, GiveUp, Send, NotSent, Answered, Abort,
     Abandon, Heartbeat, Confirmed, RenewalFails, Die, Rows, KeepAlive, Quarantine, Renew,
     PassBound
<1>4. ASSUME NEW r \in Requests, InsertWaiter(r) \/ DeleteLease(r) \/ NextCall(r) \/ TryClaim(r)
      PROVE  UNCHANGED probe
  BY <1>4 DEF InsertWaiter, DeleteLease, NextCall, TryClaim
<1>5. ASSUME NEW q \in Probers, NothingToProbe(q) \/ ProbeBusy(q) \/ ReleaseProbed(q)
      PROVE  probe'[p] = probe[p] \/ probe'[p] = NoProbe
  BY <1>1, <1>5 DEF NothingToProbe, ProbeBusy, ReleaseProbed, AfterProbe
<1>6. ASSUME NEW q \in Probers, ClaimProbe(q)
      PROVE  Goal
  <2>1. CASE p # q
    BY <1>1, <1>2, <1>6, <2>1 DEF ClaimProbe
  <2>2. CASE p = q
    BY <1>1, <1>6, <2>2 DEF ClaimProbe, RowsIn
  <2> QED
    BY <2>1, <2>2
<1>7. ASSUME NEW q \in Probers, ProbeServed(q)
      PROVE  Goal
  <2>1. CASE p # q
    BY <1>1, <1>2, <1>7, <2>1 DEF ProbeServed
  <2>2. CASE p = q
    <3>1. [probe[p] EXCEPT !.served = TRUE].on = probe[p].on
      BY <1>1 DEF Probe
    <3>2. probe'[p].on = probe[p].on /\ Cardinality(provider) < Capacity
      BY <1>1, <1>7, <2>2, <3>1 DEF ProbeServed
    <3> QED
      BY <3>2
  <2> QED
    BY <2>1, <2>2
<1>8. Tick \/ ReleaseQuarantined => UNCHANGED probe
  BY DEF Tick, ReleaseQuarantined
<1>9. \/ \E q \in Probers : ClaimProbe(q) \/ ProbeServed(q)
      \/ probe'[p] = probe[p] \/ probe'[p] = NoProbe
  BY <1>3, <1>4, <1>5, <1>8, Steps DEF Asks
<1>10. Goal
  <2> HIDE DEF Goal
  <2> QED
    BY <1>2, <1>6, <1>7, <1>9
<1> QED
  BY <1>10

\* The provider's policy stays.
LEMMA StepPolicy == InferenceNext => UNCHANGED isLocal
<1>1. ASSUME NEW r \in Requests, Quiet(r) \/ Rows(r)
      PROVE  UNCHANGED isLocal
  BY <1>1 DEF Quiet, ClaimUnnoticed, StartHolding, GiveUp, Send, NotSent, Answered, Abort,
     Abandon, Heartbeat, Confirmed, RenewalFails, Die, Rows, KeepAlive, Quarantine, Renew,
     PassBound
<1>2. ASSUME NEW r \in Requests, InsertWaiter(r) \/ DeleteLease(r) \/ NextCall(r) \/ TryClaim(r)
      PROVE  UNCHANGED isLocal
  BY <1>2 DEF InsertWaiter, DeleteLease, NextCall, TryClaim
<1>3. ASSUME NEW p \in Probers, Asks(p) \/ ReleaseProbed(p)
      PROVE  UNCHANGED isLocal
  BY <1>3 DEF Asks, ClaimProbe, NothingToProbe, ProbeServed, ProbeBusy, ReleaseProbed
<1>4. Tick \/ ReleaseQuarantined => UNCHANGED isLocal
  BY DEF Tick, ReleaseQuarantined
<1> QED
  BY <1>1, <1>2, <1>3, <1>4, Steps

\* A row that expired, or that is probed, is one that nobody will use.
LEMMA QuarantineNext ==
  ASSUME SlotInv, QuarantineInv, InferenceNext
  PROVE  QuarantineInv'
<1> SUFFICES ASSUME NEW x \in Requests
             PROVE  /\ lease'[x].state = "quarantined" => phase'[x] \in InferencePast
                    /\ \A p \in Probers : x \in probe'[p].on => phase'[x] \in InferencePast
  BY DEF QuarantineInv
<1>1. InferenceTypeOK /\ Moves(x)
  BY StepMoves DEF SlotInv, InferenceTypeInv
<1>2. /\ lease[x].state = "quarantined" => phase[x] \in InferencePast
      /\ \A p \in Probers : x \in probe[p].on => phase[x] \in InferencePast
  BY DEF QuarantineInv
<1>3. /\ lease[x] \in LeaseRow /\ lease[x].left \in Nat /\ phase[x] \in Phases
      /\ HoldLease \in Nat /\ HoldLease >= 4
  BY <1>1, SchedulerAssumption DEF InferenceTypeOK, LeaseRow, Phases
<1>4. lease[x].state = "holding" /\ lease[x].left = 0 => phase[x] \in InferencePast
  BY <1>3 DEF SlotInv, FreshInv, Phases, InferencePast
<1>5. Swept[x].state = "quarantined" => phase[x] \in InferencePast
  BY <1>1, <1>2, <1>4, SweptRow DEF InferenceTypeOK
<1>6. ASSUME phase[x] \in InferencePast, ~Recycles(x)
      PROVE  phase'[x] \in InferencePast
  BY <1>1, <1>6 DEF Moves, Walks, Paces, Joins, Claims, Ends, Renewed, Quarantined, Released,
     Ages, InferencePast
<1>7. ASSUME lease'[x].state = "quarantined"
      PROVE  phase'[x] \in InferencePast
  <2>1. ~Joins(x) /\ ~Claims(x) /\ ~Ends(x) /\ ~Recycles(x) /\ ~Renewed(x) /\ ~Released(x)
    BY <1>7, Created DEF Joins, Claims, Ends, Recycles, Renewed, Released
  <2>2. CASE lease'[x] = lease[x] \/ Ages(x)
    BY <1>2, <1>6, <1>7, <2>1, <2>2 DEF Ages
  <2>3. CASE lease'[x] = Swept[x] /\ phase'[x] = phase[x]
    BY <1>5, <1>7, <2>3
  <2>4. CASE Quarantined(x)
    BY <1>2, <2>4 DEF Quarantined, InferencePast
  <2> QED
    BY <1>1, <2>1, <2>2, <2>3, <2>4 DEF Moves
<1>8. ASSUME NEW p \in Probers, x \in probe'[p].on
      PROVE  phase'[x] \in InferencePast
  <2>1. \/ x \in probe[p].on
        \/ lease[x].state = "quarantined" /\ UNCHANGED phase
    BY <1>1, <1>8, StepProbes
  <2> QED
    BY <1>2, <1>6, <2>1 DEF Recycles
<1> QED
  BY <1>7, <1>8

\* With one slot, a claim is granted when no request has it, and none is at the
\* provider.
LEMMA GrantedAlone ==
  ASSUME SlotInv, ActiveInv, isLocal, Capacity = 1,
         NEW r \in Requests, TryClaim(r), Grantable(r), NEW y \in Requests
  PROVE  ~Active(y)
<1>1. InferenceTypeInv /\ lease \in [Requests -> LeaseRow] /\ HoldLease \in Nat /\ HoldLease >= 4
  BY SchedulerAssumption DEF SlotInv, InferenceTypeInv, InferenceTypeOK
<1> DEFINE A == RowsIn(Swept, "holding") \cup RowsIn(Swept, "quarantined")
<1>2. A = {}
  <2>1. A \subseteq Requests
    BY DEF RowsIn
  <2>2. Cardinality(A) < 1
    BY <1>1, GrantLeavesRoom
  <2> HIDE DEF A
  <2>3. Cardinality(A) = 0 /\ IsFiniteSet(A)
    BY <1>1, <2>1, <2>2, Counted
  <2> QED
    BY <2>3, FS_EmptySet
<1>3. Swept[y].state \notin {"holding", "quarantined"}
  BY <1>2 DEF RowsIn
<1>4. lease[y].state \notin {"holding", "quarantined"}
  BY <1>1, <1>3, SweptRow
<1> QED
  BY <1>4 DEF Active, ActiveInv, SlotInv, FreshInv

\* ActiveInv is inductive beside SlotInv and QuarantineInv.
LEMMA ActiveNext ==
  ASSUME SlotInv, QuarantineInv, ActiveInv, InferenceNext
  PROVE  ActiveInv'
<1> SUFFICES ASSUME isLocal', Capacity = 1
             PROVE  /\ \A r \in provider' :
                         /\ phase'[r] \in {"executing", "aborted", "parting", "gone"}
                         /\ lease'[r].state \in {"holding", "quarantined"}
                         /\ \A p \in Probers : probe'[p].served => r \notin probe'[p].on
                    /\ \A r, q \in Requests : Active(r)' /\ Active(q)' => r = q
  BY DEF ActiveInv
<1>1. isLocal /\ InferenceTypeOK /\ provider \subseteq Requests /\ provider' \subseteq Requests
      /\ InferenceTypeInv
  BY StepPolicy, TypeOther DEF SlotInv, InferenceTypeInv, InferenceTypeOK
<1>2. ASSUME NEW x \in provider
      PROVE  /\ phase[x] \in {"executing", "aborted", "parting", "gone"}
             /\ lease[x].state \in {"holding", "quarantined"}
             /\ \A p \in Probers : probe[p].served => x \notin probe[p].on
  BY <1>1 DEF ActiveInv
<1>3. ASSUME NEW x \in provider'
      PROVE  /\ Moves(x)
             /\ x \notin provider => Send(x) /\ phase[x] = "held" /\ phase'[x] = "executing"
             /\ ~(phase[x] = "executing" /\ phase'[x] = "leaving")
  BY <1>1, StepMoves, StepSends DEF InferenceTypeInv
<1>4. ASSUME NEW x \in provider'
      PROVE  phase'[x] \in {"executing", "aborted", "parting", "gone"}
  <2>1. CASE x \notin provider
    BY <1>3, <2>1
  <2>2. CASE x \in provider
    BY <1>1, <1>2, <1>3, <2>2 DEF Moves, Walks, Paces, Joins, Claims, Ends, Recycles, Renewed,
       Quarantined, Released, Ages
  <2> QED
    BY <2>1, <2>2
<1>5. ASSUME NEW x \in provider'
      PROVE  lease'[x].state \in {"holding", "quarantined"}
  <2>1. CASE x \notin provider
    <3>1. UNCHANGED lease /\ lease[x].state = "holding"
      BY <1>1, <1>3, <2>1 DEF Send, SlotInv, FreshInv
    <3> QED
      BY <3>1
  <2>2. CASE x \in provider
    <3>1. ~Joins(x) /\ ~Claims(x) /\ ~Ends(x) /\ ~Recycles(x)
      BY <1>2, <2>2 DEF Joins, Claims, Ends, Recycles
    <3>2. ~Released(x)
      BY <1>2, <2>2 DEF Released
    <3>3. CASE lease'[x] = lease[x]
      BY <1>2, <2>2, <3>3
    <3>4. CASE lease'[x] = Swept[x]
      BY <1>1, <1>2, <2>2, <3>4, SweptRow DEF InferenceTypeOK
    <3>5. CASE Renewed(x) \/ Quarantined(x) \/ Ages(x)
      BY <1>2, <2>2, <3>5, Created DEF Renewed, Quarantined, Ages
    <3> QED
      BY <1>3, <3>1, <3>2, <3>3, <3>4, <3>5 DEF Moves
  <2> QED
    BY <2>1, <2>2
<1>6. ASSUME NEW x \in provider', NEW p \in Probers, probe'[p].served, x \in probe'[p].on
      PROVE  FALSE
  <2>1. x \in probe[p].on /\ (probe[p].served \/ Cardinality(provider) < Capacity)
    BY <1>1, <1>6, StepProbes
  <2>2. phase[x] \in InferencePast
    BY <1>1, <2>1 DEF QuarantineInv
  <2>3. x \in provider
    BY <1>3, <2>2 DEF InferencePast
  <2>4. Cardinality(provider) < 1
    BY <1>2, <2>1, <2>3
  <2>5. Cardinality(provider) = 0 /\ IsFiniteSet(provider)
    BY <1>1, <2>4, Counted
  <2> QED
    BY <2>3, <2>5, FS_EmptySet
<1>7. ASSUME NEW x \in Requests, Active(x)'
      PROVE  Active(x) \/ (TryClaim(x) /\ Grantable(x))
  <2>1. CASE x \in provider'
    BY <1>3, <2>1 DEF Active
  <2>2. CASE phase'[x] \in {"granted", "held"}
    <3>1. Moves(x)
      BY <1>1, StepMoves DEF InferenceTypeInv
    <3> QED
      BY <2>2, <3>1 DEF Active, Moves, Walks, Paces, Joins, Claims, Ends, Recycles, Renewed,
         Quarantined, Released, Ages, Waiters
  <2> QED
    BY <1>7, <2>1, <2>2 DEF Active
<1>8. ASSUME NEW r \in Requests, NEW q \in Requests, Active(r)', Active(q)'
      PROVE  r = q
  <2>1. CASE Active(r) /\ Active(q)
    BY <1>1, <2>1 DEF ActiveInv
  <2>2. CASE TryClaim(r) /\ Grantable(r)
    <3>1. ~Active(q)
      BY <1>1, <2>2, GrantedAlone
    <3>2. TryClaim(q)
      BY <1>7, <1>8, <3>1
    <3> QED
      BY <1>1, <1>8, <2>2, <3>1, <3>2 DEF TryClaim, InferenceTypeOK, Active
  <2>3. CASE TryClaim(q) /\ Grantable(q)
    <3>1. ~Active(r)
      BY <1>1, <2>3, GrantedAlone
    <3>2. TryClaim(r)
      BY <1>7, <1>8, <3>1
    <3> QED
      BY <1>1, <1>8, <2>3, <3>1, <3>2 DEF TryClaim, InferenceTypeOK, Active
  <2> QED
    BY <1>7, <1>8, <2>1, <2>2, <2>3
<1> QED
  BY <1>4, <1>5, <1>6, <1>8

\* LoadInv is inductive.
LEMMA LoadNext ==
  ASSUME LoadInv, DbPrompt, [InferenceNext]_inferenceOwn
  PROVE  LoadInv'
<1>1. SlotInv'
  BY SlotNext DEF LoadInv
<1>2. CASE UNCHANGED inferenceOwn
  BY <1>1, <1>2 DEF inferenceOwn, LoadInv, QuarantineInv, ActiveInv, Active
<1>3. CASE InferenceNext
  BY <1>1, <1>3, QuarantineNext, ActiveNext DEF LoadInv
<1> QED
  BY <1>2, <1>3

LEMMA LoadInit == InferenceInit => LoadInv
<1> SUFFICES ASSUME InferenceInit PROVE LoadInv
  OBVIOUS
<1>1. SlotInv
  BY SlotInit
<1>2. /\ \A r \in Requests : phase[r] = "idle" /\ lease[r].state = "none"
      /\ \A p \in Probers : probe[p].on = {}
      /\ provider = {}
  BY Created DEF InferenceInit
<1> QED
  BY <1>1, <1>2 DEF LoadInv, QuarantineInv, ActiveInv, Active

\* Where a claim is answered within a heartbeat, a local provider with one slot
\* never has a second request, not even beside one that was abandoned: its row
\* stays, holding or quarantined, until a probe is served by an idle provider.
THEOREM NotOverloaded == ASSUME DbPrompt PROVE InferenceSpec => []NoOverload
<1>1. ASSUME LoadInv PROVE NoOverload
  <2> SUFFICES ASSUME isLocal, Capacity = 1
               PROVE  Cardinality(provider) <= 1
    BY DEF NoOverload
  <2>1. provider \subseteq Requests /\ InferenceTypeInv
    BY <1>1 DEF LoadInv, SlotInv, InferenceTypeInv, InferenceTypeOK
  <2>2. \A r, q \in provider : r = q
    BY <1>1, <2>1 DEF LoadInv, ActiveInv, Active
  <2>3. CASE provider = {}
    BY <2>3, FS_EmptySet
  <2>4. CASE provider # {}
    <3>1. PICK r : r \in provider
      BY <2>4
    <3>2. provider = {r}
      BY <2>2, <3>1
    <3> QED
      BY <3>2, FS_Singleton
  <2> QED
    BY <2>3, <2>4
<1> QED
  BY <1>1, LoadInit, LoadNext, PTL DEF InferenceSpec

=============================================================================
