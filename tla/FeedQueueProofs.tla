--------------------------- MODULE FeedQueueProofs ---------------------------
(***************************************************************************)
(* The safety of the feed-synchronisation queue, for any number of jobs,   *)
(* feeds, slots, workers and recovery hosts.                               *)
(*                                                                         *)
(*   IInv        types, and the locks of handlers      FeedExclusion       *)
(*   TokenInv    + tokens of BullMQ                    TokenOfWorker       *)
(*   ReleaseInv  + locks are held by handlers only     LockReleased        *)
(*   CeilingInv  + handlers hold tokens, few active    SyncCeiling         *)
(*   FirstInv    + a job's first attempt               LiveNotReclaimed    *)
(*                                                                         *)
(* Each invariant is inductive relative to the ones it builds on.          *)
(***************************************************************************)
EXTENDS FeedQueue, TLAPS, FiniteSetTheorems

\* The inductive invariant: every handler that is past acquireFeedSyncLock has
\* the lock of its job's feed.
IInv == TypeOK /\ HandlerHoldsLock

\* Init of the queue, of PostgreSQL and of the workers satisfies the invariant.
LEMMA InitIInv == Init => IInv
  BY QueueAssumption DEF Init, IInv, TypeOK, HandlerHoldsLock, Bull, BullState,
     Row, NoRow, Status, Slot, PC, Idle, Pass, NoPass, NoTodo, Phase, Verdict, Op

\* UPDATE ... WHERE job_id gives a row again.
LEMMA WithStatusType ==
  ASSUME NEW r \in Row, NEW st \in Status
  PROVE  WithStatus(r, st) \in Row
  BY DEF WithStatus, Row

\* BullMQ's failure handling gives a job record without a lock.
LEMMA FailedType ==
  ASSUME NEW j \in Jobs, NEW b \in Bull
  PROVE  Failed(j, b) \in Bull
  BY QueueAssumption DEF Failed, Bull, BullState, AttemptsOf

\* The statements a pass plans are sequences of its operations.
LEMMA PlanType ==
  ASSUME NEW js, NEW plan \in Seq(Op)
  PROVE  Plan(js, plan) \in [Jobs -> Seq(Op)]
  BY DEF Plan

\* A row ages to a row.
LEMMA AgedType ==
  ASSUME TypeOK, NEW j \in Jobs, NEW lost
  PROVE  Aged(j, lost) \in Row
<1>1. row[j] \in Row
  BY DEF TypeOK
<1>2. \A n \in Nat : Capped(n, JobTimeout + 1) \in Nat /\ Capped(n, StaleAfter + 1) \in Nat
  BY QueueAssumption DEF Capped
<1>3. row[j].age + 1 \in Nat /\ row[j].quiet + 1 \in Nat
  BY <1>1 DEF Row
<1> QED
  BY <1>1, <1>2, <1>3 DEF Aged, Row

\* A recovery pass's classification of a row is one of the verdicts.
LEMMA VerdictType ==
  ASSUME TypeOK, NEW j \in Jobs
  PROVE  VerdictOf(j) \in Verdict
  BY DEF TypeOK, Row, Status, VerdictOf, Verdict

\* What reconcileOneBullJob plans is a sequence of operations.
LEMMA PlanForType ==
  ASSUME NEW j \in Jobs, NEW v \in Verdict
  PROVE  PlanFor(j, v) \in Seq(Op)
<1>1. {<<>>, <<"purge">>, <<"move", "purge">>, <<"fail", "move", "purge">>,
       <<"move", "purge", "fail">>} \subseteq Seq(Op)
  BY DEF Op
<1> QED
  BY <1>1 DEF PlanFor, Verdict

\* Popping a statement that is there leaves a sequence of operations.
LEMMA DoneType ==
  ASSUME TypeOK, NEW h \in Recoverers, NEW j \in Jobs, NextOp(h, j) # "none", Done(h, j)
  PROVE  rec' \in [Recoverers -> Pass]
<1>1. rec[h] \in Pass /\ rec[h].todo \in [Jobs -> Seq(Op)] /\ rec[h].todo[j] \in Seq(Op)
  BY DEF TypeOK, Pass
<1>2. Tail(rec[h].todo[j]) \in Seq(Op)
  BY <1>1 DEF NextOp
<1>3. [rec[h].todo EXCEPT ![j] = Tail(@)] \in [Jobs -> Seq(Op)]
  BY <1>1, <1>2
<1>4. [rec[h] EXCEPT !.todo[j] = Tail(@)] \in Pass
  BY <1>1, <1>3 DEF Pass
<1> QED
  BY <1>4 DEF Done, TypeOK

------------------------------------------------------------------------------
(* Steps, grouped by what they write *)

\* The producers and BullMQ's promotion leave slots and locks alone.
LEMMA ProducerStep ==
  ASSUME IInv, NEW j \in Jobs, Produce(j) \/ Promote(j)
  PROVE  IInv'
<1>1. TypeOK /\ bull[j] \in Bull
  BY DEF IInv, TypeOK
<1>2. UNCHANGED <<slot, feedLock, proc, stops, failMarks, rec>>
  BY DEF Produce, ScheduledAdd, RunNow, ManualAdd, ManualUpsert, ManualUpsertError, Promote
<1>3. HandlerHoldsLock'
  BY <1>2 DEF IInv, HandlerHoldsLock
<1>4. CASE ScheduledAdd(j) \/ RunNow(j) \/ ManualAdd(j) \/ Promote(j)
  <2>1. bull' = [bull EXCEPT ![j].state = "waiting"] \/ UNCHANGED bull
    BY <1>4 DEF ScheduledAdd, RunNow, ManualAdd, Promote
  <2>2. bull' \in [Jobs -> Bull]
    BY <1>1, <2>1 DEF TypeOK, Bull, BullState
  <2>3. call' \in [Jobs -> {"none", "checked", "added"}] /\ UNCHANGED row
    BY <1>1, <1>4 DEF ScheduledAdd, RunNow, ManualAdd, Promote, TypeOK
  <2> QED
    BY <1>1, <1>2, <1>3, <2>2, <2>3 DEF IInv, TypeOK
<1>5. CASE ManualUpsert(j) \/ ManualUpsertError(j)
  <2>1. [NoRow EXCEPT !.status = "queued"] \in Row
    BY DEF NoRow, Row, Status
  <2>2. row' \in [Jobs -> Row]
    BY <1>1, <1>5, <2>1 DEF ManualUpsert, ManualUpsertError, TypeOK
  <2>3. call' \in [Jobs -> {"none", "checked", "added"}] /\ UNCHANGED bull
    BY <1>1, <1>5 DEF ManualUpsert, ManualUpsertError, TypeOK
  <2> QED
    BY <1>1, <1>2, <1>3, <2>2, <2>3 DEF IInv, TypeOK
<1> QED
  BY <1>4, <1>5 DEF Produce

\* BullMQ's stalled check and the 'failed' listener leave slots and locks alone.
LEMMA QueueStep ==
  ASSUME IInv, NEW j \in Jobs, NEW p \in Procs,
         Stalled(j, p) \/ MarkFailed(j, p) \/ MarkFailedError(j, p)
  PROVE  IInv'
<1>1. TypeOK /\ bull[j] \in Bull /\ row[j] \in Row
  BY DEF IInv, TypeOK
<1>2. HandlerHoldsLock'
  BY DEF IInv, HandlerHoldsLock, Stalled, MarkFailed, MarkFailedError
<1>3. CASE Stalled(j, p)
  <2>1. bull[j].stalls + 1 \in Nat
    BY <1>1 DEF Bull
  <2>2. bull' \in [Jobs -> Bull]
    BY <1>1, <1>3, <2>1 DEF Stalled, TypeOK, Bull, BullState
  <2>3. failMarks' \subseteq (Jobs \X Procs)
    BY <1>1, <1>3 DEF Stalled, TypeOK
  <2> QED
    BY <1>1, <1>2, <1>3, <2>2, <2>3 DEF Stalled, IInv, TypeOK
<1>4. CASE MarkFailed(j, p) \/ MarkFailedError(j, p)
  <2>1. WithStatus(row[j], "failed") \in Row
    BY <1>1, WithStatusType DEF Status
  <2> QED
    BY <1>1, <1>2, <1>4, <2>1 DEF MarkFailed, MarkFailedError, IInv, TypeOK
<1> QED
  BY <1>3, <1>4

\* A slot that moves on in its handler stays within the types.
LEMMA SlotType ==
  ASSUME TypeOK, NEW s \in Slots, NEW pc \in PC, Goto(s, pc) \/ Throw(s, pc)
  PROVE  slot' \in [Slots -> Slot]
<1>1. slot[s] \in Slot
  BY DEF TypeOK
<1> QED
  BY <1>1 DEF TypeOK, Goto, Throw, Slot

\* Handler steps that neither take nor give up the feed lock.
LEMMA HandlerStep ==
  ASSUME IInv, NEW s \in Slots,
         \/ RefuseShutdown(s) \/ SkipBusy(s) \/ MarkRunning(s) \/ TimeoutFires(s)
         \/ DrainEnds(s) \/ MarkDone(s) \/ Import(s) \/ WorkError(s)
  PROVE  IInv'
<1>1. TypeOK /\ HandlerHoldsLock /\ slot[s] \in Slot
  BY DEF IInv, TypeOK
<1>2. slot[s].pc # "idle" /\ slot[s].job \in Jobs
  BY <1>1 DEF HandlerHoldsLock, RefuseShutdown, SkipBusy, MarkRunning, TimeoutFires,
     DrainEnds, MarkDone, Import, ImportThrows, ImportReturns, WorkError, FeedLockError,
     MarkRunningError, MarkDoneError
<1>3. row[slot[s].job] \in Row
  BY <1>1, <1>2 DEF TypeOK
<1>4. slot' \in [Slots -> Slot]
  <2>1. CASE Import(s)
    BY <1>1, <2>1, SlotType DEF Import, ImportThrows, ImportReturns, TypeOK, Slot, PC
  <2>2. CASE ~Import(s)
    BY <1>1, <2>2, SlotType DEF RefuseShutdown, SkipBusy, MarkRunning, TimeoutFires,
       DrainEnds, MarkDone, WorkError, FeedLockError, MarkRunningError, MarkDoneError, PC
  <2> QED
    BY <2>1, <2>2
<1>5. row' \in [Jobs -> Row]
  <2>1. CASE SkipBusy(s) \/ MarkDone(s)
    <3>1. \A st \in {"success", "skipped"} : WithStatus(row[slot[s].job], st) \in Row
      BY <1>3, WithStatusType DEF Status
    <3> QED
      BY <1>1, <1>2, <2>1, <3>1 DEF SkipBusy, MarkDone, TypeOK
  <2>2. CASE MarkRunning(s)
    BY <1>1, <1>2, <1>3, <2>2 DEF MarkRunning, RunningRow, TypeOK, Row, Status
  <2>3. CASE ~(SkipBusy(s) \/ MarkDone(s) \/ MarkRunning(s))
    BY <1>1, <2>3 DEF RefuseShutdown, TimeoutFires, DrainEnds, Import, ImportThrows,
       ImportReturns, WorkError, FeedLockError, MarkRunningError, MarkDoneError, TypeOK
  <2> QED
    BY <2>1, <2>2, <2>3
<1>6. UNCHANGED <<bull, feedLock, call, proc, stops, failMarks, rec>>
  BY DEF RefuseShutdown, SkipBusy, MarkRunning, TimeoutFires, DrainEnds, MarkDone,
     Import, ImportThrows, ImportReturns, WorkError, FeedLockError, MarkRunningError,
     MarkDoneError
<1>7. HandlerHoldsLock'
  <2>1. \A t \in Slots \ {s} : slot'[t] = slot[t]
    BY <1>1 DEF TypeOK, RefuseShutdown, SkipBusy, MarkRunning, TimeoutFires, DrainEnds,
       MarkDone, Import, ImportThrows, ImportReturns, WorkError, FeedLockError,
       MarkRunningError, MarkDoneError, Goto, Throw
  <2>2. slot'[s].job = slot[s].job
    BY <1>1 DEF TypeOK, Slot, RefuseShutdown, SkipBusy, MarkRunning, TimeoutFires,
       DrainEnds, MarkDone, Import, ImportThrows, ImportReturns, WorkError,
       FeedLockError, MarkRunningError, MarkDoneError, Goto, Throw
  <2>3. slot'[s].pc \in {"locked", "running", "draining", "done", "release"}
          => slot[s].pc \in {"locked", "running", "draining", "done", "release"}
    BY <1>1 DEF TypeOK, Slot, RefuseShutdown, SkipBusy, MarkRunning, TimeoutFires,
       DrainEnds, MarkDone, Import, ImportThrows, ImportReturns, WorkError,
       FeedLockError, MarkRunningError, MarkDoneError, Goto, Throw
  <2> QED
    BY <1>1, <1>2, <1>6, <2>1, <2>2, <2>3 DEF HandlerHoldsLock
<1> QED
  BY <1>1, <1>4, <1>5, <1>6, <1>7 DEF IInv, TypeOK

\* Taking and giving back the feed lock: the lock goes to a slot that had none
\* on a feed nobody holds, and is given back by its holder only.
LEMMA LockStep ==
  ASSUME IInv, NEW s \in Slots, TryFeedLock(s) \/ ReleaseFeedLock(s)
  PROVE  IInv'
<1>1. TypeOK /\ HandlerHoldsLock /\ slot[s] \in Slot
  BY DEF IInv, TypeOK
<1>2. slot[s].job \in Jobs /\ FeedOf[slot[s].job] \in Feeds
  BY <1>1, QueueAssumption DEF HandlerHoldsLock, TryFeedLock, ReleaseFeedLock
<1>3. \E pc \in PC : Goto(s, pc)
  BY DEF TryFeedLock, ReleaseFeedLock, PC
<1>4. slot' \in [Slots -> Slot]
  BY <1>1, <1>3, SlotType
<1>5. feedLock' \in [Feeds -> Slots \cup {None}]
  BY <1>1, <1>2 DEF TypeOK, TryFeedLock, ReleaseFeedLock
<1>6. \A t \in Slots \ {s} : slot'[t] = slot[t]
  BY <1>1, <1>3 DEF TypeOK, Goto
<1>7. slot'[s].job = slot[s].job
  BY <1>1, <1>3 DEF TypeOK, Goto, Slot
<1>8. HandlerHoldsLock'
  <2>1. CASE /\ feedLock[FeedOf[slot[s].job]] = None
             /\ feedLock' = [feedLock EXCEPT ![FeedOf[slot[s].job]] = s]
             /\ Goto(s, "locked")
    BY <1>1, <1>2, <1>6, <1>7, <2>1, QueueAssumption DEF HandlerHoldsLock, TypeOK
  <2>2. CASE /\ UNCHANGED feedLock
             /\ Goto(s, "busy")
    <3>1. slot'[s].pc = "busy"
      BY <1>1, <2>2 DEF TypeOK, Goto, Slot
    <3> QED
      BY <1>1, <1>2, <1>6, <1>7, <2>2, <3>1 DEF HandlerHoldsLock
  <2>3. CASE ReleaseFeedLock(s)
    <3>1. slot'[s].pc = "settle"
      BY <1>1, <2>3 DEF TypeOK, ReleaseFeedLock, Goto, Slot
    <3>2. feedLock[FeedOf[slot[s].job]] = s
      BY <1>1, <2>3 DEF HandlerHoldsLock, ReleaseFeedLock
    <3>3. feedLock' = [feedLock EXCEPT ![FeedOf[slot[s].job]] = None]
      BY <2>3 DEF ReleaseFeedLock
    <3> QED
      BY <1>1, <1>2, <1>6, <1>7, <3>1, <3>2, <3>3, QueueAssumption
      DEF HandlerHoldsLock, TypeOK
  <2> QED
    BY <2>1, <2>2, <2>3 DEF TryFeedLock
<1> QED
  BY <1>1, <1>4, <1>5, <1>8 DEF IInv, TypeOK, TryFeedLock, ReleaseFeedLock

\* A slot takes a job, or reports to BullMQ and becomes idle.
LEMMA TakeStep ==
  ASSUME IInv, NEW s \in Slots, NEW j \in Jobs, Take(s, j)
  PROVE  IInv'
<1>1. TypeOK /\ HandlerHoldsLock /\ slot[s] \in Slot /\ bull[j] \in Bull
  BY DEF IInv, TypeOK
<1>2. slot' \in [Slots -> Slot]
  BY <1>1 DEF Take, TypeOK, Slot, PC
<1>3. bull' \in [Jobs -> Bull]
  BY <1>1 DEF Take, TypeOK, Bull, BullState
<1>4. slot'[s].pc = "taken" /\ slot'[s].job = j /\ \A t \in Slots \ {s} : slot'[t] = slot[t]
  BY <1>1 DEF Take, TypeOK, Slot
<1>5. HandlerHoldsLock'
  BY <1>1, <1>4 DEF HandlerHoldsLock, Take
<1> QED
  BY <1>1, <1>2, <1>3, <1>5 DEF IInv, TypeOK, Take

\* BullMQ is told the outcome, if the slot still has the job's token.
LEMMA SettleStep ==
  ASSUME IInv, NEW s \in Slots, SettleCompleted(s) \/ SettleFailed(s)
  PROVE  IInv'
<1>1. TypeOK /\ HandlerHoldsLock /\ slot[s] \in Slot
  BY DEF IInv, TypeOK
<1> DEFINE j == slot[s].job
<1>2. j \in Jobs /\ bull[j] \in Bull /\ Failed(j, bull[j]) \in Bull
  <2>1. j \in Jobs
    BY <1>1 DEF HandlerHoldsLock, SettleCompleted, SettleFailed
  <2> QED
    BY <1>1, <2>1, FailedType DEF TypeOK
<1>3. slot' = [slot EXCEPT ![s] = Idle]
  BY DEF SettleCompleted, SettleFailed
<1>4. slot' \in [Slots -> Slot]
  BY <1>1, <1>3 DEF TypeOK, Slot, Idle, PC
<1>5. bull' \in [Jobs -> Bull]
  <2>1. CASE SettleCompleted(s)
    <3>1. [bull EXCEPT ![j].state = "completed", ![j].owner = None] \in [Jobs -> Bull]
      BY <1>1, <1>2 DEF TypeOK, Bull, BullState
    <3> QED
      BY <1>1, <2>1, <3>1 DEF TypeOK, SettleCompleted
  <2>2. CASE SettleFailed(s)
    BY <1>1, <1>2, <2>2 DEF SettleFailed, TypeOK
  <2> QED
    BY <2>1, <2>2
<1>6. failMarks' \subseteq (Jobs \X Procs)
  BY <1>1, <1>2, QueueAssumption DEF TypeOK, SettleCompleted, SettleFailed
<1>7. HandlerHoldsLock'
  BY <1>1, <1>3 DEF HandlerHoldsLock, SettleCompleted, SettleFailed, TypeOK, Idle
<1> QED
  BY <1>1, <1>4, <1>5, <1>6, <1>7 DEF IInv, TypeOK, SettleCompleted, SettleFailed

\* A process that ends takes its slots, its locks and its pass with it.
LEMMA ProcessStep ==
  ASSUME IInv, NEW p \in Procs, Process(p)
  PROVE  IInv'
<1>1. TypeOK /\ HandlerHoldsLock
  BY DEF IInv
<1>2. CASE Shutdown(p) \/ Restart(p)
  BY <1>1, <1>2 DEF Shutdown, Restart, IInv, TypeOK, HandlerHoldsLock
<1>3. CASE Die(p) /\ (stops' = stops + 1 \/ UNCHANGED stops)
  <2>1. slot' \in [Slots -> Slot]
    BY <1>1, <1>3 DEF Die, TypeOK, Slot, Idle, PC
  <2>2. bull' \in [Jobs -> Bull]
    BY <1>1, <1>3 DEF Die, TypeOK, Bull
  <2>3. rec' \in [Recoverers -> Pass]
    <3>1. NoPass \in Pass
      BY DEF NoPass, NoTodo, Pass, Phase, Verdict
    <3> QED
      BY <1>1, <1>3, <3>1 DEF Die, TypeOK
  <2>4. /\ feedLock' \in [Feeds -> Slots \cup {None}]
        /\ failMarks' \subseteq (Jobs \X Procs)
        /\ proc' \in [Procs -> {"up", "closing", "down"}]
        /\ stops' \in Nat
        /\ UNCHANGED <<row, call>>
    BY <1>1, <1>3 DEF Die, TypeOK
  <2>5. HandlerHoldsLock'
    <3>1. SUFFICES ASSUME NEW s \in Slots, slot'[s].pc # "idle"
                   PROVE  /\ slot'[s].job \in Jobs
                          /\ slot'[s].pc \in {"locked", "running", "draining", "done", "release"}
                               => feedLock'[FeedOf[slot'[s].job]] = s
      BY DEF HandlerHoldsLock
    <3>2. slot'[s] = slot[s] /\ ProcOf[s] # p
      BY <1>3, <3>1, QueueAssumption DEF Die, Idle
    <3>3. slot[s].job \in Jobs /\ FeedOf[slot[s].job] \in Feeds
      BY <1>1, <3>1, <3>2, QueueAssumption DEF HandlerHoldsLock
    <3> QED
      BY <1>1, <1>3, <3>2, <3>3 DEF Die, HandlerHoldsLock
  <2> QED
    BY <1>1, <2>1, <2>2, <2>3, <2>4, <2>5 DEF IInv, TypeOK
<1> QED
  BY <1>2, <1>3 DEF Process, Crash, Exit

\* Recovery passes write rows and BullMQ, never slots or feed locks.
LEMMA RecoveryKeeps ==
  ASSUME IInv, NEW h \in Recoverers,
         RecoveryStep(h) \/ \E full \in BOOLEAN : ScanStale(h, full)
  PROVE  IInv'
<1>1. TypeOK /\ HandlerHoldsLock /\ rec[h] \in Pass
  BY DEF IInv, TypeOK
<1>2. UNCHANGED <<feedLock, call, proc, stops, slot, failMarks>>
  BY DEF RecoveryStep, ScanStale, FailRow, MoveToFailed, Purge, Decide, EndPeriodic,
     ScanActive, ScanRemaining, ScanLocks, ScanQueued, EndFull
<1>3. HandlerHoldsLock'
  BY <1>1, <1>2 DEF HandlerHoldsLock
<1>4. SUFFICES /\ bull' \in [Jobs -> Bull]
               /\ row' \in [Jobs -> Row]
               /\ rec' \in [Recoverers -> Pass]
  BY <1>1, <1>2, <1>3 DEF IInv, TypeOK
<1>5. CASE \E j \in Jobs : FailRow(h, j) \/ MoveToFailed(h, j) \/ Purge(h, j)
  <2>1. PICK j \in Jobs : FailRow(h, j) \/ MoveToFailed(h, j) \/ Purge(h, j)
    BY <1>5
  <2>2. /\ bull[j] \in Bull /\ Failed(j, bull[j]) \in Bull
        /\ row[j] \in Row /\ WithStatus(row[j], "failed") \in Row
    BY <1>1, FailedType, WithStatusType DEF TypeOK, Status
  <2>3. Purged(bull[j]) \in Bull
    BY <2>2 DEF Purged, Bull, BullState
  <2>4. rec' \in [Recoverers -> Pass]
    BY <1>1, <2>1, DoneType DEF FailRow, MoveToFailed, Purge
  <2> QED
    BY <1>1, <2>1, <2>2, <2>3, <2>4 DEF FailRow, MoveToFailed, Purge, TypeOK
<1>6. CASE \E j \in Jobs : Decide(h, j)
  <2>1. PICK j \in Jobs : Decide(h, j)
    BY <1>6
  <2>2. rec[h].todo \in [Jobs -> Seq(Op)] /\ PlanFor(j, rec[h].read[j]) \in Seq(Op)
    BY <1>1, PlanForType DEF Pass
  <2>3. [rec[h] EXCEPT !.todo[j] = PlanFor(j, rec[h].read[j])] \in Pass
    BY <1>1, <2>2 DEF Pass
  <2> QED
    BY <1>1, <2>1, <2>3 DEF Decide, TypeOK
<1>7. CASE EndPeriodic(h) \/ EndFull(h)
  <2>1. NoPass \in Pass
    BY DEF NoPass, NoTodo, Pass, Phase, Verdict
  <2> QED
    BY <1>1, <1>7, <2>1 DEF EndPeriodic, EndFull, TypeOK
<1>8. CASE \/ \E full \in BOOLEAN : ScanStale(h, full)
           \/ ScanActive(h) \/ ScanRemaining(h) \/ ScanLocks(h)
           \/ \E old \in SUBSET Jobs : ScanQueued(h, old)
  <2>1. {<<"fail", "move", "purge">>, <<"decide">>, <<"purge">>, <<"fail">>} \subseteq Seq(Op)
    BY DEF Op
  <2>2. \A js : \A plan \in Seq(Op) : Plan(js, plan) \in [Jobs -> Seq(Op)]
    BY PlanType
  <2>3. [j \in Jobs |-> IF j \in Active THEN VerdictOf(j) ELSE "none"] \in [Jobs -> Verdict]
    BY <1>1, VerdictType DEF Verdict
  <2>4. NoPass.read \in [Jobs -> Verdict]
    BY DEF NoPass, Verdict
  <2>5. rec' \in [Recoverers -> Pass]
    <3>1. CASE \E full \in BOOLEAN : ScanStale(h, full)
      <4>1. PICK full \in BOOLEAN : ScanStale(h, full)
        BY <3>1
      <4>2. Plan({j \in Jobs : VerdictOf(j) = "reclaim"}, <<"fail", "move", "purge">>)
              \in [Jobs -> Seq(Op)]
        BY <2>1, <2>2
      <4> QED
        BY <1>1, <4>1, <4>2 DEF ScanStale, TypeOK, Pass, Phase
    <3>2. CASE ScanActive(h)
      BY <1>1, <2>1, <2>2, <2>3, <3>2 DEF ScanActive, TypeOK, Pass, Phase
    <3>3. CASE ScanRemaining(h)
      BY <1>1, <2>1, <2>2, <2>4, <3>3 DEF ScanRemaining, TypeOK, Pass, Phase
    <3>4. CASE ScanLocks(h)
      BY <1>1, <2>1, <2>2, <3>4 DEF ScanLocks, TypeOK, Pass, Phase
    <3>5. CASE \E old \in SUBSET Jobs : ScanQueued(h, old)
      <4>1. PICK old \in SUBSET Jobs : ScanQueued(h, old)
        BY <3>5
      <4>2. Plan({j \in old : row[j].status = "queued" /\ ~InLiveBullmq(j)}, <<"fail">>)
              \in [Jobs -> Seq(Op)]
        BY <2>1, <2>2
      <4> QED
        BY <1>1, <4>1, <4>2 DEF ScanQueued, TypeOK, Pass, Phase
    <3> QED
      BY <1>8, <3>1, <3>2, <3>3, <3>4, <3>5
  <2> QED
    BY <1>1, <1>8, <2>5 DEF ScanStale, ScanActive, ScanRemaining, ScanLocks, ScanQueued,
       TypeOK
<1> QED
  BY <1>5, <1>6, <1>7, <1>8 DEF RecoveryStep

\* Time moves ages and timers only.
LEMMA TickStep ==
  ASSUME IInv, NEW lost \in SUBSET Jobs, Tick(lost)
  PROVE  IInv'
<1>1. TypeOK /\ HandlerHoldsLock
  BY DEF IInv
<1>2. row' \in [Jobs -> Row]
  BY <1>1, AgedType DEF Tick
<1>3. \A s \in Slots : slot'[s] \in Slot /\ slot'[s].pc = slot[s].pc /\ slot'[s].job = slot[s].job
  <2>1. \A s \in Slots : slot[s] \in Slot /\ slot[s].ran + 1 \in Nat
    BY <1>1 DEF TypeOK, Slot
  <2> QED
    BY <2>1 DEF Tick, Slot
<1>4. slot' \in [Slots -> Slot]
  BY <1>3 DEF Tick
<1>5. HandlerHoldsLock'
  BY <1>1, <1>3 DEF HandlerHoldsLock, Tick
<1> QED
  BY <1>1, <1>2, <1>4, <1>5 DEF Tick, IInv, TypeOK

------------------------------------------------------------------------------
(* Theorems *)

\* No step of the system breaks the invariant.
LEMMA NextIInv == IInv /\ [Next]_vars => IInv'
<1> SUFFICES ASSUME IInv, [Next]_vars PROVE IInv'
  OBVIOUS
<1>1. CASE \E j \in Jobs : Produce(j) \/ Promote(j)
  BY <1>1, ProducerStep
<1>2. CASE \E j \in Jobs, p \in Procs : Stalled(j, p) \/ MarkFailed(j, p) \/ MarkFailedError(j, p)
  BY <1>2, QueueStep
<1>3. CASE \E s \in Slots : Work(s) \/ Import(s) \/ WorkError(s)
  BY <1>3, HandlerStep, LockStep, SettleStep DEF Work
<1>4. CASE \E s \in Slots, j \in Jobs : Take(s, j)
  BY <1>4, TakeStep
<1>5. CASE \E p \in Procs : Process(p)
  BY <1>5, ProcessStep
<1>6. CASE \E h \in Recoverers : RecoveryStep(h) \/ \E full \in BOOLEAN : ScanStale(h, full)
  BY <1>6, RecoveryKeeps
<1>7. CASE \E lost \in SUBSET Jobs : Tick(lost)
  BY <1>7, TickStep
<1>8. CASE UNCHANGED vars
  BY <1>8 DEF vars, IInv, TypeOK, HandlerHoldsLock
<1> QED
  BY <1>1, <1>2, <1>3, <1>4, <1>5, <1>6, <1>7, <1>8 DEF Next

\* The state of queue, table, locks, workers and passes is always well formed.
THEOREM TypeCorrect == Spec => []TypeOK
<1>1. IInv => TypeOK
  BY DEF IInv
<1> QED
  BY InitIInv, NextIInv, <1>1, PTL DEF Spec

\* Between acquireFeedSyncLock and release the slot holds its feed's lock.
THEOREM LockHeld == Spec => []HandlerHoldsLock
<1>1. IInv => HandlerHoldsLock
  BY DEF IInv
<1> QED
  BY InitIInv, NextIInv, <1>1, PTL DEF Spec

\* No feed is ever synchronised by two slots at the same time (worker.js takes
\* the lock of feedSyncLock.js first), whatever stops, errors and recovery do.
THEOREM Exclusion == Spec => []FeedExclusion
<1>1. IInv => FeedExclusion
  BY DEF IInv, FeedExclusion, HandlerHoldsLock, Importing
<1> QED
  BY InitIInv, NextIInv, <1>1, PTL DEF Spec

------------------------------------------------------------------------------
(* Tokens: what is left in a job's lock belongs to the slot at work on it *)

\* A slot without a handler has no job.
IdleSlots == \A s \in Slots : slot[s].pc = "idle" => slot[s].job = None /\ slot[s].ran = 0

\* A run-now request that passed its check has not been added yet.
CheckedAbsent ==
  \A j \in Jobs : call[j] = "checked" => j \in Manual /\ bull[j].state = "absent"

TokenInv == TokenOfWorker /\ IdleSlots /\ CheckedAbsent

\* A slot's handler moves on by itself: what its own statements leave alone.
LEMMA HandlerFrame ==
  ASSUME IInv, NEW s \in Slots,
         \/ RefuseShutdown(s) \/ SkipBusy(s) \/ MarkRunning(s) \/ TimeoutFires(s)
         \/ DrainEnds(s) \/ MarkDone(s) \/ Import(s) \/ WorkError(s)
         \/ TryFeedLock(s) \/ ReleaseFeedLock(s)
  PROVE  /\ slot[s].pc # "idle" /\ slot'[s].pc # "idle"
         /\ slot'[s].job = slot[s].job
         /\ \A t \in Slots \ {s} : slot'[t] = slot[t]
         /\ UNCHANGED <<bull, call, proc, stops, failMarks, rec>>
<1>1. TypeOK /\ slot[s] \in Slot /\ slot \in [Slots -> Slot]
  BY DEF IInv, TypeOK
<1>2. CASE Import(s)
  BY <1>1, <1>2 DEF Slot, Import, ImportThrows, ImportReturns, Throw
<1>3. CASE WorkError(s) \/ RefuseShutdown(s) \/ TimeoutFires(s)
  BY <1>1, <1>3 DEF Slot, WorkError, FeedLockError, MarkRunningError, MarkDoneError,
     RefuseShutdown, TimeoutFires, Throw
<1>4. CASE \/ SkipBusy(s) \/ MarkRunning(s) \/ DrainEnds(s) \/ MarkDone(s)
           \/ TryFeedLock(s) \/ ReleaseFeedLock(s)
  BY <1>1, <1>4 DEF Slot, SkipBusy, MarkRunning, DrainEnds, MarkDone, TryFeedLock,
     ReleaseFeedLock, Goto
<1> QED
  BY <1>2, <1>3, <1>4

\* Nothing has a token or a handler at the start.
LEMMA TokenInit == Init => TokenInv
  BY QueueAssumption DEF Init, TokenInv, TokenOfWorker, IdleSlots, CheckedAbsent, Idle

\* A job is added or promoted only while no slot has its token.
LEMMA TokenProducer ==
  ASSUME IInv, TokenInv, NEW j \in Jobs, Produce(j) \/ Promote(j)
  PROVE  TokenInv'
<1>1. bull \in [Jobs -> Bull] /\ call \in [Jobs -> {"none", "checked", "added"}]
  BY DEF IInv, TypeOK
<1>2. UNCHANGED slot
  BY DEF Produce, ScheduledAdd, RunNow, ManualAdd, ManualUpsert, ManualUpsertError, Promote
<1>3. CASE ScheduledAdd(j) \/ ManualAdd(j) \/ Promote(j)
  <2>1. bull[j].state # "active" /\ bull[j].owner = None
    BY <1>3 DEF TokenInv, TokenOfWorker, CheckedAbsent, ScheduledAdd, ManualAdd, Promote
  <2>2. \A k \in Jobs : bull'[k].owner = bull[k].owner /\ (k # j => bull'[k] = bull[k])
    BY <1>1, <1>3 DEF ScheduledAdd, ManualAdd, Promote, Bull
  <2>3. call'[j] # "checked" /\ \A k \in Jobs \ {j} : call'[k] = call[k]
    BY <1>1, <1>3 DEF ScheduledAdd, ManualAdd, Promote, TokenInv, CheckedAbsent
  <2> QED
    BY <1>2, <2>1, <2>2, <2>3 DEF TokenInv, TokenOfWorker, CheckedAbsent, IdleSlots
<1>4. CASE RunNow(j) \/ ManualUpsert(j) \/ ManualUpsertError(j)
  BY <1>1, <1>2, <1>4 DEF RunNow, ManualUpsert, ManualUpsertError, TokenInv,
     TokenOfWorker, CheckedAbsent, IdleSlots
<1> QED
  BY <1>3, <1>4 DEF Produce

\* The stalled check touches jobs without a token; the listener touches rows.
LEMMA TokenQueue ==
  ASSUME IInv, TokenInv, NEW j \in Jobs, NEW p \in Procs,
         Stalled(j, p) \/ MarkFailed(j, p) \/ MarkFailedError(j, p)
  PROVE  TokenInv'
<1>1. bull \in [Jobs -> Bull] /\ bull[j] \in Bull
  BY DEF IInv, TypeOK
<1>2. UNCHANGED <<slot, call>>
  BY DEF Stalled, MarkFailed, MarkFailedError
<1>3. \A k \in Jobs : /\ bull'[k].owner = bull[k].owner
                      /\ bull[k].state # "active" \/ bull[k].owner # None
                           => bull'[k] = bull[k]
  BY <1>1 DEF Stalled, MarkFailed, MarkFailedError, Bull
<1> QED
  BY <1>2, <1>3 DEF TokenInv, TokenOfWorker, CheckedAbsent, IdleSlots

\* A handler between Take and the report to BullMQ keeps its job.
LEMMA TokenHandler ==
  ASSUME IInv, TokenInv, NEW s \in Slots,
         \/ RefuseShutdown(s) \/ SkipBusy(s) \/ MarkRunning(s) \/ TimeoutFires(s)
         \/ DrainEnds(s) \/ MarkDone(s) \/ Import(s) \/ WorkError(s)
         \/ TryFeedLock(s) \/ ReleaseFeedLock(s)
  PROVE  TokenInv'
<1>1. /\ slot[s].pc # "idle" /\ slot'[s].pc # "idle"
      /\ slot'[s].job = slot[s].job
      /\ \A t \in Slots \ {s} : slot'[t] = slot[t]
      /\ UNCHANGED <<bull, call>>
  BY HandlerFrame
<1>2. \A j \in Jobs : bull[j].owner \in Slots \cup {None}
  BY DEF IInv, TypeOK, Bull
<1> QED
  BY <1>1, <1>2 DEF TokenInv, TokenOfWorker, CheckedAbsent, IdleSlots

\* The taken job had no token, and the idle slot had none elsewhere.
LEMMA TokenTake ==
  ASSUME IInv, TokenInv, NEW s \in Slots, NEW j \in Jobs, Take(s, j)
  PROVE  TokenInv'
<1>1. bull \in [Jobs -> Bull] /\ slot \in [Slots -> Slot] /\ UNCHANGED call
  BY DEF IInv, TypeOK, Take
<1>2. slot'[s].pc = "taken" /\ slot'[s].job = j /\ \A t \in Slots \ {s} : slot'[t] = slot[t]
  BY <1>1 DEF Take, Slot
<1>3. /\ bull'[j].owner = s /\ bull'[j].state = "active"
      /\ \A k \in Jobs \ {j} : bull'[k] = bull[k]
  BY <1>1 DEF Take, Bull
<1>4. \A k \in Jobs : bull[k].owner # s
  BY QueueAssumption DEF Take, TokenInv, TokenOfWorker, IdleSlots
<1>5. bull[j].state = "waiting" /\ \A k \in Jobs : bull[k].owner \in Slots \cup {None}
  BY <1>1 DEF Take, Bull
<1> QED
  BY <1>1, <1>2, <1>3, <1>4, <1>5 DEF TokenInv, TokenOfWorker, CheckedAbsent, IdleSlots

\* A slot that reports gives up the only token it can have.
LEMMA TokenSettle ==
  ASSUME IInv, TokenInv, NEW s \in Slots, SettleCompleted(s) \/ SettleFailed(s)
  PROVE  TokenInv'
<1> DEFINE j == slot[s].job
<1>1. /\ bull \in [Jobs -> Bull] /\ slot \in [Slots -> Slot] /\ UNCHANGED call
      /\ j \in Jobs
  BY DEF IInv, TypeOK, HandlerHoldsLock, SettleCompleted, SettleFailed
<1>2. /\ slot'[s].pc = "idle" /\ slot'[s].job = None /\ slot'[s].ran = 0
      /\ \A t \in Slots \ {s} : slot'[t] = slot[t]
  BY <1>1 DEF SettleCompleted, SettleFailed, Idle
<1>3. \A k \in Jobs \ {j} : bull'[k] = bull[k] /\ bull[k].owner # s
  BY <1>1, QueueAssumption DEF SettleCompleted, SettleFailed, TokenInv, TokenOfWorker
<1>4. CASE bull[j].owner = s
  <2>1. bull'[j].owner = None /\ bull[j].state = "active"
    BY <1>1, <1>4, QueueAssumption DEF SettleCompleted, SettleFailed, HasToken, Failed,
       Bull, TokenInv, TokenOfWorker
  <2> QED
    BY <1>1, <1>2, <1>3, <2>1 DEF TokenInv, TokenOfWorker, CheckedAbsent, IdleSlots, Bull
<1>5. CASE bull[j].owner # s
  <2>1. UNCHANGED bull
    BY <1>5 DEF SettleCompleted, SettleFailed, HasToken
  <2> QED
    BY <1>1, <1>2, <1>3, <1>5, <2>1 DEF TokenInv, TokenOfWorker, CheckedAbsent, IdleSlots, Bull
<1> QED
  BY <1>4, <1>5

\* The tokens of a process go with its slots.
LEMMA TokenProcess ==
  ASSUME IInv, TokenInv, NEW p \in Procs, Process(p)
  PROVE  TokenInv'
<1>1. bull \in [Jobs -> Bull] /\ slot \in [Slots -> Slot] /\ UNCHANGED call
  BY DEF IInv, TypeOK, Process, Crash, Exit, Die, Shutdown, Restart
<1>2. CASE Shutdown(p) \/ Restart(p)
  BY <1>2 DEF Shutdown, Restart, TokenInv, TokenOfWorker, CheckedAbsent, IdleSlots
<1>3. CASE Die(p)
  <2>1. \A s \in Slots : slot'[s] = IF ProcOf[s] = p THEN Idle ELSE slot[s]
    BY <1>3, QueueAssumption DEF Die
  <2>2. \A j \in Jobs : /\ bull'[j].state = bull[j].state
                        /\ bull'[j].owner = IF bull[j].owner # None /\ ProcOf[bull[j].owner] = p
                                            THEN None ELSE bull[j].owner
    BY <1>1, <1>3 DEF Die, Bull
  <2>3. \A j \in Jobs : bull[j].owner \in Slots \cup {None}
    BY <1>1 DEF Bull
  <2>4. TokenOfWorker'
    BY <2>1, <2>2, <2>3 DEF TokenInv, TokenOfWorker
  <2>5. IdleSlots'
    BY <2>1 DEF TokenInv, IdleSlots, Idle
  <2>6. CheckedAbsent'
    BY <1>1, <2>2 DEF TokenInv, CheckedAbsent
  <2> QED
    BY <2>4, <2>5, <2>6 DEF TokenInv
<1> QED
  BY <1>2, <1>3 DEF Process, Crash, Exit

\* moveBullJobToFailed and purgeJobFromBullmqLists delete the token they meet.
LEMMA TokenRecovery ==
  ASSUME IInv, TokenInv, NEW h \in Recoverers,
         RecoveryStep(h) \/ \E full \in BOOLEAN : ScanStale(h, full)
  PROVE  TokenInv'
<1>1. UNCHANGED <<slot, call>>
  BY DEF RecoveryStep, ScanStale, FailRow, MoveToFailed, Purge, Decide, EndPeriodic,
     ScanActive, ScanRemaining, ScanLocks, ScanQueued, EndFull
<1>2. bull \in [Jobs -> Bull]
  BY DEF IInv, TypeOK
<1>3. CASE \E j \in Jobs : MoveToFailed(h, j) \/ Purge(h, j)
  <2>1. PICK j \in Jobs : MoveToFailed(h, j) \/ Purge(h, j)
    BY <1>3
  <2>2. \A k \in Jobs \ {j} : bull'[k] = bull[k]
    BY <1>2, <2>1 DEF MoveToFailed, Purge
  <2>3. bull'[j] \in {bull[j], Failed(j, bull[j]), Purged(bull[j])}
    BY <1>2, <2>1 DEF MoveToFailed, Purge
  <2>4. Failed(j, bull[j]).owner = None /\ Purged(bull[j]).owner = None
    BY <1>2 DEF Failed, Purged, Bull
  <2>5. bull[j].state = "absent" => bull'[j].state = "absent"
    BY <1>2, <2>1 DEF MoveToFailed, Purge, Purged, Bull
  <2> QED
    BY <1>1, <2>2, <2>3, <2>4, <2>5 DEF TokenInv, TokenOfWorker, CheckedAbsent, IdleSlots
<1>4. CASE UNCHANGED bull
  BY <1>1, <1>4 DEF TokenInv, TokenOfWorker, CheckedAbsent, IdleSlots
<1> QED
  BY <1>3, <1>4 DEF RecoveryStep, ScanStale, FailRow, Decide, EndPeriodic,
     ScanActive, ScanRemaining, ScanLocks, ScanQueued, EndFull

\* Time moves no token.
LEMMA TokenTick ==
  ASSUME IInv, TokenInv, NEW lost \in SUBSET Jobs, Tick(lost)
  PROVE  TokenInv'
<1>1. UNCHANGED <<bull, call>>
  BY DEF Tick
<1>2. \A s \in Slots : /\ slot'[s].pc = slot[s].pc /\ slot'[s].job = slot[s].job
                       /\ slot[s].pc = "idle" => slot'[s].ran = slot[s].ran
  BY DEF Tick, IInv, TypeOK, Slot
<1>3. \A j \in Jobs : bull[j].owner \in Slots \cup {None}
  BY DEF IInv, TypeOK, Bull
<1> QED
  BY <1>1, <1>2, <1>3 DEF TokenInv, TokenOfWorker, CheckedAbsent, IdleSlots

\* No step breaks the token invariant.
LEMMA TokenNext == IInv /\ TokenInv /\ [Next]_vars => TokenInv'
<1> SUFFICES ASSUME IInv, TokenInv, [Next]_vars PROVE TokenInv'
  OBVIOUS
<1>1. CASE \E j \in Jobs : Produce(j) \/ Promote(j)
  BY <1>1, TokenProducer
<1>2. CASE \E j \in Jobs, p \in Procs : Stalled(j, p) \/ MarkFailed(j, p) \/ MarkFailedError(j, p)
  BY <1>2, TokenQueue
<1>3. CASE \E s \in Slots : Work(s) \/ Import(s) \/ WorkError(s)
  BY <1>3, TokenHandler, TokenSettle DEF Work
<1>4. CASE \E s \in Slots, j \in Jobs : Take(s, j)
  BY <1>4, TokenTake
<1>5. CASE \E p \in Procs : Process(p)
  BY <1>5, TokenProcess
<1>6. CASE \E h \in Recoverers : RecoveryStep(h) \/ \E full \in BOOLEAN : ScanStale(h, full)
  BY <1>6, TokenRecovery
<1>7. CASE \E lost \in SUBSET Jobs : Tick(lost)
  BY <1>7, TokenTick
<1>8. CASE UNCHANGED vars
  BY <1>8 DEF vars, TokenInv, TokenOfWorker, IdleSlots, CheckedAbsent
<1> QED
  BY <1>1, <1>2, <1>3, <1>4, <1>5, <1>6, <1>7, <1>8 DEF Next

\* A lock that recovery left in Redis belongs to a slot that works on that very
\* job, and the job is active: purgeJobFromBullmqLists and moveToFailed('0') never
\* leave a slot with a job it does not have.
THEOREM Tokens == Spec => []TokenOfWorker
<1>1. TokenInv => TokenOfWorker
  BY DEF TokenInv
<1> QED
  BY InitIInv, NextIInv, TokenInit, TokenNext, <1>1, PTL DEF Spec

------------------------------------------------------------------------------
(* Feed locks, when no statement fails *)

Locking == {"locked", "running", "draining", "done", "release"}

\* A process that is down runs no handler.
DownIdle == \A s \in Slots : proc[ProcOf[s]] = "down" => slot[s].pc = "idle"

ReleaseInv == LockReleased /\ DownIdle

\* No lock is held at the start.
LEMMA ReleaseInit == Init => ReleaseInv
  BY QueueAssumption DEF Init, ReleaseInv, LockReleased, DownIdle, Idle

\* Without failing statements a handler leaves acquireFeedSyncLock .. release only
\* through release (MarkRunningError is the step that would not).
LEMMA ReleaseHandler ==
  ASSUME IInv, ReleaseInv, ~DbErrors, NEW s \in Slots,
         \/ RefuseShutdown(s) \/ SkipBusy(s) \/ MarkRunning(s) \/ TimeoutFires(s)
         \/ DrainEnds(s) \/ MarkDone(s) \/ Import(s) \/ WorkError(s)
         \/ TryFeedLock(s) \/ ReleaseFeedLock(s)
  PROVE  ReleaseInv'
<1>1. /\ slot[s].pc # "idle" /\ slot'[s].pc # "idle"
      /\ slot'[s].job = slot[s].job
      /\ \A t \in Slots \ {s} : slot'[t] = slot[t]
      /\ UNCHANGED proc
  BY HandlerFrame
<1>2. /\ slot \in [Slots -> Slot] /\ feedLock \in [Feeds -> Slots \cup {None}]
      /\ slot[s].job \in Jobs /\ FeedOf[slot[s].job] \in Feeds
  BY <1>1, QueueAssumption DEF IInv, TypeOK, HandlerHoldsLock
<1>3. proc[ProcOf[s]] # "down" /\ DownIdle'
  BY <1>1 DEF ReleaseInv, DownIdle
<1>4. CASE TryFeedLock(s)
  <2>1. CASE feedLock[FeedOf[slot[s].job]] = None
    <3>1. feedLock' = [feedLock EXCEPT ![FeedOf[slot[s].job]] = s] /\ slot'[s].pc = "locked"
      BY <1>2, <1>4, <2>1 DEF TryFeedLock, Goto, Slot
    <3>2. \A f \in Feeds : feedLock[f] # s
      BY <1>4, QueueAssumption DEF ReleaseInv, LockReleased, TryFeedLock
    <3>3. LockReleased'
      BY <1>1, <1>2, <1>3, <3>1, <3>2 DEF ReleaseInv, LockReleased
    <3> QED
      BY <1>3, <3>3 DEF ReleaseInv
  <2>2. CASE feedLock[FeedOf[slot[s].job]] # None
    <3>1. UNCHANGED feedLock
      BY <1>4, <2>2 DEF TryFeedLock
    <3>2. \A f \in Feeds : feedLock[f] # s
      BY <1>4, QueueAssumption DEF ReleaseInv, LockReleased, TryFeedLock
    <3> QED
      BY <1>1, <1>2, <1>3, <3>1, <3>2 DEF ReleaseInv, LockReleased
  <2> QED
    BY <2>1, <2>2
<1>5. CASE ReleaseFeedLock(s)
  <2>1. feedLock' = [feedLock EXCEPT ![FeedOf[slot[s].job]] = None]
    BY <1>5 DEF ReleaseFeedLock
  <2>2. \A f \in Feeds : feedLock[f] = s => f = FeedOf[slot[s].job]
    BY QueueAssumption DEF ReleaseInv, LockReleased
  <2> QED
    BY <1>1, <1>2, <1>3, <2>1, <2>2 DEF ReleaseInv, LockReleased
<1>6. CASE ~TryFeedLock(s) /\ ~ReleaseFeedLock(s)
  <2>1. UNCHANGED feedLock /\ (slot[s].pc \in Locking => slot'[s].pc \in Locking)
    BY <1>2, <1>6 DEF Locking, Slot, RefuseShutdown, SkipBusy, MarkRunning, TimeoutFires,
       DrainEnds, MarkDone, Import, ImportThrows, ImportReturns, WorkError, FeedLockError,
       MarkRunningError, MarkDoneError, Goto, Throw
  <2> QED
    BY <1>1, <1>2, <1>3, <2>1 DEF ReleaseInv, LockReleased, Locking
<1> QED
  BY <1>4, <1>5, <1>6

\* A slot that takes or reports a job holds no lock.
LEMMA ReleaseSlot ==
  ASSUME IInv, ReleaseInv, NEW s \in Slots,
         SettleCompleted(s) \/ SettleFailed(s) \/ \E j \in Jobs : Take(s, j)
  PROVE  ReleaseInv'
<1>1. slot \in [Slots -> Slot] /\ feedLock \in [Feeds -> Slots \cup {None}]
  BY DEF IInv, TypeOK
<1>2. UNCHANGED <<feedLock, proc>> /\ \A t \in Slots \ {s} : slot'[t] = slot[t]
  BY <1>1 DEF SettleCompleted, SettleFailed, Take
<1>3. slot[s].pc \in {"idle", "settle"} /\ (slot'[s].pc = "idle" \/ proc[ProcOf[s]] = "up")
  <2>1. CASE SettleCompleted(s) \/ SettleFailed(s)
    BY <1>1, <2>1 DEF SettleCompleted, SettleFailed, Idle
  <2>2. CASE \E j \in Jobs : Take(s, j)
    BY <2>2 DEF Take
  <2> QED
    BY <2>1, <2>2
<1>4. \A f \in Feeds : feedLock[f] # s
  BY <1>3, QueueAssumption DEF ReleaseInv, LockReleased
<1> QED
  BY <1>1, <1>2, <1>3, <1>4 DEF ReleaseInv, LockReleased, DownIdle

\* PostgreSQL frees the locks of a process that ends.
LEMMA ReleaseProcess ==
  ASSUME IInv, ReleaseInv, NEW p \in Procs, Process(p)
  PROVE  ReleaseInv'
<1>1. /\ slot \in [Slots -> Slot] /\ feedLock \in [Feeds -> Slots \cup {None}]
      /\ proc \in [Procs -> {"up", "closing", "down"}]
  BY DEF IInv, TypeOK
<1>2. CASE Shutdown(p) \/ Restart(p)
  BY <1>1, <1>2, QueueAssumption DEF Shutdown, Restart, ReleaseInv, LockReleased, DownIdle
<1>3. CASE Die(p)
  <2>1. \A s \in Slots : slot'[s] = IF ProcOf[s] = p THEN Idle ELSE slot[s]
    BY <1>3, QueueAssumption DEF Die
  <2>2. \A f \in Feeds : feedLock'[f] # None =>
          feedLock'[f] = feedLock[f] /\ feedLock[f] \in Slots /\ ProcOf[feedLock[f]] # p
    BY <1>1, <1>3 DEF Die
  <2>3. proc' = [proc EXCEPT ![p] = "down"]
    BY <1>3 DEF Die
  <2>4. LockReleased'
    BY <1>1, <2>1, <2>2, <2>3, QueueAssumption DEF ReleaseInv, LockReleased
  <2>5. DownIdle'
    BY <1>1, <2>1, <2>3, QueueAssumption DEF ReleaseInv, DownIdle, Idle
  <2> QED
    BY <2>4, <2>5 DEF ReleaseInv
<1> QED
  BY <1>2, <1>3 DEF Process, Crash, Exit

\* Time moves no lock.
LEMMA ReleaseTick ==
  ASSUME IInv, ReleaseInv, NEW lost \in SUBSET Jobs, Tick(lost)
  PROVE  ReleaseInv'
<1>1. UNCHANGED <<feedLock, proc>> /\ feedLock \in [Feeds -> Slots \cup {None}]
  BY DEF Tick, IInv, TypeOK
<1>2. \A s \in Slots : slot'[s].pc = slot[s].pc /\ slot'[s].job = slot[s].job
  BY DEF Tick, IInv, TypeOK, Slot
<1> QED
  BY <1>1, <1>2 DEF ReleaseInv, LockReleased, DownIdle

\* Steps of the producers, of BullMQ and of recovery passes leave locks alone.
LEMMA ReleaseOther ==
  ASSUME ReleaseInv, UNCHANGED <<feedLock, proc, slot>>
  PROVE  ReleaseInv'
  BY DEF ReleaseInv, LockReleased, DownIdle

\* No step leaves a lock behind as long as statements succeed.
LEMMA ReleaseNext == ~DbErrors /\ IInv /\ ReleaseInv /\ [Next]_vars => ReleaseInv'
<1> SUFFICES ASSUME ~DbErrors, IInv, ReleaseInv, [Next]_vars PROVE ReleaseInv'
  OBVIOUS
<1>1. CASE \E j \in Jobs : Produce(j) \/ Promote(j)
  BY <1>1, ReleaseOther DEF Produce, ScheduledAdd, RunNow, ManualAdd, ManualUpsert,
     ManualUpsertError, Promote
<1>2. CASE \E j \in Jobs, p \in Procs : Stalled(j, p) \/ MarkFailed(j, p) \/ MarkFailedError(j, p)
  BY <1>2, ReleaseOther DEF Stalled, MarkFailed, MarkFailedError
<1>3. CASE \E s \in Slots : Work(s) \/ Import(s) \/ WorkError(s)
  BY <1>3, ReleaseHandler, ReleaseSlot DEF Work
<1>4. CASE \E s \in Slots, j \in Jobs : Take(s, j)
  BY <1>4, ReleaseSlot
<1>5. CASE \E p \in Procs : Process(p)
  BY <1>5, ReleaseProcess
<1>6. CASE \E h \in Recoverers : RecoveryStep(h) \/ \E full \in BOOLEAN : ScanStale(h, full)
  BY <1>6, ReleaseOther DEF RecoveryStep, ScanStale, FailRow, MoveToFailed, Purge, Decide,
     EndPeriodic, ScanActive, ScanRemaining, ScanLocks, ScanQueued, EndFull
<1>7. CASE \E lost \in SUBSET Jobs : Tick(lost)
  BY <1>7, ReleaseTick
<1>8. CASE UNCHANGED vars
  BY <1>8, ReleaseOther DEF vars
<1> QED
  BY <1>1, <1>2, <1>3, <1>4, <1>5, <1>6, <1>7, <1>8 DEF Next

\* While statements succeed, a feed's advisory lock is held only by a handler
\* between acquireFeedSyncLock and release, on its own feed, in a live process:
\* crashes, shutdowns and recovery passes leave no phantom lock.
THEOREM LocksReleased ==
  ASSUME ~DbErrors
  PROVE  Spec => []LockReleased
<1>1. ReleaseInv => LockReleased
  BY DEF ReleaseInv
<1>2. IInv /\ ReleaseInv /\ [Next]_vars => ReleaseInv'
  BY ReleaseNext
<1> QED
  BY InitIInv, NextIInv, ReleaseInit, <1>1, <1>2, PTL DEF Spec

------------------------------------------------------------------------------
(* The ceiling, when no recovery pass takes a job away from its worker *)

\* A handler's job is locked with the handler's token.
HandlerHasToken == \A s \in Slots : slot[s].pc # "idle" => HasToken(s)

\* BullMQ's global concurrency.
ActiveBounded == IsFiniteSet(Active) /\ Cardinality(Active) <= GlobalConcurrency

CeilingInv == HandlerHasToken /\ ActiveBounded

\* Fewer active jobs keep the bound.
LEMMA FewerActive ==
  ASSUME ActiveBounded, Active' \subseteq Active
  PROVE  ActiveBounded'
<1>1. IsFiniteSet(Active') /\ Cardinality(Active') <= Cardinality(Active)
  BY FS_Subset DEF ActiveBounded
<1>2. Cardinality(Active') \in Nat /\ Cardinality(Active) \in Nat
  BY <1>1, FS_CardinalityType DEF ActiveBounded
<1> QED
  BY <1>1, <1>2, QueueAssumption DEF ActiveBounded

\* Nothing is active at the start.
LEMMA CeilingInit == Init => CeilingInv
<1> SUFFICES ASSUME Init PROVE CeilingInv
  OBVIOUS
<1>1. Active = {}
  BY DEF Init, Active
<1>2. ActiveBounded
  BY <1>1, FS_EmptySet, QueueAssumption DEF ActiveBounded
<1> QED
  BY <1>2 DEF Init, CeilingInv, HandlerHasToken, Idle

\* Steps that leave the slots alone, and every job that has a token.
LEMMA CeilingQueue ==
  ASSUME IInv, TokenInv, CeilingInv, UNCHANGED slot,
         \A j \in Jobs : /\ bull[j].owner # None => bull'[j] = bull[j]
                         /\ bull'[j].state = "active" => bull[j].state = "active"
  PROVE  CeilingInv'
<1>1. Active' \subseteq Active
  BY DEF Active
<1>2. HandlerHasToken'
  BY QueueAssumption DEF CeilingInv, HandlerHasToken, HasToken, IInv, HandlerHoldsLock
<1> QED
  BY <1>1, <1>2, FewerActive DEF CeilingInv

\* Producers and promotion put jobs into the waiting list only.
LEMMA CeilingProducer ==
  ASSUME IInv, TokenInv, CeilingInv, NEW j \in Jobs, Produce(j) \/ Promote(j)
  PROVE  CeilingInv'
<1>1. bull \in [Jobs -> Bull]
  BY DEF IInv, TypeOK
<1>2. UNCHANGED slot
  BY DEF Produce, ScheduledAdd, RunNow, ManualAdd, ManualUpsert, ManualUpsertError, Promote
<1>3. CASE ScheduledAdd(j) \/ ManualAdd(j) \/ Promote(j)
  <2>1. bull[j].owner = None
    BY <1>3 DEF TokenInv, TokenOfWorker, CheckedAbsent, ScheduledAdd, ManualAdd, Promote
  <2>2. bull'[j].state = "waiting" /\ \A k \in Jobs \ {j} : bull'[k] = bull[k]
    BY <1>1, <1>3 DEF ScheduledAdd, ManualAdd, Promote, Bull
  <2> QED
    BY <1>2, <2>1, <2>2, CeilingQueue
<1>4. CASE UNCHANGED bull
  BY <1>2, <1>4, CeilingQueue
<1> QED
  BY <1>3, <1>4 DEF Produce, RunNow, ManualUpsert, ManualUpsertError

\* The stalled check only takes jobs off the active list.
LEMMA CeilingStalled ==
  ASSUME IInv, TokenInv, CeilingInv, NEW j \in Jobs, NEW p \in Procs,
         Stalled(j, p) \/ MarkFailed(j, p) \/ MarkFailedError(j, p)
  PROVE  CeilingInv'
<1>1. bull \in [Jobs -> Bull] /\ UNCHANGED slot
  BY DEF IInv, TypeOK, Stalled, MarkFailed, MarkFailedError
<1>2. \A k \in Jobs : /\ bull[k].owner # None => bull'[k] = bull[k]
                      /\ bull'[k].state = "active" => bull[k].state = "active"
  BY <1>1 DEF Stalled, MarkFailed, MarkFailedError, Bull
<1> QED
  BY <1>1, <1>2, CeilingQueue

\* A handler keeps its token while it goes on.
LEMMA CeilingHandler ==
  ASSUME IInv, CeilingInv, NEW s \in Slots,
         \/ RefuseShutdown(s) \/ SkipBusy(s) \/ MarkRunning(s) \/ TimeoutFires(s)
         \/ DrainEnds(s) \/ MarkDone(s) \/ Import(s) \/ WorkError(s)
         \/ TryFeedLock(s) \/ ReleaseFeedLock(s)
  PROVE  CeilingInv'
<1>1. /\ slot[s].pc # "idle" /\ slot'[s].pc # "idle"
      /\ slot'[s].job = slot[s].job
      /\ \A t \in Slots \ {s} : slot'[t] = slot[t]
      /\ UNCHANGED bull
  BY HandlerFrame
<1>2. ActiveBounded'
  BY <1>1, FewerActive DEF CeilingInv, Active
<1> QED
  BY <1>1, <1>2 DEF CeilingInv, HandlerHasToken, HasToken

\* The guard of Take keeps the bound, and the job it takes had no token.
LEMMA CeilingTake ==
  ASSUME IInv, TokenInv, CeilingInv, NEW s \in Slots, NEW j \in Jobs, Take(s, j)
  PROVE  CeilingInv'
<1>1. bull \in [Jobs -> Bull] /\ slot \in [Slots -> Slot]
  BY DEF IInv, TypeOK
<1>2. slot'[s].job = j /\ \A t \in Slots \ {s} : slot'[t] = slot[t]
  BY <1>1 DEF Take, Slot
<1>3. /\ bull'[j].owner = s /\ bull'[j].state = "active"
      /\ \A k \in Jobs \ {j} : bull'[k] = bull[k]
  BY <1>1 DEF Take, Bull
<1>4. bull[j].owner = None /\ j \notin Active
  BY DEF Take, TokenInv, TokenOfWorker, Active
<1>5. HandlerHasToken'
  BY <1>2, <1>3, <1>4, QueueAssumption
  DEF CeilingInv, HandlerHasToken, HasToken, IInv, HandlerHoldsLock
<1>6. Active' = Active \cup {j}
  BY <1>3 DEF Active
<1>7. IsFiniteSet(Active') /\ Cardinality(Active') = Cardinality(Active) + 1
  BY <1>4, <1>6, FS_AddElement DEF CeilingInv, ActiveBounded
<1>8. Cardinality(Active) \in Nat /\ Cardinality(Active) < GlobalConcurrency
  BY FS_CardinalityType DEF CeilingInv, ActiveBounded, Take
<1>9. ActiveBounded'
  BY <1>7, <1>8, QueueAssumption DEF ActiveBounded
<1> QED
  BY <1>5, <1>9 DEF CeilingInv

\* A slot that reports takes its own job off the active list.
LEMMA CeilingSettle ==
  ASSUME IInv, TokenInv, CeilingInv, NEW s \in Slots, SettleCompleted(s) \/ SettleFailed(s)
  PROVE  CeilingInv'
<1> DEFINE j == slot[s].job
<1>1. bull \in [Jobs -> Bull] /\ slot \in [Slots -> Slot] /\ j \in Jobs
  BY DEF IInv, TypeOK, HandlerHoldsLock, SettleCompleted, SettleFailed
<1>2. slot'[s].pc = "idle" /\ \A t \in Slots \ {s} : slot'[t] = slot[t]
  BY <1>1 DEF SettleCompleted, SettleFailed, Idle
<1>3. bull[j].owner = s
  BY DEF CeilingInv, HandlerHasToken, HasToken, SettleCompleted, SettleFailed
<1>4. \A k \in Jobs \ {j} : bull'[k] = bull[k]
  BY <1>1 DEF SettleCompleted, SettleFailed
<1>5. \A t \in Slots \ {s} : slot[t].pc # "idle" => slot[t].job \in Jobs \ {j}
  BY <1>3 DEF CeilingInv, HandlerHasToken, HasToken, IInv, HandlerHoldsLock
<1>6. HandlerHasToken'
  BY <1>2, <1>4, <1>5 DEF CeilingInv, HandlerHasToken, HasToken
<1>7. bull[j].state = "active"
  BY <1>1, <1>3, QueueAssumption DEF TokenInv, TokenOfWorker
<1>8. Active' \subseteq Active
  BY <1>1, <1>4, <1>7 DEF Active
<1> QED
  BY <1>6, <1>8, FewerActive DEF CeilingInv

\* A process that ends gives up tokens and handlers together.
LEMMA CeilingProcess ==
  ASSUME IInv, CeilingInv, NEW p \in Procs, Process(p)
  PROVE  CeilingInv'
<1>1. bull \in [Jobs -> Bull] /\ slot \in [Slots -> Slot]
  BY DEF IInv, TypeOK
<1>2. CASE Shutdown(p) \/ Restart(p)
  <2>1. UNCHANGED <<bull, slot>>
    BY <1>2 DEF Shutdown, Restart
  <2>2. ActiveBounded'
    BY <2>1, FewerActive DEF CeilingInv, Active
  <2> QED
    BY <2>1, <2>2 DEF CeilingInv, HandlerHasToken, HasToken
<1>3. CASE Die(p)
  <2>1. \A s \in Slots : slot'[s] = IF ProcOf[s] = p THEN Idle ELSE slot[s]
    BY <1>3, QueueAssumption DEF Die
  <2>2. \A j \in Jobs : /\ bull'[j].state = bull[j].state
                        /\ bull'[j].owner = IF bull[j].owner # None /\ ProcOf[bull[j].owner] = p
                                            THEN None ELSE bull[j].owner
    BY <1>1, <1>3 DEF Die, Bull
  <2>3. HandlerHasToken'
    BY <2>1, <2>2, QueueAssumption
    DEF CeilingInv, HandlerHasToken, HasToken, IInv, HandlerHoldsLock, Idle
  <2>4. Active' \subseteq Active
    BY <2>2 DEF Active
  <2> QED
    BY <2>3, <2>4, FewerActive DEF CeilingInv
<1> QED
  BY <1>2, <1>3 DEF Process, Crash, Exit

\* Time moves neither tokens nor lists.
LEMMA CeilingTick ==
  ASSUME IInv, CeilingInv, NEW lost \in SUBSET Jobs, Tick(lost)
  PROVE  CeilingInv'
<1>1. UNCHANGED bull
  BY DEF Tick
<1>2. \A s \in Slots : slot'[s].pc = slot[s].pc /\ slot'[s].job = slot[s].job
  BY DEF Tick, IInv, TypeOK, Slot
<1>3. ActiveBounded'
  BY <1>1, FewerActive DEF CeilingInv, Active
<1> QED
  BY <1>1, <1>2, <1>3 DEF CeilingInv, HandlerHasToken, HasToken

\* No step of producers, workers or BullMQ breaks the ceiling's invariant.
LEMMA CeilingNext ==
  Recoverers = {} /\ IInv /\ TokenInv /\ CeilingInv /\ [Next]_vars => CeilingInv'
<1> SUFFICES ASSUME Recoverers = {}, IInv, TokenInv, CeilingInv, [Next]_vars
             PROVE  CeilingInv'
  OBVIOUS
<1>1. CASE \E j \in Jobs : Produce(j) \/ Promote(j)
  BY <1>1, CeilingProducer
<1>2. CASE \E j \in Jobs, p \in Procs : Stalled(j, p) \/ MarkFailed(j, p) \/ MarkFailedError(j, p)
  BY <1>2, CeilingStalled
<1>3. CASE \E s \in Slots : Work(s) \/ Import(s) \/ WorkError(s)
  BY <1>3, CeilingHandler, CeilingSettle DEF Work
<1>4. CASE \E s \in Slots, j \in Jobs : Take(s, j)
  BY <1>4, CeilingTake
<1>5. CASE \E p \in Procs : Process(p)
  BY <1>5, CeilingProcess
<1>6. CASE \E lost \in SUBSET Jobs : Tick(lost)
  BY <1>6, CeilingTick
<1>7. CASE UNCHANGED vars
  <2>1. UNCHANGED <<bull, slot>>
    BY <1>7 DEF vars
  <2> QED
    BY <2>1, CeilingQueue
<1> QED
  BY <1>1, <1>2, <1>3, <1>4, <1>5, <1>6, <1>7 DEF Next

\* Slots that import have jobs of their own in the active list.
LEMMA CeilingHolds == IInv /\ TokenInv /\ CeilingInv => SyncCeiling
<1> SUFFICES ASSUME IInv, TokenInv, CeilingInv PROVE SyncCeiling
  OBVIOUS
<1> DEFINE S == {s \in Slots : Importing(s)}
           job == [s \in S |-> slot[s].job]
<1>1. \A s \in S : slot[s].job \in Jobs /\ bull[slot[s].job].owner = s
  BY DEF CeilingInv, HandlerHasToken, HasToken, IInv, HandlerHoldsLock, Importing
<1>2. \A s \in S : slot[s].job \in Active
  BY <1>1, QueueAssumption DEF TokenInv, TokenOfWorker, Active
<1>3. job \in Injection(S, Active)
  BY <1>1, <1>2 DEF Injection, IsInjective
<1> HIDE DEF S, job
<1>4. IsFiniteSet(Active) /\ Cardinality(Active) <= GlobalConcurrency
  BY DEF CeilingInv, ActiveBounded
<1>5. IsFiniteSet(S) /\ Cardinality(S) <= Cardinality(Active)
  BY <1>3, <1>4, FS_Injection
<1>6. Cardinality(S) \in Nat /\ Cardinality(Active) \in Nat
  BY <1>4, <1>5, FS_CardinalityType
<1>7. Cardinality(S) <= GlobalConcurrency
  BY <1>4, <1>5, <1>6, QueueAssumption
<1> QED
  BY <1>7 DEF SyncCeiling, S

\* Without recovery passes no more than FEED_SYNC_CONCURRENCY imports run at the
\* same time, whatever workers crash, stall or retry (worker.js 42-47).
THEOREM Ceiling ==
  ASSUME Recoverers = {}
  PROVE  Spec => []SyncCeiling
<1>1. IInv /\ TokenInv /\ CeilingInv /\ [Next]_vars => CeilingInv'
  BY CeilingNext
<1> QED
  BY InitIInv, NextIInv, TokenInit, TokenNext, CeilingInit, CeilingHolds, <1>1, PTL
  DEF Spec

------------------------------------------------------------------------------
(* The first attempt of a job, when no statement fails *)

\* No attempt of the job has failed and BullMQ never took it back.
FirstTry(j) == bull[j].made = 0 /\ bull[j].stalls = 0

\* A job on its first attempt waits with no started_at, and is in one slot only.
FirstTryOnce ==
  \A j \in Jobs : FirstTry(j) =>
    /\ bull[j].state # "delayed"
    /\ bull[j].state \in {"absent", "waiting"} =>
         ~row[j].begun /\ \A s \in Slots : slot[s].job # j
    /\ \A s, t \in Slots : slot[s].job = j /\ slot[t].job = j => s = t

\* The timer of executeJobWithTimeout runs during the import only.
TimerOff == \A s \in Slots : slot[s].pc # "running" => slot[s].ran = 0

\* started_at is not set before markJobRunning and is no older than the timer;
\* the heartbeats keep up.
FirstTryAge ==
  \A s \in Slots : slot[s].job \in Jobs /\ FirstTry(slot[s].job) =>
    /\ slot[s].pc \in {"taken", "busy", "locked"} => ~row[slot[s].job].begun
    /\ slot[s].pc = "running" => /\ row[slot[s].job].age <= slot[s].ran
                                 /\ slot[s].ran <= JobTimeout
                                 /\ row[slot[s].job].quiet = 0

FirstInv == FirstTryOnce /\ TimerOff /\ FirstTryAge

\* Every job starts on its first attempt, without a row.
LEMMA FirstInit == Init => FirstInv
  BY QueueAssumption DEF Init, FirstInv, FirstTryOnce, TimerOff, FirstTryAge, Idle, NoRow

\* An UPDATE of the status keeps started_at.
LEMMA WithStatusKeeps ==
  ASSUME NEW r \in Row, NEW st
  PROVE  /\ WithStatus(r, st).begun = r.begun
         /\ WithStatus(r, st).age = r.age
         /\ WithStatus(r, st).quiet \in {r.quiet, 0}
  BY DEF WithStatus, Row

\* Steps that end handlers or leave them alone, age no row and send no job on
\* its first attempt back to the queue.
LEMMA FirstFrame ==
  ASSUME IInv, FirstInv,
         \A s \in Slots : slot'[s] \in {slot[s], Idle},
         \A j \in Jobs :
           /\ FirstTry(j)' => /\ FirstTry(j)
                              /\ bull'[j].state # "delayed"
                              /\ bull'[j].state \in {"absent", "waiting"}
                                   => bull[j].state \in {"absent", "waiting"}
           /\ row'[j].begun => row[j].begun
           /\ row'[j].age = row[j].age \/ row'[j].age = 0
           /\ row'[j].quiet \in {row[j].quiet, 0}
  PROVE  FirstInv'
<1>1. \A s \in Slots : /\ slot[s].ran \in Nat
                       /\ Idle.job = None /\ Idle.pc = "idle" /\ Idle.ran = 0
  BY DEF IInv, TypeOK, Slot, Idle
<1>2. FirstTryOnce'
  BY <1>1, QueueAssumption DEF FirstInv, FirstTryOnce
<1>3. TimerOff'
  BY <1>1 DEF FirstInv, TimerOff
<1>4. FirstTryAge'
  <2> SUFFICES ASSUME NEW s \in Slots, slot'[s].job \in Jobs, FirstTry(slot[s].job)'
               PROVE  /\ slot'[s].pc \in {"taken", "busy", "locked"}
                           => ~row'[slot'[s].job].begun
                      /\ slot'[s].pc = "running" => /\ row'[slot'[s].job].age <= slot'[s].ran
                                                    /\ slot'[s].ran <= JobTimeout
                                                    /\ row'[slot'[s].job].quiet = 0
    BY DEF FirstTryAge
  <2>1. slot'[s] = slot[s]
    BY <1>1, QueueAssumption
  <2>2. FirstTry(slot[s].job) /\ slot[s].job \in Jobs
    BY <2>1
  <2> QED
    BY <1>1, <2>1, <2>2 DEF FirstInv, FirstTryAge
<1> QED
  BY <1>2, <1>3, <1>4 DEF FirstInv

\* Adding a job starts its first attempt; the upsert of run-now clears started_at.
LEMMA FirstProducer ==
  ASSUME IInv, TokenInv, FirstInv, NEW j \in Jobs, Produce(j) \/ Promote(j)
  PROVE  FirstInv'
<1>1. bull \in [Jobs -> Bull] /\ row \in [Jobs -> Row]
  BY DEF IInv, TypeOK
<1>2. UNCHANGED slot
  BY DEF Produce, ScheduledAdd, RunNow, ManualAdd, ManualUpsert, ManualUpsertError, Promote
<1>3. CASE ScheduledAdd(j) \/ ManualAdd(j) \/ Promote(j)
  <2>1. /\ bull'[j].state = "waiting" /\ bull'[j].made = bull[j].made
        /\ bull'[j].stalls = bull[j].stalls
        /\ \A k \in Jobs \ {j} : bull'[k] = bull[k]
    BY <1>1, <1>3 DEF ScheduledAdd, ManualAdd, Promote, Bull
  <2>2. FirstTry(j) => bull[j].state \in {"absent", "waiting"}
    BY <1>3 DEF ScheduledAdd, ManualAdd, Promote, TokenInv, CheckedAbsent, FirstInv, FirstTryOnce
  <2>3. UNCHANGED row
    BY <1>3 DEF ScheduledAdd, ManualAdd, Promote
  <2> QED
    BY <1>2, <2>1, <2>2, <2>3, FirstFrame DEF FirstTry, FirstInv, FirstTryOnce
<1>4. CASE RunNow(j) \/ ManualUpsert(j) \/ ManualUpsertError(j)
  <2>1. UNCHANGED bull
    BY <1>4 DEF RunNow, ManualUpsert, ManualUpsertError
  <2>2. \A k \in Jobs : row'[k] = row[k] \/ row'[k] = [NoRow EXCEPT !.status = "queued"]
    BY <1>1, <1>4 DEF RunNow, ManualUpsert, ManualUpsertError
  <2>3. \A k \in Jobs : /\ row'[k].begun => row[k].begun
                        /\ row'[k].age = row[k].age \/ row'[k].age = 0
                        /\ row'[k].quiet \in {row[k].quiet, 0}
    BY <2>2 DEF NoRow
  <2> QED
    BY <1>2, <2>1, <2>3, FirstFrame DEF FirstTry, FirstInv, FirstTryOnce
<1> QED
  BY <1>3, <1>4 DEF Produce

\* A job that is taken back is not on its first attempt any more.
LEMMA FirstQueue ==
  ASSUME IInv, FirstInv, NEW j \in Jobs, NEW p \in Procs,
         Stalled(j, p) \/ MarkFailed(j, p) \/ MarkFailedError(j, p)
  PROVE  FirstInv'
<1>1. bull \in [Jobs -> Bull] /\ bull[j] \in Bull /\ row \in [Jobs -> Row] /\ UNCHANGED slot
  BY DEF IInv, TypeOK, Stalled, MarkFailed, MarkFailedError
<1>2. \A k \in Jobs : bull'[k] = bull[k] \/ bull'[k].stalls # 0
  <2>1. CASE Stalled(j, p)
    <3>1. bull'[j].stalls = bull[j].stalls + 1 /\ bull[j].stalls \in Nat
      BY <1>1, <2>1 DEF Stalled, Bull
    <3> QED
      BY <1>1, <2>1, <3>1 DEF Stalled
  <2>2. CASE MarkFailed(j, p) \/ MarkFailedError(j, p)
    BY <2>2 DEF MarkFailed, MarkFailedError
  <2> QED
    BY <2>1, <2>2
<1>3. \A k \in Jobs : row'[k] \in {row[k], WithStatus(row[k], "failed")}
  BY <1>1 DEF Stalled, MarkFailed, MarkFailedError
<1>4. \A k \in Jobs : /\ row'[k].begun = row[k].begun
                      /\ row'[k].age = row[k].age
                      /\ row'[k].quiet \in {row[k].quiet, 0}
  BY <1>1, <1>3, WithStatusKeeps
<1> QED
  BY <1>1, <1>2, <1>4, FirstFrame DEF FirstTry, FirstInv, FirstTryOnce

\* A failed attempt was not the last word; a completed job never comes back.
LEMMA FirstSettle ==
  ASSUME IInv, TokenInv, FirstInv, NEW s \in Slots, SettleCompleted(s) \/ SettleFailed(s)
  PROVE  FirstInv'
<1> DEFINE j == slot[s].job
<1>1. bull \in [Jobs -> Bull] /\ slot \in [Slots -> Slot] /\ j \in Jobs /\ UNCHANGED row
  BY DEF IInv, TypeOK, HandlerHoldsLock, SettleCompleted, SettleFailed
<1>2. \A t \in Slots : slot'[t] \in {slot[t], Idle}
  BY <1>1 DEF SettleCompleted, SettleFailed
<1>3. /\ \A k \in Jobs \ {j} : bull'[k] = bull[k]
      /\ \/ bull'[j] = bull[j]
         \/ bull'[j].made # 0
         \/ /\ bull'[j].state = "completed" /\ bull'[j].made = bull[j].made
            /\ bull'[j].stalls = bull[j].stalls
  <2>1. CASE SettleCompleted(s)
    BY <1>1, <2>1 DEF SettleCompleted, Bull
  <2>2. CASE SettleFailed(s)
    <3>1. Failed(j, bull[j]).made = bull[j].made + 1 /\ bull[j].made \in Nat
      BY <1>1 DEF Failed, Bull
    <3> QED
      BY <1>1, <2>2, <3>1 DEF SettleFailed
  <2> QED
    BY <2>1, <2>2
<1> QED
  BY <1>1, <1>2, <1>3, FirstFrame DEF FirstTry, FirstInv, FirstTryOnce

\* A process that ends leaves started_at and the counters alone.
LEMMA FirstProcess ==
  ASSUME IInv, FirstInv, NEW p \in Procs, Process(p)
  PROVE  FirstInv'
<1>1. UNCHANGED row /\ bull \in [Jobs -> Bull] /\ slot \in [Slots -> Slot]
  BY DEF IInv, TypeOK, Process, Crash, Exit, Die, Shutdown, Restart
<1>2. \A s \in Slots : slot'[s] \in {slot[s], Idle}
  BY <1>1 DEF Process, Crash, Exit, Die, Shutdown, Restart
<1>3. \A j \in Jobs : /\ bull'[j].state = bull[j].state
                      /\ bull'[j].made = bull[j].made
                      /\ bull'[j].stalls = bull[j].stalls
  BY <1>1 DEF Process, Crash, Exit, Die, Shutdown, Restart, Bull
<1> QED
  BY <1>1, <1>2, <1>3, FirstFrame DEF FirstTry, FirstInv, FirstTryOnce

\* A pass fails an attempt or drops the job; neither sends it back unretried.
LEMMA FirstRecovery ==
  ASSUME IInv, FirstInv, NEW h \in Recoverers,
         RecoveryStep(h) \/ \E full \in BOOLEAN : ScanStale(h, full)
  PROVE  FirstInv'
<1>1. bull \in [Jobs -> Bull] /\ row \in [Jobs -> Row]
  BY DEF IInv, TypeOK
<1>2. UNCHANGED slot
  BY DEF RecoveryStep, ScanStale, FailRow, MoveToFailed, Purge, Decide, EndPeriodic,
     ScanActive, ScanRemaining, ScanLocks, ScanQueued, EndFull
<1>3. \A k \in Jobs : row'[k] \in {row[k], WithStatus(row[k], "failed")}
  BY <1>1 DEF RecoveryStep, ScanStale, FailRow, MoveToFailed, Purge, Decide, EndPeriodic,
     ScanActive, ScanRemaining, ScanLocks, ScanQueued, EndFull
<1>4. \A k \in Jobs : bull'[k] \in {bull[k], Failed(k, bull[k]), Purged(bull[k])}
  BY <1>1 DEF RecoveryStep, ScanStale, FailRow, MoveToFailed, Purge, Decide, EndPeriodic,
     ScanActive, ScanRemaining, ScanLocks, ScanQueued, EndFull
<1>5. \A k \in Jobs : /\ row'[k].begun = row[k].begun
                      /\ row'[k].age = row[k].age
                      /\ row'[k].quiet \in {row[k].quiet, 0}
  BY <1>1, <1>3, WithStatusKeeps
<1>6. \A k \in Jobs : Failed(k, bull[k]).made # 0
  BY <1>1 DEF Failed, Bull
<1>7. \A k \in Jobs : /\ Purged(bull[k]).made = bull[k].made
                      /\ Purged(bull[k]).stalls = bull[k].stalls
                      /\ Purged(bull[k]).state \in {bull[k].state, "limbo"}
  BY <1>1 DEF Purged, Bull
<1> QED
  BY <1>2, <1>4, <1>5, <1>6, <1>7, FirstFrame DEF FirstTry, FirstInv, FirstTryOnce

\* A job taken for its first attempt has no started_at and no other slot.
LEMMA FirstTake ==
  ASSUME IInv, TokenInv, FirstInv, NEW s \in Slots, NEW j \in Jobs, Take(s, j)
  PROVE  FirstInv'
<1>1. bull \in [Jobs -> Bull] /\ slot \in [Slots -> Slot] /\ UNCHANGED row
  BY DEF IInv, TypeOK, Take
<1>2. /\ slot'[s].pc = "taken" /\ slot'[s].job = j /\ slot'[s].ran = 0
      /\ \A t \in Slots \ {s} : slot'[t] = slot[t]
  BY <1>1 DEF Take, Slot, TokenInv, IdleSlots
<1>3. /\ bull[j].state = "waiting" /\ bull'[j].state = "active"
      /\ bull'[j].made = bull[j].made /\ bull'[j].stalls = bull[j].stalls
      /\ \A k \in Jobs \ {j} : bull'[k] = bull[k]
  BY <1>1 DEF Take, Bull
<1>4. FirstTryOnce'
  BY <1>1, <1>2, <1>3 DEF FirstInv, FirstTryOnce, FirstTry
<1>5. TimerOff'
  BY <1>2 DEF FirstInv, TimerOff
<1>6. FirstTryAge'
  BY <1>1, <1>2, <1>3 DEF FirstInv, FirstTryOnce, FirstTryAge, FirstTry
<1> QED
  BY <1>4, <1>5, <1>6 DEF FirstInv

\* A handler that goes on, short of markJobRunning.
LEMMA FirstHandler ==
  ASSUME IInv, FirstInv, NEW s \in Slots,
         \/ RefuseShutdown(s) \/ SkipBusy(s) \/ TimeoutFires(s)
         \/ DrainEnds(s) \/ MarkDone(s) \/ Import(s) \/ WorkError(s)
         \/ TryFeedLock(s) \/ ReleaseFeedLock(s)
  PROVE  FirstInv'
<1>1. /\ slot[s].pc # "idle"
      /\ slot'[s].job = slot[s].job
      /\ \A t \in Slots \ {s} : slot'[t] = slot[t]
      /\ UNCHANGED bull
  BY HandlerFrame
<1>2. slot \in [Slots -> Slot] /\ row \in [Jobs -> Row] /\ slot[s].job \in Jobs
  BY <1>1 DEF IInv, TypeOK, HandlerHoldsLock
<1>3. \A k \in Jobs : /\ row'[k].begun = row[k].begun
                      /\ row'[k].age = row[k].age
                      /\ row'[k].quiet \in {row[k].quiet, 0}
  <2>1. \A k \in Jobs : row'[k] = row[k] \/ \E st : row'[k] = WithStatus(row[k], st)
    BY <1>2 DEF RefuseShutdown, SkipBusy, TimeoutFires, DrainEnds, MarkDone, Import,
       ImportThrows, ImportReturns, WorkError, FeedLockError, MarkRunningError,
       MarkDoneError, TryFeedLock, ReleaseFeedLock
  <2> QED
    BY <1>2, <2>1, WithStatusKeeps
<1>4. /\ slot'[s].pc # "running"
      /\ slot'[s].pc \in {"taken", "busy", "locked"} => slot[s].pc = "taken"
      /\ slot'[s].ran \in {0, slot[s].ran}
      /\ slot[s].pc = "running" => slot'[s].ran = 0
  <2>1. CASE RefuseShutdown(s) \/ TimeoutFires(s) \/ WorkError(s) \/ Import(s)
    BY <1>2, <2>1 DEF Slot, RefuseShutdown, TimeoutFires, WorkError, FeedLockError,
       MarkRunningError, MarkDoneError, Import, ImportThrows, ImportReturns, Throw
  <2>2. CASE \/ SkipBusy(s) \/ DrainEnds(s) \/ MarkDone(s)
             \/ TryFeedLock(s) \/ ReleaseFeedLock(s)
    BY <1>2, <2>2 DEF Slot, SkipBusy, DrainEnds, MarkDone, TryFeedLock, ReleaseFeedLock, Goto
  <2> QED
    BY <2>1, <2>2
<1>5. FirstTryOnce'
  BY <1>1, <1>3 DEF FirstInv, FirstTryOnce, FirstTry
<1>6. TimerOff'
  BY <1>1, <1>4 DEF FirstInv, TimerOff
<1>7. FirstTryAge'
  BY <1>1, <1>3, <1>4 DEF FirstInv, FirstTryAge, FirstTry
<1> QED
  BY <1>5, <1>6, <1>7 DEF FirstInv

\* The first markJobRunning of a job sets started_at as the timer starts.
LEMMA FirstMarkRunning ==
  ASSUME IInv, FirstInv, NEW s \in Slots, MarkRunning(s)
  PROVE  FirstInv'
<1> DEFINE j == slot[s].job
<1>1. /\ slot[s].pc = "locked"
      /\ slot'[s].job = j
      /\ \A t \in Slots \ {s} : slot'[t] = slot[t]
      /\ UNCHANGED bull
  BY HandlerFrame DEF MarkRunning
<1>2. slot \in [Slots -> Slot] /\ row \in [Jobs -> Row] /\ j \in Jobs
  BY <1>1 DEF IInv, TypeOK, HandlerHoldsLock
<1>3. slot'[s].pc = "running" /\ slot'[s].ran = 0
  BY <1>1, <1>2 DEF MarkRunning, Goto, Slot, FirstInv, TimerOff
<1>4. \A k \in Jobs \ {j} : row'[k] = row[k]
  BY <1>2 DEF MarkRunning
<1>5. FirstTry(j) => row'[j].age = 0 /\ row'[j].quiet = 0
  BY <1>1, <1>2 DEF MarkRunning, RunningRow, FirstInv, FirstTryAge
<1>6. FirstTryOnce'
  BY <1>1, <1>2, <1>4 DEF FirstInv, FirstTryOnce, FirstTry
<1>7. TimerOff'
  BY <1>1, <1>3 DEF FirstInv, TimerOff
<1>8. FirstTryAge'
  <2> SUFFICES ASSUME NEW t \in Slots, slot'[t].job \in Jobs, FirstTry(slot[t].job)'
               PROVE  /\ slot'[t].pc \in {"taken", "busy", "locked"}
                           => ~row'[slot'[t].job].begun
                      /\ slot'[t].pc = "running" => /\ row'[slot'[t].job].age <= slot'[t].ran
                                                    /\ slot'[t].ran <= JobTimeout
                                                    /\ row'[slot'[t].job].quiet = 0
    BY DEF FirstTryAge
  <2>1. CASE t = s
    BY <1>1, <1>3, <1>5, <2>1, QueueAssumption DEF FirstTry
  <2>2. CASE t # s
    <3>1. slot[t].job # j /\ FirstTry(slot[t].job) /\ slot'[t] = slot[t]
      BY <1>1, <1>2, <2>2 DEF FirstInv, FirstTryOnce, FirstTry
    <3> QED
      BY <1>4, <3>1 DEF FirstInv, FirstTryAge
  <2> QED
    BY <2>1, <2>2
<1> QED
  BY <1>6, <1>7, <1>8 DEF FirstInv

\* A tick ages a running import and its row alike, and its heartbeat arrives.
LEMMA FirstTick ==
  ASSUME IInv, FirstInv, ~DbErrors, NEW lost \in SUBSET Jobs, Tick(lost)
  PROVE  FirstInv'
<1>1. /\ slot \in [Slots -> Slot] /\ row \in [Jobs -> Row] /\ lost = {}
      /\ UNCHANGED bull
  BY DEF IInv, TypeOK, Tick
<1>2. \A s \in Slots : /\ slot'[s].pc = slot[s].pc /\ slot'[s].job = slot[s].job
                       /\ slot'[s].ran = IF slot[s].pc = "running" THEN slot[s].ran + 1
                                         ELSE slot[s].ran
  BY <1>1 DEF Tick, Slot
<1>3. \A j \in Jobs : /\ row'[j].begun = row[j].begun
                      /\ row'[j].age \in {row[j].age, Capped(row[j].age + 1, JobTimeout + 1)}
                      /\ Beating(j) => row'[j].quiet = 0
  BY <1>1 DEF Tick, Aged, Row
<1>4. \A j \in Jobs : row[j].age \in Nat /\ row'[j].age <= row[j].age + 1 /\ row'[j].age \in Nat
  BY <1>1, <1>3, QueueAssumption DEF Capped, Row
<1>5. FirstTryOnce'
  BY <1>1, <1>2, <1>3 DEF FirstInv, FirstTryOnce, FirstTry
<1>6. TimerOff'
  BY <1>2 DEF FirstInv, TimerOff
<1>7. FirstTryAge'
  <2> SUFFICES ASSUME NEW s \in Slots, slot'[s].job \in Jobs, FirstTry(slot[s].job)'
               PROVE  /\ slot'[s].pc \in {"taken", "busy", "locked"}
                           => ~row'[slot'[s].job].begun
                      /\ slot'[s].pc = "running" => /\ row'[slot'[s].job].age <= slot'[s].ran
                                                    /\ slot'[s].ran <= JobTimeout
                                                    /\ row'[slot'[s].job].quiet = 0
    BY DEF FirstTryAge
  <2>1. slot[s].job \in Jobs /\ FirstTry(slot[s].job) /\ slot[s].ran \in Nat
    BY <1>1, <1>2 DEF FirstTry, Slot
  <2>2. CASE slot[s].pc = "running"
    <3>1. slot[s].ran < JobTimeout /\ Beating(slot[s].job)
      BY <2>2 DEF Tick, Beating
    <3>2. row[slot[s].job].age <= slot[s].ran
      BY <2>1, <2>2 DEF FirstInv, FirstTryAge
    <3> QED
      BY <1>2, <1>3, <1>4, <2>1, <2>2, <3>1, <3>2, QueueAssumption
  <2>3. CASE slot[s].pc # "running"
    BY <1>2, <1>3, <2>1, <2>3 DEF FirstInv, FirstTryAge
  <2> QED
    BY <2>2, <2>3
<1> QED
  BY <1>5, <1>6, <1>7 DEF FirstInv

\* No step breaks the first attempt's invariant as long as statements succeed.
LEMMA FirstNext == ~DbErrors /\ IInv /\ TokenInv /\ FirstInv /\ [Next]_vars => FirstInv'
<1> SUFFICES ASSUME ~DbErrors, IInv, TokenInv, FirstInv, [Next]_vars PROVE FirstInv'
  OBVIOUS
<1>1. CASE \E j \in Jobs : Produce(j) \/ Promote(j)
  BY <1>1, FirstProducer
<1>2. CASE \E j \in Jobs, p \in Procs : Stalled(j, p) \/ MarkFailed(j, p) \/ MarkFailedError(j, p)
  BY <1>2, FirstQueue
<1>3. CASE \E s \in Slots : Work(s) \/ Import(s) \/ WorkError(s)
  BY <1>3, FirstHandler, FirstMarkRunning, FirstSettle DEF Work
<1>4. CASE \E s \in Slots, j \in Jobs : Take(s, j)
  BY <1>4, FirstTake
<1>5. CASE \E p \in Procs : Process(p)
  BY <1>5, FirstProcess
<1>6. CASE \E h \in Recoverers : RecoveryStep(h) \/ \E full \in BOOLEAN : ScanStale(h, full)
  BY <1>6, FirstRecovery
<1>7. CASE \E lost \in SUBSET Jobs : Tick(lost)
  BY <1>7, FirstTick
<1>8. CASE UNCHANGED vars
  BY <1>8 DEF vars, FirstInv, FirstTryOnce, TimerOff, FirstTryAge, FirstTry
<1> QED
  BY <1>1, <1>2, <1>3, <1>4, <1>5, <1>6, <1>7, <1>8 DEF Next

\* While statements succeed, an import on its job's first attempt and within its
\* timeout is never up for reclaim, even after a pass dropped its job from
\* BullMQ's lists: its heartbeats and its started_at vouch for it.
THEOREM LiveKept ==
  ASSUME ~DbErrors
  PROVE  Spec => []LiveNotReclaimed
<1>1. IInv /\ FirstInv => LiveNotReclaimed
  <2> SUFFICES ASSUME IInv, FirstInv, NEW s \in Slots, slot[s].pc = "running",
                      FirstTry(slot[s].job)
               PROVE  ~OrphanSourceLock(slot[s].job)
    BY DEF LiveNotReclaimed, FirstTry
  <2>1. slot[s].job \in Jobs /\ slot[s].ran \in Nat /\ row[slot[s].job].age \in Nat
    BY DEF IInv, TypeOK, HandlerHoldsLock, Slot, Row
  <2>2. row[slot[s].job].age <= JobTimeout /\ row[slot[s].job].quiet = 0
    BY <2>1, QueueAssumption DEF FirstInv, FirstTryAge
  <2> QED
    BY <2>1, <2>2, QueueAssumption DEF OrphanSourceLock, Reclaimable
<1>2. IInv /\ TokenInv /\ FirstInv /\ [Next]_vars => FirstInv'
  BY FirstNext
<1> QED
  BY InitIInv, NextIInv, TokenInit, TokenNext, FirstInit, <1>1, <1>2, PTL DEF Spec

==============================================================================
