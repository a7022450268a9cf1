------------------------------ MODULE JobQueue ------------------------------
(***************************************************************************)
(* What the search workers rely on in BullMQ (external): a queue hands a   *)
(* job to a free slot under a lock, takes it back when the lock lapses (a  *)
(* dead process, or a live one that was too busy to renew), and gives up   *)
(* on a job that lapses once too often.  A slot that settles a job it no   *)
(* longer holds changes nothing.  All queues here add jobs with one        *)
(* attempt, so a handler that throws ends its job.                         *)
(***************************************************************************)
EXTENDS Naturals, FiniteSets

CONSTANTS
  Slots,            \* processing slots of an export or deep-search worker
  MaxActive,        \* maxConcurrentPerUser of exports, and of deep searches
  MaxStalledCount,  \* how often BullMQ takes a job back (default 1)
  MaxStops,         \* bound: how often worker processes die
  DbErrors,         \* whether a statement, or queue.add, may fail
  None              \* no slot, no job

ASSUME QueueAssumption ==
  /\ {MaxActive, MaxStalledCount, MaxStops} \subseteq Nat
  /\ DbErrors \in BOOLEAN
  /\ None \notin Slots

VARIABLE stops  \* how often worker processes have died

\* by: the slot whose token is in the job's lock.
JobEntry(slots) ==
  [st : {"absent", "waiting", "active", "ended"}, by : slots \cup {None},
   stalls : 0 .. MaxStalledCount]

NoEntry == [st |-> "absent", by |-> None, stalls |-> 0]

\* queue.add
Added(q, j) == [q EXCEPT ![j] = [NoEntry EXCEPT !.st = "waiting"]]

\* A free slot takes the job.
Taken(q, j, s) == [q EXCEPT ![j] = [@ EXCEPT !.st = "active", !.by = s]]

\* The handler of slot s ended: moveToCompleted or moveToFailed.
Settled(q, j, s) ==
  IF q[j].st = "active" /\ q[j].by = s
  THEN [q EXCEPT ![j] = [@ EXCEPT !.st = "ended", !.by = None]] ELSE q

\* The stalled check finds the job active without a lock.
GivenUp(q, j) == q[j].stalls = MaxStalledCount
TakenBack(q, j) ==
  [q EXCEPT ![j] = IF GivenUp(q, j)
                   THEN [@ EXCEPT !.st = "ended", !.by = None]
                   ELSE [st |-> "waiting", by |-> None, stalls |-> @.stalls + 1]]

=============================================================================
