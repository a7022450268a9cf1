---------------------------- MODULE BackupProofs ----------------------------
(***************************************************************************)
(* Whatever the number of backups, administrators and crashes, and whether *)
(* or not statements fail: deletions that passed their check, and during   *)
(* which nobody else took a recovery point away, leave MinRetained         *)
(* recovery points.                                                        *)
(*                                                                         *)
(* The argument.  A recovery point is lost in three ways only: a request   *)
(* whose row could not be queued marks it failed, a verification fails,    *)
(* and a deletion is recorded (PointsStay).  The handler, which writes     *)
(* WHERE id, is no fourth one: the row it works on cannot have been        *)
(* completed before (DumpInv), as one worker takes one job at a time and   *)
(* claims only rows that are not.  A new row takes a number that is not in *)
(* use (RequestInv), for the checks that passed and the numbers that are   *)
(* left go down together.  A deletion takes only its own candidates away   *)
(* (TodoInv), and the candidates of the retention sweep leave at least the *)
(* MinRetained recovery points that are newer than the newest of them      *)
(* (CandidatesSpare).                                                      *)
(***************************************************************************)
EXTENDS Backup, TLAPS, FiniteSetTheorems, WellFoundedInduction

BackupSpec == BackupInit /\ [][BackupNext]_<<backupOwn, stops>>

\* A handler at work has a row.
TypeInv ==
  /\ BackupTypeOK
  /\ dumper.pc # "idle" => dumper.b \in Backups

\* A request that inserted a row has one, and every check that passed has a
\* number to come.
RequestInv ==
  /\ \A b \in Backups : adding[b] # "no" => backup[b].status # "none"
  /\ asked <= Cardinality(Unused)

\* Between its claim and its end the handler's row is not complete.
DumpInv ==
  dumper.pc \in {"dump", "verify", "place", "complete", "fail"}
    => backup[dumper.b].status \notin {"none", "completed"}

\* A deletion or a verification under way has a target.
TodoInv == \A k \in Deleters : deleter[k].pc # "idle" => deleter[k].todo # {}

FloorInv == TypeInv /\ RequestInv /\ DumpInv /\ TodoInv /\ FloorKept

-----------------------------------------------------------------------------
(* Numbers and sets *)

\* Backups are finitely many, and a part of a set of them is no larger.
LEMMA Counted ==
  ASSUME NEW S \in SUBSET Backups, NEW T \in SUBSET S
  PROVE  /\ IsFiniteSet(S) /\ IsFiniteSet(T)
         /\ Cardinality(S) \in Nat /\ Cardinality(T) \in Nat
         /\ Cardinality(T) <= Cardinality(S)
<1>1. IsFiniteSet(Backups)
  BY BackupAssumption, FS_Interval DEF Backups
<1>2. IsFiniteSet(S)
  BY <1>1, FS_Subset
<1> QED
  BY <1>2, FS_Subset, FS_CardinalityType

\* A set of numbers that is not empty has a smallest one.
LEMMA Smallest ==
  ASSUME NEW S \in SUBSET Nat, S # {}
  PROVE  \E x \in S : \A y \in S : x <= y
<1> DEFINE R == OpToRel(<, Nat)
<1>1. \E x \in S : \A y \in S : <<y, x>> \notin R
  <2> HIDE DEF R
  <2> QED
    BY NatLessThanWellFounded, WFMin DEF R
<1>2. ASSUME NEW x \in Nat, NEW y \in Nat, y < x PROVE <<y, x>> \in R
  <2>1. R = {p \in Nat \X Nat : p[1] < p[2]}
    BY Zenon DEF OpToRel
  <2> HIDE DEF R
  <2> QED
    BY <1>2, <2>1
<1> HIDE DEF R
<1>3. PICK x \in S : \A y \in S : <<y, x>> \notin R
  BY <1>1
<1>4. ASSUME NEW y \in S PROVE x <= y
  <2>1. x \in Nat /\ y \in Nat /\ ~(y < x)
    BY <1>2, <1>3
  <2> QED
    BY <2>1
<1> QED
  BY <1>4

\* A set of backups that is not empty has an oldest one and a newest one.
LEMMA MinIn ==
  ASSUME NEW S \in SUBSET Backups, S # {}
  PROVE  Min(S) \in S
<1>1. \E x \in S : \A y \in S : x <= y
  BY Smallest, BackupAssumption DEF Backups
<1> QED
  BY <1>1 DEF Min

LEMMA NewestIn ==
  ASSUME NEW S \in SUBSET Backups, S # {}
  PROVE  \E x \in S : \A y \in S : y <= x
<1> DEFINE T == {MaxBackups - x : x \in S}
<1>1. MaxBackups \in Nat /\ S \subseteq 1 .. MaxBackups
  BY BackupAssumption DEF Backups
<1>2. T \in SUBSET Nat /\ T # {}
  <2>1. \A x \in S : MaxBackups - x \in Nat
    BY <1>1
  <2> QED
    BY <2>1
<1>3. PICK t \in T : \A u \in T : t <= u
  <2> HIDE DEF T
  <2> QED
    BY <1>2, Smallest
<1>4. PICK x \in S : t = MaxBackups - x
  BY <1>3
<1>5. ASSUME NEW y \in S PROVE y <= x
  <2>1. MaxBackups - x <= MaxBackups - y
    BY <1>3, <1>4
  <2> QED
    BY <1>1, <2>1
<1> QED
  BY <1>5

\* The candidates of the sweep leave the recovery points that are newer than
\* the newest of them, of which there are enough.
LEMMA CandidatesSpare ==
  ASSUME RetentionCandidates # {}
  PROVE  Spared(RetentionCandidates) >= MinRetained
<1>1. Points \subseteq Backups /\ RetentionCandidates \subseteq Points
  BY DEF Points, RetentionCandidates
<1>2. PICK b \in RetentionCandidates : \A c \in RetentionCandidates : c <= b
  BY <1>1, NewestIn
<1> DEFINE newer == {c \in Points : c > b}
<1>3. b \in Points /\ b \in Backups /\ ~(Cardinality(newer) < MinRetained)
  BY <1>1, <1>2 DEF RetentionCandidates, Newest
<1>4. newer \subseteq Points \ RetentionCandidates
  <2>1. \A c \in RetentionCandidates : ~(c > b)
    BY <1>1, <1>2, BackupAssumption DEF Backups
  <2> QED
    BY <1>1, <2>1
<1>5. /\ Cardinality(newer) \in Nat /\ Cardinality(Points \ RetentionCandidates) \in Nat
      /\ Cardinality(newer) <= Cardinality(Points \ RetentionCandidates)
  <2> HIDE DEF newer
  <2> QED
    BY <1>1, <1>4, Counted
<1> QED
  BY <1>3, <1>5, BackupAssumption DEF Spared

-----------------------------------------------------------------------------
(* Types *)

Statuses ==
  {"none", "queued", "running", "verifying", "completed", "failed", "interrupted", "deleted"}

Handler == [pc : {"idle", "claim", "dump", "verify", "place", "complete", "fail", "clean",
                  "settle"}, b : 0 .. MaxBackups]
Tidier == [pc : {"idle", "list", "sweep"}, keep : SUBSET Backups]

\* A row that changes is a row, and what a change leaves alone stays.
LEMMA RowType ==
  ASSUME NEW r \in BackupRow
  PROVE  /\ \A st \in Statuses :
              LET n == [r EXCEPT !.status = st, !.quiet = FALSE]
              IN n \in BackupRow /\ n.status = st /\ n.verified = r.verified
         /\ LET n == [r EXCEPT !.job = TRUE, !.quiet = FALSE]
            IN n \in BackupRow /\ n.status = r.status /\ n.verified = r.verified
         /\ \A v \in {"passed", "failed"} :
              LET n == [r EXCEPT !.verified = v, !.quiet = FALSE]
              IN n \in BackupRow /\ n.status = r.status /\ n.verified = v
         /\ LET n == [r EXCEPT !.file = TRUE, !.verified = "passed"]
            IN n \in BackupRow /\ n.status = r.status /\ n.verified = "passed"
         /\ \A a \in {"new", "late", "aged"} :
              LET n == [r EXCEPT !.age = a]
              IN n \in BackupRow /\ n.status = r.status /\ n.verified = r.verified
         /\ \A a \in {"new", "late", "aged"} :
              LET n == [r EXCEPT !.quiet = TRUE, !.age = a]
              IN n \in BackupRow /\ n.status = r.status /\ n.verified = r.verified
  BY DEF BackupRow, Statuses

LEMMA BecomeType ==
  ASSUME BackupTypeOK, NEW b \in Backups, NEW st \in Statuses
  PROVE  /\ Become(b, st) \in BackupRow /\ Become(b, st).status = st
         /\ Become(b, st).verified = backup[b].verified
<1>1. backup[b] \in BackupRow
  BY DEF BackupTypeOK
<1> QED
  BY <1>1, RowType DEF Become

\* Deletions that go on or are disturbed are deletions.
LEMMA DeleterType ==
  ASSUME BackupTypeOK, NEW k \in Deleters
  PROVE  /\ NoDeleter \in Deleter /\ NoDeleter.pc = "idle"
         /\ [deleter[k] EXCEPT !.pc = "mark"] \in Deleter
         /\ Passed(k) \in Deleter
         /\ \A o, b : Disturbed(o, b) \in [Deleters -> Deleter]
<1>1. deleter \in [Deleters -> Deleter]
  BY DEF BackupTypeOK
<1>2. NoDeleter \in Deleter /\ NoDeleter.pc = "idle"
  BY DEF NoDeleter, Deleter
<1>3. [deleter[k] EXCEPT !.pc = "mark"] \in Deleter
  BY <1>1 DEF Deleter
<1>4. \A t : [deleter[k] EXCEPT !.pc = "unlink", !.todo = deleter[k].todo \ {t}] \in Deleter
  BY <1>1 DEF Deleter
<1>5. \A o \in Deleters : [deleter[o] EXCEPT !.undisturbed = FALSE] \in Deleter
  BY <1>1 DEF Deleter
<1>6. Passed(k) \in Deleter
  BY <1>2, <1>4 DEF Passed
<1>7. \A o, b : Disturbed(o, b) \in [Deleters -> Deleter]
  BY <1>1, <1>5 DEF Disturbed
<1> QED
  BY <1>2, <1>3, <1>6, <1>7

\* What BullMQ does to the backup queue leaves a queue.
LEMMA QueueType ==
  ASSUME BackupTypeOK, NEW j \in Backups
  PROVE  {Added(backupJobs, j), TakenBack(backupJobs, j), Taken(backupJobs, j, "worker"),
          Settled(backupJobs, j, "worker")} \subseteq [Backups -> JobEntry({"worker"})]
<1> DEFINE Entry == JobEntry({"worker"})
<1>1. /\ backupJobs \in [Backups -> Entry] /\ backupJobs[j] \in Entry
      /\ backupJobs[j].stalls \in 0 .. MaxStalledCount
  BY DEF BackupTypeOK, JobEntry
<1>2. NoEntry \in Entry /\ [NoEntry EXCEPT !.st = "waiting"] \in Entry
  BY QueueAssumption DEF JobEntry, NoEntry
<1>3. [backupJobs[j] EXCEPT !.st = "active", !.by = "worker"] \in Entry
  BY <1>1 DEF JobEntry
<1>4. [backupJobs[j] EXCEPT !.st = "ended", !.by = None] \in Entry
  BY <1>1 DEF JobEntry
<1>5. ~GivenUp(backupJobs, j) => backupJobs[j].stalls + 1 \in 0 .. MaxStalledCount
  BY <1>1, QueueAssumption DEF GivenUp
<1>6. ~GivenUp(backupJobs, j)
        => [st |-> "waiting", by |-> None, stalls |-> backupJobs[j].stalls + 1] \in Entry
  BY <1>5 DEF JobEntry
<1> HIDE DEF Entry
<1>7. Added(backupJobs, j) \in [Backups -> Entry]
  BY <1>1, <1>2 DEF Added
<1>8. TakenBack(backupJobs, j) \in [Backups -> Entry]
  BY <1>1, <1>4, <1>6 DEF TakenBack
<1>9. Taken(backupJobs, j, "worker") \in [Backups -> Entry]
  BY <1>1, <1>3 DEF Taken
<1>10. Settled(backupJobs, j, "worker") \in [Backups -> Entry]
  BY <1>1, <1>4 DEF Settled
<1> QED
  BY <1>7, <1>8, <1>9, <1>10 DEF Entry

\* The earlier backups are complete, and nothing is under way.
LEMMA TypeInit == BackupInit => TypeInv
<1> SUFFICES ASSUME BackupInit PROVE TypeInv
  OBVIOUS
<1>1. NoBackup \in BackupRow /\ EarlierBackup \in BackupRow
  BY DEF NoBackup, EarlierBackup, BackupRow
<1>2. NoEntry \in JobEntry({"worker"}) /\ [NoEntry EXCEPT !.st = "ended"] \in JobEntry({"worker"})
  BY QueueAssumption DEF JobEntry, NoEntry
<1>3. NoDeleter \in Deleter
  BY DEF NoDeleter, Deleter
<1>4. MaxBackups \in Nat /\ Earlier \in 0 .. MaxBackups /\ MaxStops \in Nat
  BY BackupAssumption, QueueAssumption
<1>5. archives \subseteq Backups
  BY <1>4 DEF BackupInit, Backups
<1>6. backup \in [Backups -> BackupRow] /\ backupJobs \in [Backups -> JobEntry({"worker"})]
  BY <1>1, <1>2 DEF BackupInit
<1>7. deleter \in [Deleters -> Deleter]
  BY <1>3 DEF BackupInit
<1>8. /\ staging \in [Backups -> {"none", "young", "old"}]
      /\ adding \in [Backups -> {"no", "inserted", "added", "failing"}]
      /\ asked \in 0 .. MaxBackups /\ backupUp \in BOOLEAN /\ stops \in 0 .. MaxStops
  BY <1>4 DEF BackupInit
<1>9. dumper.pc = "idle" /\ dumper \in Handler /\ tidy \in Tidier
  BY <1>4 DEF BackupInit, Handler, Tidier
<1> QED
  BY <1>5, <1>6, <1>7, <1>8, <1>9 DEF TypeInv, BackupTypeOK, Handler, Tidier

\* Every step leaves rows.
LEMMA RowNext ==
  ASSUME TypeInv, BackupNext
  PROVE  backup' \in [Backups -> BackupRow]
<1> DEFINE Goal == backup' \in [Backups -> BackupRow]
<1>1. BackupTypeOK /\ backup \in [Backups -> BackupRow]
  BY DEF TypeInv, BackupTypeOK
<1>2. UNCHANGED backup => Goal
  BY <1>1
<1>3. CountBlocking \/ BeginRetention \/ CrashBackup \/ CrashApi => Goal
  BY <1>2 DEF CountBlocking, BeginRetention, CrashBackup, CrashApi
<1>4. CreateBackupRow => Goal
  BY <1>1, BecomeType DEF CreateBackupRow, Statuses
<1>5. ASSUME Dumping PROVE Goal
  <2>1. Dump \/ PlaceArchive \/ RemoveStaging \/ SettleBackup => Goal
    BY <1>2 DEF Dump, PlaceArchive, RemoveStaging, SettleBackup
  <2>2. ClaimBackup \/ MarkVerifying \/ FailBackup => Goal
    BY <1>1, BecomeType DEF ClaimBackup, MarkVerifying, FailBackup, Statuses
  <2>3. CompleteBackup => Goal
    <3>1. \A b \in Backups : [Become(b, "completed") EXCEPT !.file = TRUE, !.verified = "passed"]
                               \in BackupRow
      BY <1>1, BecomeType, RowType DEF Statuses
    <3> QED
      BY <1>1, <3>1 DEF CompleteBackup
  <2> QED
    BY <1>5, <2>1, <2>2, <2>3 DEF Dumping
<1>6. ASSUME Tidying PROVE Goal
  <2>1. ListActive \/ SweepTemp => Goal
    BY <1>2 DEF ListActive, SweepTemp
  <2>2. CloseStale => Goal
    <3>1. \A b \in Backups : Closed(backup[b]) \in {"failed", "interrupted", backup[b].status}
      BY DEF Closed
    <3>2. \A b \in Backups : Closed(backup[b]) # backup[b].status
                               => Become(b, Closed(backup[b])) \in BackupRow
      BY <1>1, <3>1, BecomeType DEF Statuses
    <3> QED
      BY <1>1, <3>2 DEF CloseStale
  <2> QED
    BY <1>6, <2>1, <2>2 DEF Tidying
<1>7. ASSUME NEW b \in Backups, Requesting(b) \/ TakeBackup(b) \/ StallBackup(b) \/ AgeBackup(b)
                                \/ QuietBackup(b) \/ AgeStaging(b)
      PROVE  Goal
  <2>1. AddBackupJob(b) \/ TakeBackup(b) \/ StallBackup(b) \/ AgeStaging(b) => Goal
    BY <1>2 DEF AddBackupJob, TakeBackup, StallBackup, AgeStaging
  <2>2. EnqueueFailed(b) => Goal
    BY <1>1, <1>2, BecomeType DEF EnqueueFailed, Statuses
  <2>3. SetJobId(b) => Goal
    <3>1. [backup[b] EXCEPT !.job = TRUE, !.quiet = FALSE] \in BackupRow
      BY <1>1, RowType
    <3> QED
      BY <1>1, <3>1 DEF SetJobId
  <2>4. AgeBackup(b) => Goal
    <3>1. \A a \in {"late", "aged"} : [backup[b] EXCEPT !.age = a] \in BackupRow
      BY <1>1, RowType
    <3> QED
      BY <1>1, <3>1 DEF AgeBackup
  <2>5. QuietBackup(b) => Goal
    <3> DEFINE a == IF backup[b].age = "new" THEN "late" ELSE backup[b].age
    <3>1. a \in {"new", "late", "aged"}
      BY <1>1 DEF BackupRow
    <3>2. QuietBackup(b) => backup' = [backup EXCEPT ![b].quiet = TRUE, ![b].age = a]
      BY DEF QuietBackup
    <3>3. [backup[b] EXCEPT !.quiet = TRUE, !.age = a] \in BackupRow
      <4> HIDE DEF a
      <4> QED
        BY <1>1, <3>1, RowType
    <3>4. [backup EXCEPT ![b].quiet = TRUE, ![b].age = a]
            = [backup EXCEPT ![b] = [backup[b] EXCEPT !.quiet = TRUE, !.age = a]]
      <4> HIDE DEF a
      <4> QED
        BY <1>1
    <3> HIDE DEF a
    <3> QED
      BY <1>1, <3>2, <3>3, <3>4
  <2> QED
    BY <1>7, <2>1, <2>2, <2>3, <2>4, <2>5 DEF Requesting
<1>8. ASSUME NEW k \in Admins, NEW b \in Backups, RequestDelete(k, b) \/ RequestVerify(k, b)
      PROVE  Goal
  BY <1>2, <1>8 DEF RequestDelete, RequestVerify
<1>9. ASSUME NEW k \in Deleters, Deleting(k) PROVE Goal
  <2>1. UnlinkArchive(k) => Goal
    BY <1>2 DEF UnlinkArchive
  <2>2. MarkDeleted(k) => Goal
    BY <1>1, BecomeType DEF MarkDeleted, Statuses
  <2>3. ASSUME MarkVerifyResult(k) PROVE Goal
    <3> DEFINE b == Target(k)
    <3>1. PICK v \in {"passed", "failed"} :
            backup' = [backup EXCEPT ![b].verified = v, ![b].quiet = FALSE]
      BY <2>3 DEF MarkVerifyResult
    <3> HIDE DEF b
    <3>2. CASE b \in Backups
      <4>1. [backup[b] EXCEPT !.verified = v, !.quiet = FALSE] \in BackupRow
        BY <1>1, <3>2, RowType
      <4> QED
        BY <1>1, <3>1, <3>2, <4>1
    <3>3. CASE b \notin Backups
      BY <1>1, <3>1, <3>3
    <3> QED
      BY <3>2, <3>3
  <2> QED
    BY <1>9, <2>1, <2>2, <2>3 DEF Deleting
<1>10. RestartBackup => Goal
  BY <1>1, BecomeType DEF RestartBackup, Statuses
<1> HIDE DEF Goal
<1>11. Goal
  BY <1>3, <1>4, <1>5, <1>6, <1>7, <1>8, <1>9, <1>10 DEF BackupNext
<1> QED
  BY <1>11 DEF Goal

\* Every step leaves deletions.
LEMMA DeleterNext ==
  ASSUME TypeInv, BackupNext
  PROVE  deleter' \in [Deleters -> Deleter]
<1> DEFINE Goal == deleter' \in [Deleters -> Deleter]
<1>1. BackupTypeOK /\ deleter \in [Deleters -> Deleter] /\ NoDeleter \in Deleter
  BY DEF TypeInv, BackupTypeOK, NoDeleter, Deleter
<1>2. UNCHANGED deleter => Goal
  BY <1>1
<1>3. CountBlocking \/ CreateBackupRow \/ Dumping \/ Tidying \/ RestartBackup => UNCHANGED deleter
  BY DEF CountBlocking, CreateBackupRow, RestartBackup, Dumping, ClaimBackup, Dump, MarkVerifying,
     PlaceArchive, CompleteBackup, FailBackup, RemoveStaging, SettleBackup, Tidying, CloseStale,
     ListActive, SweepTemp
<1>4. BeginRetention => Goal
  <2>1. RetentionCandidates \subseteq Backups
    BY DEF RetentionCandidates, Points
  <2>2. [NoDeleter EXCEPT !.pc = "unlink", !.todo = RetentionCandidates, !.checked = TRUE]
          \in Deleter
    BY <1>1, <2>1 DEF Deleter
  <2> QED
    BY <1>1, <2>2 DEF BeginRetention
<1>5. ASSUME NEW b \in Backups, Requesting(b) \/ TakeBackup(b) \/ StallBackup(b) \/ AgeBackup(b)
                                \/ QuietBackup(b) \/ AgeStaging(b)
      PROVE  UNCHANGED deleter \/ \E k : deleter' = Disturbed(k, b)
  BY <1>5 DEF Requesting, AddBackupJob, SetJobId, EnqueueFailed, TakeBackup, StallBackup,
     AgeBackup, QuietBackup, AgeStaging
<1>6. ASSUME NEW k \in Admins, NEW b \in Backups, RequestDelete(k, b) \/ RequestVerify(k, b)
      PROVE  Goal
  <2>1. (Points \in SUBSET Backups /\ (b \in Points /\ Spared({b}) >= MinRetained) \in BOOLEAN)
    BY DEF Points
  <2>2. \A pc \in {"unlink", "mark"} :
          [pc |-> pc, todo |-> {b}, undisturbed |-> TRUE,
           checked |-> b \in Points /\ Spared({b}) >= MinRetained] \in Deleter
    BY <2>1 DEF Deleter
  <2>3. [NoDeleter EXCEPT !.pc = "verify", !.todo = {b}] \in Deleter
    BY <1>1 DEF Deleter
  <2>4. RequestDelete(k, b) => Goal
    BY <1>1, <2>2 DEF RequestDelete
  <2>5. RequestVerify(k, b) => Goal
    BY <1>1, <2>3 DEF RequestVerify
  <2> QED
    BY <1>6, <2>4, <2>5
<1>7. ASSUME NEW k \in Deleters, Deleting(k) PROVE Goal
  <2> DEFINE marks == [deleter[k] EXCEPT !.pc = "mark"]
  <2>1. marks \in Deleter /\ Passed(k) \in Deleter
    BY <1>1, DeleterType
  <2>2. UnlinkArchive(k) => Goal
    <3>1. UnlinkArchive(k) => \/ deleter' = [deleter EXCEPT ![k] = marks]
                              \/ deleter' = [deleter EXCEPT ![k] = Passed(k)]
      BY DEF UnlinkArchive
    <3> HIDE DEF marks
    <3> QED
      BY <1>1, <2>1, <3>1
  <2>3. MarkDeleted(k) => Goal
    <3>1. Disturbed(k, Target(k)) \in [Deleters -> Deleter]
      BY <1>1, DeleterType
    <3>2. MarkDeleted(k) => \/ deleter' = [Disturbed(k, Target(k)) EXCEPT ![k] = Passed(k)]
                            \/ deleter' = [deleter EXCEPT ![k] = Passed(k)]
      BY DEF MarkDeleted
    <3> QED
      BY <1>1, <2>1, <3>1, <3>2
  <2>4. ASSUME MarkVerifyResult(k) PROVE Goal
    <3>1. Disturbed(k, Target(k)) \in [Deleters -> Deleter]
      BY <1>1, DeleterType
    <3>2. \E d \in {deleter, Disturbed(k, Target(k))} : deleter' = [d EXCEPT ![k] = NoDeleter]
      BY <2>4 DEF MarkVerifyResult
    <3> QED
      BY <1>1, <3>1, <3>2
  <2> QED
    BY <1>7, <2>2, <2>3, <2>4 DEF Deleting
<1>8. CrashBackup \/ CrashApi => Goal
  BY <1>1 DEF CrashBackup, CrashApi
<1>9. \A o, b : Disturbed(o, b) \in [Deleters -> Deleter]
  BY <1>1, <1>5, DeleterType DEF Deleters
<1> HIDE DEF Goal
<1>10. \A o, b : deleter' = Disturbed(o, b) => Goal
  BY <1>9 DEF Goal
<1>11. Goal
  BY <1>2, <1>3, <1>4, <1>5, <1>6, <1>7, <1>8, <1>10 DEF BackupNext
<1> QED
  BY <1>11 DEF Goal

\* Every step of a handler or of the queue leaves a handler, that has a row.
LEMMA DumperNext ==
  ASSUME TypeInv, BackupNext
  PROVE  /\ dumper' \in Handler /\ (dumper'.pc # "idle" => dumper'.b \in Backups)
         /\ backupJobs' \in [Backups -> JobEntry({"worker"})]
         /\ archives' \subseteq Backups
         /\ staging' \in [Backups -> {"none", "young", "old"}]
<1> DEFINE GoalD == dumper' \in Handler /\ (dumper'.pc # "idle" => dumper'.b \in Backups)
           GoalJ == backupJobs' \in [Backups -> JobEntry({"worker"})]
           GoalA == archives' \subseteq Backups
           GoalS == staging' \in [Backups -> {"none", "young", "old"}]
           Goal == GoalD /\ GoalJ /\ GoalA /\ GoalS
<1>1. /\ BackupTypeOK /\ dumper \in Handler /\ (dumper.pc # "idle" => dumper.b \in Backups)
      /\ backupJobs \in [Backups -> JobEntry({"worker"})] /\ archives \subseteq Backups
      /\ staging \in [Backups -> {"none", "young", "old"}]
      /\ 0 \in 0 .. MaxBackups /\ Backups \subseteq 0 .. MaxBackups
  BY BackupAssumption DEF TypeInv, BackupTypeOK, Handler, Backups
<1>2. UNCHANGED <<dumper, backupJobs, archives, staging>> => Goal
  BY <1>1
<1>3. CountBlocking \/ CreateBackupRow \/ BeginRetention \/ RestartBackup \/ CrashApi => Goal
  BY <1>2 DEF CountBlocking, CreateBackupRow, BeginRetention, RestartBackup, CrashApi
<1>4. \A pc \in {"dump", "verify", "place", "complete", "fail", "clean", "settle"} :
        Onto(pc) /\ dumper.pc # "idle" => GoalD /\ dumper.b \in Backups
  BY <1>1 DEF Onto, Handler
<1>5. ASSUME ClaimBackup \/ MarkVerifying \/ CompleteBackup \/ FailBackup PROVE Goal
  BY <1>1, <1>4, <1>5 DEF ClaimBackup, MarkVerifying, CompleteBackup, FailBackup, DumperAt
<1>6. ASSUME Dump \/ RemoveStaging PROVE Goal
  BY <1>1, <1>4, <1>6 DEF Dump, RemoveStaging, DumperAt
<1>7. ASSUME PlaceArchive PROVE Goal
  BY <1>1, <1>4, <1>7 DEF PlaceArchive, DumperAt
<1>8. ASSUME SettleBackup PROVE Goal
  BY <1>1, <1>8, QueueType DEF SettleBackup, DumperAt, Handler
<1>9. ASSUME Tidying PROVE Goal
  BY <1>1, <1>9 DEF Tidying, CloseStale, ListActive, SweepTemp
<1>10. ASSUME NEW b \in Backups, Requesting(b) \/ AgeBackup(b) \/ QuietBackup(b) \/ AgeStaging(b)
       PROVE  Goal
  BY <1>1, <1>10, QueueType DEF Requesting, AddBackupJob, SetJobId, EnqueueFailed, AgeBackup,
     QuietBackup, AgeStaging
<1>11. ASSUME NEW b \in Backups, TakeBackup(b) \/ StallBackup(b) PROVE Goal
  <2>1. [pc |-> "claim", b |-> b] \in Handler
    BY <1>1 DEF Handler
  <2>2. /\ Taken(backupJobs, b, "worker") \in [Backups -> JobEntry({"worker"})]
        /\ TakenBack(backupJobs, b) \in [Backups -> JobEntry({"worker"})]
    BY <1>1, QueueType
  <2>3. CASE TakeBackup(b)
    BY <1>1, <2>1, <2>2, <2>3 DEF TakeBackup
  <2>4. CASE StallBackup(b)
    BY <1>1, <2>2, <2>4 DEF StallBackup
  <2> QED
    BY <1>11, <2>3, <2>4
<1>12. ASSUME NEW k \in Admins, NEW b \in Backups, RequestDelete(k, b) \/ RequestVerify(k, b)
       PROVE  Goal
  BY <1>2, <1>12 DEF RequestDelete, RequestVerify
<1>13. ASSUME NEW k \in Deleters, Deleting(k) PROVE Goal
  BY <1>1, <1>13 DEF Deleting, UnlinkArchive, MarkDeleted, MarkVerifyResult
<1>14. CrashBackup => Goal
  BY <1>1 DEF CrashBackup, Handler
<1> HIDE DEF Goal
<1>15. Goal
  BY <1>3, <1>5, <1>6, <1>7, <1>8, <1>9, <1>10, <1>11, <1>12, <1>13, <1>14
     DEF BackupNext, Dumping
<1> QED
  BY <1>15 DEF Goal

\* What else a step changes keeps its type.
LEMMA RestNext ==
  ASSUME TypeInv, BackupNext
  PROVE  /\ adding' \in [Backups -> {"no", "inserted", "added", "failing"}]
         /\ asked' \in 0 .. MaxBackups
         /\ tidy' \in Tidier
         /\ backupUp' \in BOOLEAN
         /\ stops' \in 0 .. MaxStops
<1> DEFINE Goal ==
      /\ adding' \in [Backups -> {"no", "inserted", "added", "failing"}]
      /\ asked' \in 0 .. MaxBackups
      /\ tidy' \in Tidier
      /\ backupUp' \in BOOLEAN
      /\ stops' \in 0 .. MaxStops
<1>1. /\ adding \in [Backups -> {"no", "inserted", "added", "failing"}]
      /\ asked \in 0 .. MaxBackups /\ tidy \in Tidier
      /\ backupUp \in BOOLEAN /\ stops \in 0 .. MaxStops
      /\ MaxBackups \in Nat /\ MaxStops \in Nat
  BY BackupAssumption, QueueAssumption DEF TypeInv, BackupTypeOK, Tidier
<1>2. UNCHANGED <<adding, asked, tidy, backupUp, stops>> => Goal
  BY <1>1
<1>3. CountBlocking => Goal
  <2>1. Cardinality(Unused) \in Nat /\ Cardinality(Unused) <= MaxBackups
    <3>1. Unused \subseteq Backups
      BY DEF Unused
    <3>2. Cardinality(Backups) = MaxBackups
      BY <1>1, FS_Interval DEF Backups
    <3> QED
      BY <3>1, <3>2, Counted
  <2> QED
    BY <1>1, <2>1 DEF CountBlocking
<1>4. ASSUME CreateBackupRow PROVE Goal
  <2>1. asked' \in 0 .. MaxBackups
    BY <1>1, <1>4 DEF CreateBackupRow
  <2>2. adding' \in [Backups -> {"no", "inserted", "added", "failing"}]
    BY <1>1, <1>4 DEF CreateBackupRow
  <2>3. UNCHANGED <<tidy, backupUp, stops>>
    BY <1>4 DEF CreateBackupRow
  <2> QED
    BY <1>1, <2>1, <2>2, <2>3
<1>5. Dumping \/ BeginRetention => Goal
  BY <1>2 DEF Dumping, ClaimBackup, Dump, MarkVerifying, PlaceArchive, CompleteBackup, FailBackup,
     RemoveStaging, SettleBackup, BeginRetention
<1>6. Tidying => Goal
  BY <1>1 DEF Tidying, CloseStale, ListActive, SweepTemp, Tidier
<1>7. ASSUME NEW b \in Backups, Requesting(b) PROVE Goal
  BY <1>1, <1>7 DEF Requesting, AddBackupJob, SetJobId, EnqueueFailed
<1>8. ASSUME NEW b \in Backups, TakeBackup(b) \/ StallBackup(b) \/ AgeBackup(b) \/ QuietBackup(b)
                                \/ AgeStaging(b)
      PROVE  Goal
  BY <1>2, <1>8 DEF TakeBackup, StallBackup, AgeBackup, QuietBackup, AgeStaging
<1>9. ASSUME NEW k \in Admins, NEW b \in Backups, RequestDelete(k, b) \/ RequestVerify(k, b)
      PROVE  Goal
  BY <1>2, <1>9 DEF RequestDelete, RequestVerify
<1>10. ASSUME NEW k \in Deleters, Deleting(k) PROVE Goal
  BY <1>2, <1>10 DEF Deleting, UnlinkArchive, MarkDeleted, MarkVerifyResult
<1>11. ASSUME CrashBackup \/ RestartBackup \/ CrashApi PROVE Goal
  <2>1. adding' \in [Backups -> {"no", "inserted", "added", "failing"}]
    BY <1>1, <1>11 DEF CrashBackup, RestartBackup, CrashApi
  <2>2. tidy' \in Tidier
    BY <1>1, <1>11 DEF CrashBackup, RestartBackup, CrashApi, Tidier
  <2>3. asked' \in {asked, 0} /\ backupUp' \in BOOLEAN
    BY <1>1, <1>11 DEF CrashBackup, RestartBackup, CrashApi
  <2>4. stops' = stops \/ (stops < MaxStops /\ stops' = stops + 1)
    BY <1>11 DEF CrashBackup, RestartBackup, CrashApi
  <2>5. stops' \in 0 .. MaxStops
    BY <1>1, <2>4
  <2>6. asked' \in 0 .. MaxBackups
    BY <1>1, <2>3
  <2> QED
    BY <2>1, <2>2, <2>3, <2>5, <2>6
<1> HIDE DEF Goal
<1>12. Goal
  BY <1>3, <1>4, <1>5, <1>6, <1>7, <1>8, <1>9, <1>10, <1>11 DEF BackupNext
<1> QED
  BY <1>12 DEF Goal

LEMMA TypeNext ==
  ASSUME TypeInv, BackupNext
  PROVE  TypeInv'
<1>1. backup' \in [Backups -> BackupRow]
  BY RowNext
<1>2. deleter' \in [Deleters -> Deleter]
  BY DeleterNext
<1> QED
  BY <1>1, <1>2, DumperNext, RestNext DEF TypeInv, BackupTypeOK, Handler, Tidier

-----------------------------------------------------------------------------
(* What a step does to one row *)

Keeps(x) == backup'[x].status = backup[x].status /\ backup'[x].verified = backup[x].verified

Opens(x) == CreateBackupRow /\ x = Min(Unused) /\ backup'[x].status = "queued"

\* A row that is not complete goes on, or is closed.
Works(x) ==
  /\ backup[x].status \in {"queued", "running", "verifying", "failed", "interrupted"}
  /\ backup'[x].status \in {"running", "verifying", "failed", "interrupted"}

\* The handler writes WHERE id.
Ends(x) ==
  /\ x = dumper.b /\ dumper'.pc = "clean"
  /\ \/ /\ dumper.pc = "complete"
        /\ backup'[x].status = "completed" /\ backup'[x].verified = "passed"
     \/ dumper.pc = "fail" /\ backup'[x].status = "failed"

\* The request that inserted the row gives up, also WHERE id.
Drops(x) ==
  /\ adding[x] = "failing"
  /\ backup'[x].status = "failed" /\ deleter' = Disturbed("nobody", x)

Deletes(k, x) ==
  /\ x = Target(k) /\ deleter[k].pc = "mark"
  /\ backup[x].status \in {"completed", "failed", "interrupted"}
  /\ backup'[x].status = "deleted"
  /\ deleter' = [Disturbed(k, x) EXCEPT ![k] = Passed(k)]

Verifies(k, x) ==
  /\ x = Target(k) /\ backup'[x].status = backup[x].status
  /\ \/ backup'[x].verified = "passed"
     \/ deleter' = [Disturbed(k, x) EXCEPT ![k] = NoDeleter]

Moves(x) ==
  \/ Keeps(x) \/ Opens(x) \/ Works(x) \/ Ends(x) \/ Drops(x)
  \/ \E k \in Deleters : Deletes(k, x) \/ Verifies(k, x)

LEMMA HandlerMoves ==
  ASSUME TypeInv, Dumping, NEW x \in Backups
  PROVE  Keeps(x) \/ Works(x) \/ Ends(x)
<1>1. BackupTypeOK /\ backup \in [Backups -> BackupRow] /\ dumper \in Handler
  BY DEF TypeInv, BackupTypeOK, Handler
<1>2. ASSUME Dump \/ PlaceArchive \/ RemoveStaging \/ SettleBackup PROVE Keeps(x)
  BY <1>2 DEF Keeps, Dump, PlaceArchive, RemoveStaging, SettleBackup
<1>3. ASSUME ClaimBackup PROVE Keeps(x) \/ Works(x)
  <2>1. Become(x, "running").status = "running"
    BY <1>1, BecomeType DEF Statuses
  <2> QED
    BY <1>1, <1>3, <2>1 DEF ClaimBackup, Keeps, Works
<1>4. ASSUME MarkVerifying PROVE Keeps(x) \/ Works(x)
  <2>1. Become(x, "verifying").status = "verifying"
    BY <1>1, BecomeType DEF Statuses
  <2> QED
    BY <1>1, <1>4, <2>1 DEF MarkVerifying, Keeps, Works
<1>5. ASSUME CompleteBackup PROVE Keeps(x) \/ Ends(x)
  <2> DEFINE done == [Become(x, "completed") EXCEPT !.file = TRUE, !.verified = "passed"]
  <2>1. done.status = "completed" /\ done.verified = "passed"
    <3>1. Become(x, "completed") \in BackupRow /\ Become(x, "completed").status = "completed"
      BY <1>1, BecomeType DEF Statuses
    <3> QED
      BY <3>1 DEF BackupRow
  <2>2. \/ x = dumper.b /\ backup'[x] = done /\ Onto("clean")
        \/ backup'[x] = backup[x]
    BY <1>1, <1>5 DEF CompleteBackup
  <2>3. Onto("clean") => dumper'.pc = "clean"
    BY <1>1 DEF Onto, Handler
  <2> HIDE DEF done
  <2> QED
    BY <1>5, <2>1, <2>2, <2>3 DEF CompleteBackup, DumperAt, Keeps, Ends
<1>6. ASSUME FailBackup PROVE Keeps(x) \/ Ends(x)
  <2>1. Become(x, "failed").status = "failed"
    BY <1>1, BecomeType DEF Statuses
  <2>2. dumper'.pc = "clean" /\ dumper.pc = "fail"
    BY <1>1, <1>6 DEF FailBackup, Onto, Handler, DumperAt
  <2>3. backup'[x] = backup[x] \/ (x = dumper.b /\ backup'[x] = Become(x, "failed"))
    BY <1>1, <1>6 DEF FailBackup
  <2> QED
    BY <2>1, <2>2, <2>3 DEF Keeps, Ends
<1> QED
  BY <1>2, <1>3, <1>4, <1>5, <1>6 DEF Dumping

LEMMA DeletionMoves ==
  ASSUME TypeInv, NEW k \in Deleters, Deleting(k), NEW x \in Backups
  PROVE  Keeps(x) \/ Deletes(k, x) \/ Verifies(k, x)
<1>1. BackupTypeOK /\ backup \in [Backups -> BackupRow]
  BY DEF TypeInv, BackupTypeOK
<1>2. ASSUME UnlinkArchive(k) PROVE Keeps(x)
  BY <1>2 DEF Keeps, UnlinkArchive
<1>3. ASSUME MarkDeleted(k) PROVE Keeps(x) \/ Deletes(k, x)
  <2>1. Become(x, "deleted").status = "deleted"
    BY <1>1, BecomeType DEF Statuses
  <2>2. CASE backup'[x] = backup[x]
    BY <2>2 DEF Keeps
  <2>3. CASE backup'[x] # backup[x]
    <3>1. /\ x = Target(k) /\ backup[x].status \in {"completed", "failed", "interrupted"}
          /\ backup'[x] = Become(x, "deleted")
      BY <1>1, <1>3, <2>3 DEF MarkDeleted
    <3>2. deleter[k].pc = "mark" /\ deleter' = [Disturbed(k, x) EXCEPT ![k] = Passed(k)]
      BY <1>3, <2>3, <3>1 DEF MarkDeleted
    <3> QED
      BY <2>1, <3>1, <3>2 DEF Deletes
  <2> QED
    BY <2>2, <2>3
<1>4. ASSUME MarkVerifyResult(k) PROVE Keeps(x) \/ Verifies(k, x)
  <2>1. PICK ok \in BOOLEAN :
          /\ backup' = [backup EXCEPT ![Target(k)].verified = IF ok THEN "passed" ELSE "failed",
                                      ![Target(k)].quiet = FALSE]
          /\ deleter' = [IF ok THEN deleter ELSE Disturbed(k, Target(k)) EXCEPT ![k] = NoDeleter]
    BY <1>4 DEF MarkVerifyResult
  <2> DEFINE v == IF ok THEN "passed" ELSE "failed"
  <2>2. v \in {"passed", "failed"} /\ (v = "passed" \/ ~ok)
    OBVIOUS
  <2>3. backup' = [backup EXCEPT ![Target(k)].verified = v, ![Target(k)].quiet = FALSE]
    BY <2>1
  <2> HIDE DEF v
  <2>4. CASE x # Target(k)
    BY <1>1, <2>3, <2>4 DEF Keeps
  <2>5. CASE x = Target(k)
    <3>1. backup'[x] = [backup[x] EXCEPT !.verified = v, !.quiet = FALSE]
      BY <1>1, <2>3, <2>5
    <3>2. backup'[x].status = backup[x].status /\ backup'[x].verified = v
      BY <1>1, <2>2, <3>1 DEF BackupRow
    <3> QED
      BY <2>1, <2>2, <2>5, <3>2 DEF Verifies
  <2> QED
    BY <2>4, <2>5
<1> QED
  BY <1>2, <1>3, <1>4 DEF Deleting

LEMMA StepMoves ==
  ASSUME TypeInv, BackupNext, NEW x \in Backups
  PROVE  Moves(x)
<1>1. BackupTypeOK /\ backup \in [Backups -> BackupRow]
  BY DEF TypeInv, BackupTypeOK
<1>2. CountBlocking \/ BeginRetention \/ CrashBackup \/ CrashApi => Moves(x)
  BY DEF CountBlocking, BeginRetention, CrashBackup, CrashApi, Moves, Keeps
<1>3. ASSUME CreateBackupRow PROVE Moves(x)
  <2>1. Become(x, "queued").status = "queued"
    BY <1>1, BecomeType DEF Statuses
  <2>2. x # Min(Unused) => backup'[x] = backup[x]
    BY <1>1, <1>3 DEF CreateBackupRow
  <2>3. x = Min(Unused) => backup'[x] = Become(x, "queued")
    BY <1>1, <1>3 DEF CreateBackupRow
  <2> QED
    BY <1>3, <2>1, <2>2, <2>3 DEF Moves, Keeps, Opens
<1>4. Dumping => Moves(x)
  BY HandlerMoves DEF Moves
<1>5. ASSUME Tidying PROVE Moves(x)
  <2>1. ListActive \/ SweepTemp => Moves(x)
    BY DEF ListActive, SweepTemp, Moves, Keeps
  <2>2. ASSUME CloseStale PROVE Moves(x)
    <3>1. Closed(backup[x]) # backup[x].status
            => /\ Closed(backup[x]) \in {"failed", "interrupted"}
               /\ backup[x].status \in {"queued", "running", "verifying"}
      BY DEF Closed
    <3>2. \A st \in {"failed", "interrupted"} : Become(x, st).status = st
      BY <1>1, BecomeType DEF Statuses
    <3>3. \/ backup'[x] = backup[x]
          \/ Closed(backup[x]) # backup[x].status /\ backup'[x] = Become(x, Closed(backup[x]))
      BY <2>2 DEF CloseStale
    <3> QED
      BY <3>1, <3>2, <3>3 DEF Moves, Keeps, Works
  <2> QED
    BY <1>5, <2>1, <2>2 DEF Tidying
<1>6. ASSUME NEW b \in Backups, Requesting(b) \/ TakeBackup(b) \/ StallBackup(b) \/ AgeBackup(b)
                                \/ QuietBackup(b) \/ AgeStaging(b)
      PROVE  Moves(x)
  <2>1. AddBackupJob(b) \/ TakeBackup(b) \/ StallBackup(b) \/ AgeStaging(b) => Moves(x)
    BY DEF AddBackupJob, TakeBackup, StallBackup, AgeStaging, Moves, Keeps
  <2>2. ASSUME EnqueueFailed(b) PROVE Moves(x)
    <3>1. Become(x, "failed").status = "failed"
      BY <1>1, BecomeType DEF Statuses
    <3>2. \/ backup'[x] = backup[x]
          \/ x = b /\ backup'[x] = Become(x, "failed") /\ deleter' = Disturbed("nobody", x)
      BY <1>1, <2>2 DEF EnqueueFailed
    <3> QED
      BY <2>2, <3>1, <3>2 DEF EnqueueFailed, Moves, Keeps, Drops
  <2>3. ASSUME SetJobId(b) PROVE Moves(x)
    <3>1. [backup[b] EXCEPT !.job = TRUE, !.quiet = FALSE].status = backup[b].status
          /\ [backup[b] EXCEPT !.job = TRUE, !.quiet = FALSE].verified = backup[b].verified
      BY <1>1 DEF BackupRow
    <3>2. x # b => backup'[x] = backup[x]
      BY <1>1, <2>3 DEF SetJobId
    <3>3. \/ backup'[b] = backup[b]
          \/ backup'[b] = [backup[b] EXCEPT !.job = TRUE, !.quiet = FALSE]
      BY <1>1, <2>3 DEF SetJobId
    <3> QED
      BY <3>1, <3>2, <3>3 DEF Moves, Keeps
  <2>4. ASSUME AgeBackup(b) PROVE Moves(x)
    <3> DEFINE a == IF backup[b].status = "queued" THEN "late" ELSE "aged"
    <3>1. backup' = [backup EXCEPT ![b].age = a] /\ a \in {"late", "aged"}
      BY <2>4 DEF AgeBackup
    <3> HIDE DEF a
    <3>2. [backup[b] EXCEPT !.age = a].status = backup[b].status
          /\ [backup[b] EXCEPT !.age = a].verified = backup[b].verified
      BY <1>1, <3>1 DEF BackupRow
    <3> QED
      BY <1>1, <3>1, <3>2 DEF Moves, Keeps
  <2>5. ASSUME QuietBackup(b) PROVE Moves(x)
    <3> DEFINE a == IF backup[b].age = "new" THEN "late" ELSE backup[b].age
    <3>1. backup' = [backup EXCEPT ![b].quiet = TRUE, ![b].age = a]
          /\ a \in {"new", "late", "aged"}
      BY <1>1, <2>5 DEF QuietBackup, BackupRow
    <3> HIDE DEF a
    <3>2. [backup[b] EXCEPT !.quiet = TRUE, !.age = a].status = backup[b].status
          /\ [backup[b] EXCEPT !.quiet = TRUE, !.age = a].verified = backup[b].verified
      BY <1>1, <3>1 DEF BackupRow
    <3> QED
      BY <1>1, <3>1, <3>2 DEF Moves, Keeps
  <2> QED
    BY <1>6, <2>1, <2>2, <2>3, <2>4, <2>5 DEF Requesting
<1>7. ASSUME NEW k \in Admins, NEW b \in Backups, RequestDelete(k, b) \/ RequestVerify(k, b)
      PROVE  Moves(x)
  BY <1>7 DEF RequestDelete, RequestVerify, Moves, Keeps
<1>8. ASSUME NEW k \in Deleters, Deleting(k) PROVE Moves(x)
  BY <1>8, DeletionMoves DEF Moves
<1>9. ASSUME RestartBackup PROVE Moves(x)
  <2>1. Become(x, "interrupted").status = "interrupted"
    BY <1>1, BecomeType DEF Statuses
  <2> QED
    BY <1>9, <2>1 DEF RestartBackup, Underway, Moves, Keeps, Works
<1> QED
  BY <1>2, <1>3, <1>4, <1>5, <1>6, <1>7, <1>8, <1>9 DEF BackupNext

-----------------------------------------------------------------------------
(* Rows, requests and the handler *)

\* Whoever has a row keeps it, and a number that is not in use stays so until it
\* is taken: the handler and the requests write to rows that are there.
LEMMA UnusedMoves ==
  ASSUME TypeInv, RequestInv, DumpInv, BackupNext
  PROVE  /\ \A x \in Backups : backup[x].status # "none" => backup'[x].status # "none"
         /\ Unused \ {Min(Unused)} \subseteq Unused'
         /\ CreateBackupRow \/ Unused \subseteq Unused'
         /\ CreateBackupRow =>
              /\ Unused \subseteq Backups /\ Min(Unused) \in Unused
              /\ backup'[Min(Unused)].status = "queued"
<1>1. ASSUME NEW x \in Backups, backup[x].status # "none" PROVE backup'[x].status # "none"
  BY <1>1, StepMoves DEF Moves, Keeps, Opens, Works, Ends, Drops, Deletes, Verifies
<1>2. ASSUME NEW x \in Backups, backup[x].status = "none", backup'[x].status # "none"
      PROVE  CreateBackupRow /\ x = Min(Unused)
  <2>1. ~Works(x) /\ ~Ends(x) /\ ~Drops(x)
    BY <1>2 DEF Works, Ends, Drops, DumpInv, RequestInv
  <2> QED
    BY <1>2, <2>1, StepMoves DEF Moves, Keeps, Opens, Deletes, Verifies
<1>3. ASSUME CreateBackupRow
      PROVE  /\ Unused \subseteq Backups /\ Min(Unused) \in Unused
             /\ backup'[Min(Unused)].status = "queued"
  <2>1. Unused \subseteq Backups /\ Cardinality(Unused) \in Nat
    BY Counted DEF Unused
  <2>2. asked > 0 /\ asked <= Cardinality(Unused) /\ asked \in Nat
    BY <1>3, BackupAssumption DEF CreateBackupRow, RequestInv, TypeInv, BackupTypeOK
  <2>3. Unused # {}
    BY <2>1, <2>2, FS_EmptySet
  <2>4. Min(Unused) \in Unused
    BY <2>1, <2>3, MinIn
  <2>5. backup'[Min(Unused)] = Become(Min(Unused), "queued")
    BY <1>3, <2>1, <2>4 DEF CreateBackupRow, TypeInv, BackupTypeOK
  <2>6. Become(Min(Unused), "queued").status = "queued"
    BY <2>1, <2>4, BecomeType DEF TypeInv, Statuses
  <2> QED
    BY <2>1, <2>4, <2>5, <2>6
<1>4. Unused \ {Min(Unused)} \subseteq Unused'
  BY <1>2 DEF Unused
<1>5. CreateBackupRow \/ Unused \subseteq Unused'
  BY <1>2 DEF Unused
<1> QED
  BY <1>1, <1>3, <1>4, <1>5

\* A request that works on a row inserted it.
LEMMA AddingMoves ==
  ASSUME TypeInv, BackupNext, NEW x \in Backups, adding'[x] # "no"
  PROVE  adding[x] # "no" \/ (CreateBackupRow /\ x = Min(Unused))
<1>1. adding \in [Backups -> {"no", "inserted", "added", "failing"}]
  BY DEF TypeInv, BackupTypeOK
<1>2. CreateBackupRow => adding[x] # "no" \/ (CreateBackupRow /\ x = Min(Unused))
  BY <1>1 DEF CreateBackupRow
<1>3. ASSUME NEW b \in Backups, Requesting(b) PROVE adding[x] # "no"
  BY <1>1, <1>3 DEF Requesting, AddBackupJob, SetJobId, EnqueueFailed
<1>4. ASSUME NEW b \in Backups, TakeBackup(b) \/ StallBackup(b) \/ AgeBackup(b) \/ QuietBackup(b)
                                \/ AgeStaging(b)
      PROVE  UNCHANGED adding
  BY <1>4 DEF TakeBackup, StallBackup, AgeBackup, QuietBackup, AgeStaging
<1>5. Dumping \/ Tidying => UNCHANGED adding
  BY DEF Dumping, ClaimBackup, Dump, MarkVerifying, PlaceArchive, CompleteBackup, FailBackup,
     RemoveStaging, SettleBackup, Tidying, CloseStale, ListActive, SweepTemp
<1>6. CountBlocking \/ BeginRetention \/ CrashBackup \/ RestartBackup => UNCHANGED adding
  BY DEF CountBlocking, BeginRetention, CrashBackup, RestartBackup
<1>7. ASSUME NEW k \in Admins, NEW b \in Backups, RequestDelete(k, b) \/ RequestVerify(k, b)
      PROVE  UNCHANGED adding
  BY <1>7 DEF RequestDelete, RequestVerify
<1>8. ASSUME NEW k \in Deleters, Deleting(k) PROVE UNCHANGED adding
  BY <1>8 DEF Deleting, UnlinkArchive, MarkDeleted, MarkVerifyResult
<1>9. ~CrashApi
  BY DEF CrashApi
<1> QED
  BY <1>2, <1>3, <1>4, <1>5, <1>6, <1>7, <1>8, <1>9 DEF BackupNext

\* The checks that passed: one more while there is a number for it, one less
\* when a row is inserted.
LEMMA AskedMoves ==
  ASSUME TypeInv, BackupNext
  PROVE  \/ asked' \in {asked, 0} /\ ~CreateBackupRow
         \/ CountBlocking
         \/ CreateBackupRow
<1>1. ASSUME NEW b \in Backups, Requesting(b) \/ TakeBackup(b) \/ StallBackup(b) \/ AgeBackup(b)
                                \/ QuietBackup(b) \/ AgeStaging(b)
      PROVE  UNCHANGED asked
  BY <1>1 DEF Requesting, AddBackupJob, SetJobId, EnqueueFailed, TakeBackup, StallBackup,
     AgeBackup, QuietBackup, AgeStaging
<1>2. Dumping \/ Tidying => UNCHANGED asked
  BY DEF Dumping, ClaimBackup, Dump, MarkVerifying, PlaceArchive, CompleteBackup, FailBackup,
     RemoveStaging, SettleBackup, Tidying, CloseStale, ListActive, SweepTemp
<1>3. BeginRetention \/ CrashBackup \/ RestartBackup => UNCHANGED asked
  BY DEF BeginRetention, CrashBackup, RestartBackup
<1>4. ASSUME NEW k \in Admins, NEW b \in Backups, RequestDelete(k, b) \/ RequestVerify(k, b)
      PROVE  UNCHANGED asked
  BY <1>4 DEF RequestDelete, RequestVerify
<1>5. ASSUME NEW k \in Deleters, Deleting(k) PROVE UNCHANGED asked
  BY <1>5 DEF Deleting, UnlinkArchive, MarkDeleted, MarkVerifyResult
<1>6. CrashApi => asked' = 0
  BY DEF CrashApi
<1> QED
  BY <1>1, <1>2, <1>3, <1>4, <1>5, <1>6 DEF BackupNext

LEMMA RequestNext ==
  ASSUME TypeInv, RequestInv, DumpInv, BackupNext
  PROVE  RequestInv'
<1>1. ASSUME NEW x \in Backups, adding'[x] # "no" PROVE backup'[x].status # "none"
  <2>1. CASE adding[x] # "no"
    BY <2>1, UnusedMoves DEF RequestInv
  <2>2. CASE CreateBackupRow /\ x = Min(Unused)
    BY <2>2, UnusedMoves
  <2> QED
    BY <1>1, <2>1, <2>2, AddingMoves
<1>2. asked' <= Cardinality(Unused')
  <2>1. /\ Unused \subseteq Backups /\ Unused' \subseteq Backups
        /\ asked \in Nat /\ asked <= Cardinality(Unused)
    BY BackupAssumption DEF Unused, RequestInv, TypeInv, BackupTypeOK
  <2>2. /\ IsFiniteSet(Unused) /\ Cardinality(Unused) \in Nat /\ Cardinality(Unused') \in Nat
    BY <2>1, Counted
  <2>3. CASE CreateBackupRow
    <3>1. Cardinality(Unused \ {Min(Unused)}) = Cardinality(Unused) - 1
      BY <2>2, <2>3, FS_RemoveElement, UnusedMoves
    <3>2. Cardinality(Unused \ {Min(Unused)}) <= Cardinality(Unused')
      BY <2>1, Counted, UnusedMoves
    <3>3. asked' = asked - 1
      BY <2>3 DEF CreateBackupRow
    <3> QED
      BY <2>1, <2>2, <3>1, <3>2, <3>3
  <2>4. CASE ~CreateBackupRow
    <3>1. Cardinality(Unused) <= Cardinality(Unused')
      BY <2>1, <2>4, Counted, UnusedMoves
    <3>2. asked' \in {asked, 0} \/ (asked < Cardinality(Unused) /\ asked' = asked + 1)
      BY <2>4, AskedMoves DEF CountBlocking
    <3> QED
      BY <2>1, <2>2, <3>1, <3>2
  <2> QED
    BY <2>3, <2>4
<1> QED
  BY <1>1, <1>2 DEF RequestInv

Busy == {"dump", "verify", "place", "complete", "fail"}

\* The handler begins on a row that it has just set running.
LEMMA BusyMoves ==
  ASSUME TypeInv, BackupNext, dumper'.pc \in Busy
  PROVE  /\ dumper'.b = dumper.b /\ dumper.b \in Backups
         /\ dumper.pc \in Busy \/ backup'[dumper.b].status = "running"
<1> DEFINE Goal == /\ dumper'.b = dumper.b
                   /\ dumper.pc \in Busy \/ backup'[dumper.b].status = "running"
<1>1. /\ dumper \in Handler /\ BackupTypeOK
      /\ dumper.pc # "idle" => dumper.b \in Backups
  BY DEF TypeInv, BackupTypeOK, Handler
<1>2. UNCHANGED dumper => Goal
  OBVIOUS
<1>3. \A pc : Onto(pc) => dumper'.pc = pc /\ dumper'.b = dumper.b
  BY <1>1 DEF Onto, Handler
<1>4. ASSUME ClaimBackup PROVE Goal
  <2>1. Onto("dump") /\ dumper.b \in Backups /\ backup' = [backup EXCEPT ![dumper.b] =
                                                             Become(dumper.b, "running")]
    BY <1>1, <1>3, <1>4 DEF ClaimBackup, DumperAt, Busy
  <2>2. backup'[dumper.b] = Become(dumper.b, "running")
    BY <1>1, <2>1 DEF BackupTypeOK
  <2>3. Become(dumper.b, "running").status = "running"
    BY <1>1, <2>1, BecomeType DEF Statuses
  <2> QED
    BY <1>3, <2>1, <2>2, <2>3
<1>5. ASSUME Dump \/ MarkVerifying \/ PlaceArchive \/ CompleteBackup \/ FailBackup PROVE Goal
  <2>1. dumper.pc \in Busy
    BY <1>5 DEF Dump, MarkVerifying, PlaceArchive, CompleteBackup, FailBackup, DumperAt, Busy
  <2>2. \E pc : Onto(pc)
    BY <1>5 DEF Dump, MarkVerifying, PlaceArchive, CompleteBackup, FailBackup
  <2> QED
    BY <1>3, <2>1, <2>2
<1>6. ~RemoveStaging /\ ~SettleBackup /\ ~CrashBackup
  BY <1>3 DEF RemoveStaging, SettleBackup, CrashBackup, Busy
<1>7. ASSUME NEW b \in Backups, Requesting(b) \/ TakeBackup(b) \/ StallBackup(b) \/ AgeBackup(b)
                                \/ QuietBackup(b) \/ AgeStaging(b)
      PROVE  UNCHANGED dumper
  BY <1>7 DEF Requesting, AddBackupJob, SetJobId, EnqueueFailed, TakeBackup, StallBackup,
     AgeBackup, QuietBackup, AgeStaging, Busy
<1>8. CountBlocking \/ CreateBackupRow \/ Tidying \/ BeginRetention \/ RestartBackup \/ CrashApi
        => UNCHANGED dumper
  BY DEF CountBlocking, CreateBackupRow, Tidying, CloseStale, ListActive, SweepTemp,
     BeginRetention, RestartBackup, CrashApi
<1>9. ASSUME NEW k \in Admins, NEW b \in Backups, RequestDelete(k, b) \/ RequestVerify(k, b)
      PROVE  UNCHANGED dumper
  BY <1>9 DEF RequestDelete, RequestVerify
<1>10. ASSUME NEW k \in Deleters, Deleting(k) PROVE UNCHANGED dumper
  BY <1>10 DEF Deleting, UnlinkArchive, MarkDeleted, MarkVerifyResult
<1> HIDE DEF Goal
<1>11. Goal
  BY <1>2, <1>4, <1>5, <1>6, <1>7, <1>8, <1>9, <1>10 DEF BackupNext, Dumping
<1>12. dumper'.b \in Backups
  BY TypeNext DEF TypeInv, Busy
<1> QED
  BY <1>11, <1>12 DEF Goal

LEMMA DumpNext ==
  ASSUME TypeInv, RequestInv, DumpInv, BackupNext
  PROVE  DumpInv'
<1> DEFINE x == dumper.b
<1> SUFFICES ASSUME dumper'.pc \in Busy
             PROVE  backup'[dumper'.b].status \notin {"none", "completed"}
  BY DEF DumpInv, Busy
<1>1. dumper'.b = x /\ x \in Backups /\ (dumper.pc \in Busy \/ backup'[x].status = "running")
  BY BusyMoves
<1>2. CASE dumper.pc \in Busy
  <2>1. backup[x].status \notin {"none", "completed"}
    BY <1>2 DEF DumpInv, Busy
  <2>2. ~Opens(x)
    BY <1>1, <2>1, UnusedMoves DEF Opens, Unused
  <2>3. ~Ends(x)
    BY DEF Ends, Busy
  <2>4. Moves(x)
    BY <1>1, StepMoves
  <2> HIDE DEF x
  <2> QED
    BY <1>1, <2>1, <2>2, <2>3, <2>4 DEF Moves, Keeps, Works, Drops, Deletes, Verifies
<1> QED
  BY <1>1, <1>2

-----------------------------------------------------------------------------
(* Deletions *)

\* A deletion or a verification under way has a target, and it is one of its
\* candidates.
LEMMA TargetIn ==
  ASSUME TypeInv, TodoInv, NEW k \in Deleters, deleter[k].pc # "idle"
  PROVE  Target(k) \in deleter[k].todo /\ Target(k) \in Backups
<1>1. deleter[k].todo \subseteq Backups /\ deleter[k].todo # {}
  BY DEF TypeInv, BackupTypeOK, Deleter, TodoInv
<1> QED
  BY <1>1, MinIn DEF Target

\* What a step does to one deletion: nothing, or it is over, disturbed, past its
\* target, or begins.
Goes(k) ==
  /\ deleter[k].pc \in {"unlink", "mark"} /\ deleter'[k].todo \subseteq deleter[k].todo
  /\ deleter'[k].undisturbed => deleter[k].undisturbed
  /\ deleter'[k].checked => deleter[k].checked

Begins(k) ==
  /\ UNCHANGED backup
  /\ deleter'[k].checked => Spared(deleter'[k].todo) >= MinRetained

DeleterMoves(k) ==
  /\ deleter'[k].pc # "idle" =>
       deleter'[k].todo # {} \/ (deleter[k].pc # "idle" /\ deleter'[k].todo = deleter[k].todo)
  /\ deleter'[k].pc \in {"unlink", "mark"} => Goes(k) \/ Begins(k)

LEMMA PassedMoves ==
  ASSUME TypeInv, NEW k \in Deleters, deleter'[k] = Passed(k),
         deleter[k].pc \in {"unlink", "mark"}
  PROVE  DeleterMoves(k)
<1> DEFINE rest == deleter[k].todo \ {Target(k)}
<1>1. CASE rest = {}
  BY <1>1 DEF Passed, NoDeleter, DeleterMoves
<1>2. CASE rest # {}
  <2>1. deleter[k] \in Deleter /\ rest \subseteq deleter[k].todo
    BY DEF TypeInv, BackupTypeOK
  <2>2. deleter'[k] = [deleter[k] EXCEPT !.pc = "unlink", !.todo = rest]
    BY <1>2 DEF Passed
  <2> HIDE DEF rest
  <2>3. /\ deleter'[k].todo = rest /\ deleter'[k].undisturbed = deleter[k].undisturbed
        /\ deleter'[k].checked = deleter[k].checked
    BY <2>1, <2>2 DEF Deleter
  <2> QED
    BY <1>2, <2>1, <2>3 DEF DeleterMoves, Goes
<1> QED
  BY <1>1, <1>2

\* One that is disturbed knows.
LEMMA DisturbedMoves ==
  ASSUME TypeInv, NEW k \in Deleters, NEW o, NEW b, deleter'[k] = Disturbed(o, b)[k]
  PROVE  DeleterMoves(k)
<1>1. deleter[k] \in Deleter
  BY DEF TypeInv, BackupTypeOK
<1>2. \/ deleter'[k] = deleter[k]
      \/ deleter'[k] = [deleter[k] EXCEPT !.undisturbed = FALSE]
  BY DEF Disturbed
<1>3. /\ deleter'[k].pc = deleter[k].pc /\ deleter'[k].todo = deleter[k].todo
      /\ deleter'[k].undisturbed => deleter[k].undisturbed
      /\ deleter'[k].checked = deleter[k].checked
  BY <1>1, <1>2 DEF Deleter
<1> QED
  BY <1>3 DEF DeleterMoves, Goes

LEMMA StepDeleter ==
  ASSUME TypeInv, BackupNext, NEW k \in Deleters
  PROVE  DeleterMoves(k)
<1>1. /\ deleter \in [Deleters -> Deleter] /\ deleter[k] \in Deleter /\ NoDeleter.pc = "idle"
      /\ deleter[k].todo \subseteq Backups
  BY DEF TypeInv, BackupTypeOK, NoDeleter, Deleter
<1>2. deleter'[k] = deleter[k] => DeleterMoves(k)
  BY DEF DeleterMoves, Goes
<1>3. deleter'[k] = NoDeleter => DeleterMoves(k)
  BY <1>1 DEF DeleterMoves
<1>4. CountBlocking \/ CreateBackupRow \/ Dumping \/ Tidying \/ RestartBackup => DeleterMoves(k)
  BY <1>2 DEF CountBlocking, CreateBackupRow, RestartBackup, Dumping, ClaimBackup, Dump,
     MarkVerifying, PlaceArchive, CompleteBackup, FailBackup, RemoveStaging, SettleBackup, Tidying,
     CloseStale, ListActive, SweepTemp
<1>5. ASSUME BeginRetention PROVE DeleterMoves(k)
  <2>1. CASE k # "retention"
    BY <1>1, <1>2, <1>5, <2>1 DEF BeginRetention
  <2>2. CASE k = "retention"
    <3>1. deleter'[k].todo = RetentionCandidates /\ RetentionCandidates # {} /\ UNCHANGED backup
      BY <1>1, <1>5, <2>2 DEF BeginRetention, NoDeleter
    <3> QED
      BY <3>1, CandidatesSpare DEF DeleterMoves, Begins
  <2> QED
    BY <2>1, <2>2
<1>6. ASSUME NEW b \in Backups, Requesting(b) \/ TakeBackup(b) \/ StallBackup(b) \/ AgeBackup(b)
                                \/ QuietBackup(b) \/ AgeStaging(b)
      PROVE  DeleterMoves(k)
  <2>1. UNCHANGED deleter \/ deleter' = Disturbed("nobody", b)
    BY <1>6 DEF Requesting, AddBackupJob, SetJobId, EnqueueFailed, TakeBackup, StallBackup,
       AgeBackup, QuietBackup, AgeStaging
  <2> QED
    BY <1>2, <2>1, DisturbedMoves
<1>7. ASSUME NEW o \in Admins, NEW b \in Backups, RequestDelete(o, b) \/ RequestVerify(o, b)
      PROVE  DeleterMoves(k)
  <2>1. CASE k # o
    BY <1>1, <1>2, <1>7, <2>1 DEF RequestDelete, RequestVerify
  <2>2. CASE k = o /\ RequestDelete(o, b)
    <3> DEFINE sure == b \in Points /\ Spared({b}) >= MinRetained
    <3>1. /\ deleter'[k].todo = {b} /\ (deleter'[k].checked <=> sure) /\ UNCHANGED backup
      BY <1>1, <2>2 DEF RequestDelete
    <3> QED
      BY <3>1 DEF DeleterMoves, Begins
  <2>3. CASE k = o /\ RequestVerify(o, b)
    <3>1. deleter'[k] = [NoDeleter EXCEPT !.pc = "verify", !.todo = {b}]
      BY <1>1, <2>3 DEF RequestVerify
    <3>2. deleter'[k].pc = "verify" /\ deleter'[k].todo = {b}
      BY <3>1 DEF NoDeleter
    <3> QED
      BY <3>2 DEF DeleterMoves
  <2> QED
    BY <1>7, <2>1, <2>2, <2>3
<1>8. ASSUME NEW o \in Deleters, UnlinkArchive(o) PROVE DeleterMoves(k)
  <2>1. CASE k # o
    BY <1>1, <1>2, <1>8, <2>1 DEF UnlinkArchive
  <2>2. CASE k = o
    <3>1. deleter[k].pc = "unlink"
      BY <1>8, <2>2 DEF UnlinkArchive
    <3>2. deleter'[k] = [deleter[k] EXCEPT !.pc = "mark"] => DeleterMoves(k)
      BY <1>1, <3>1 DEF DeleterMoves, Goes, Deleter
    <3>3. deleter'[k] = [deleter[k] EXCEPT !.pc = "mark"] \/ deleter'[k] = Passed(k)
      BY <1>1, <1>8, <2>2 DEF UnlinkArchive
    <3> QED
      BY <3>1, <3>2, <3>3, PassedMoves
  <2> QED
    BY <2>1, <2>2
<1>9. ASSUME NEW o \in Deleters, MarkDeleted(o) PROVE DeleterMoves(k)
  <2>1. \A b : Disturbed(o, b) \in [Deleters -> Deleter]
    BY DeleterType DEF TypeInv
  <2>2. CASE k # o
    <3>1. deleter'[k] = deleter[k] \/ deleter'[k] = Disturbed(o, Target(o))[k]
      BY <1>1, <1>9, <2>1, <2>2 DEF MarkDeleted
    <3> QED
      BY <1>2, <3>1, DisturbedMoves
  <2>3. CASE k = o
    <3>1. deleter[k].pc = "mark" /\ deleter'[k] = Passed(k)
      BY <1>1, <1>9, <2>1, <2>3 DEF MarkDeleted
    <3> QED
      BY <3>1, PassedMoves
  <2> QED
    BY <2>2, <2>3
<1>10. ASSUME NEW o \in Deleters, MarkVerifyResult(o) PROVE DeleterMoves(k)
  <2>1. Disturbed(o, Target(o)) \in [Deleters -> Deleter]
    BY DeleterType DEF TypeInv
  <2>2. PICK d \in {deleter, Disturbed(o, Target(o))} : deleter' = [d EXCEPT ![o] = NoDeleter]
    BY <1>10 DEF MarkVerifyResult
  <2>3. deleter'[k] \in {NoDeleter, deleter[k], Disturbed(o, Target(o))[k]}
    BY <1>1, <2>1, <2>2
  <2> QED
    BY <1>2, <1>3, <2>3, DisturbedMoves
<1>11. ASSUME CrashBackup \/ CrashApi PROVE DeleterMoves(k)
  <2>1. deleter'[k] \in {NoDeleter, deleter[k]}
    BY <1>1, <1>11 DEF CrashBackup, CrashApi
  <2> QED
    BY <1>2, <1>3, <2>1
<1> QED
  BY <1>4, <1>5, <1>6, <1>7, <1>8, <1>9, <1>10, <1>11 DEF BackupNext, Deleting

LEMMA TodoNext ==
  ASSUME TypeInv, TodoInv, BackupNext
  PROVE  TodoInv'
<1>1. ASSUME NEW k \in Deleters, deleter'[k].pc # "idle" PROVE deleter'[k].todo # {}
  BY <1>1, StepDeleter DEF DeleterMoves, TodoInv
<1> QED
  BY <1>1 DEF TodoInv

\* A recovery point that is lost is the target of a deletion or a verification,
\* and every other deletion under way is told.
LEMMA PointsStay ==
  ASSUME TypeInv, RequestInv, DumpInv, TodoInv, BackupNext,
         NEW k \in Deleters, Goes(k), deleter'[k].pc # "idle", deleter'[k].undisturbed,
         NEW x \in Points \ deleter[k].todo
  PROVE  x \in Points'
<1>1. /\ x \in Backups /\ backup[x].status = "completed" /\ backup[x].verified # "failed"
      /\ deleter[k].pc # "idle" /\ deleter \in [Deleters -> Deleter]
  BY DEF Points, Goes, TypeInv, BackupTypeOK
<1>2. Keeps(x) => x \in Points'
  BY <1>1 DEF Keeps, Points
<1>3. ~Opens(x) /\ ~Works(x)
  BY <1>1, UnusedMoves DEF Opens, Unused, Works
<1>4. Ends(x) => x \in Points'
  BY <1>1 DEF Ends, Points, DumpInv
<1>5. ASSUME NEW o, o # k PROVE Disturbed(o, x)[k].undisturbed = FALSE
  <2>1. Disturbed(o, x)[k] = [deleter[k] EXCEPT !.undisturbed = FALSE]
    BY <1>1, <1>5 DEF Disturbed
  <2> QED
    BY <1>1, <2>1 DEF Deleter
<1>6. ~Drops(x)
  <2>1. k # "nobody"
    BY BackupAssumption DEF Deleters
  <2> QED
    BY <1>5, <2>1 DEF Drops
<1>7. ASSUME NEW o \in Deleters, Deletes(o, x) PROVE FALSE
  <2>1. CASE o = k
    BY <1>1, <1>7, <2>1, TargetIn DEF Deletes
  <2>2. CASE o # k
    <3>1. Disturbed(o, x) \in [Deleters -> Deleter]
      BY DeleterType DEF TypeInv
    <3>2. deleter'[k] = Disturbed(o, x)[k]
      BY <1>7, <2>2, <3>1 DEF Deletes
    <3> QED
      BY <1>5, <2>2, <3>2
  <2> QED
    BY <2>1, <2>2
<1>8. ASSUME NEW o \in Deleters, Verifies(o, x) PROVE x \in Points'
  <2>1. CASE backup'[x].verified = "passed"
    BY <1>1, <1>8, <2>1 DEF Verifies, Points
  <2>2. CASE deleter' = [Disturbed(o, x) EXCEPT ![o] = NoDeleter]
    <3>1. Disturbed(o, x) \in [Deleters -> Deleter]
      BY DeleterType DEF TypeInv
    <3>2. CASE o = k
      BY <2>2, <3>1, <3>2 DEF NoDeleter
    <3>3. CASE o # k
      <4>1. deleter'[k] = Disturbed(o, x)[k]
        BY <2>2, <3>1, <3>3
      <4> QED
        BY <1>5, <3>3, <4>1
    <3> QED
      BY <3>2, <3>3
  <2> QED
    BY <1>8, <2>1, <2>2 DEF Verifies
<1>9. Moves(x)
  BY <1>1, StepMoves
<1> QED
  BY <1>2, <1>3, <1>4, <1>6, <1>7, <1>8, <1>9 DEF Moves

LEMMA FloorNext ==
  ASSUME FloorInv, BackupNext
  PROVE  FloorKept'
<1> SUFFICES ASSUME NEW k \in Deleters,
                    deleter'[k].pc \in {"unlink", "mark"},
                    deleter'[k].undisturbed, deleter'[k].checked
             PROVE  Cardinality(Points' \ deleter'[k].todo) >= MinRetained
  BY DEF FloorKept, Spared
<1> USE DEF FloorInv
<1>1. CASE Goes(k)
  <2>1. Points \ deleter[k].todo \subseteq Points' \ deleter'[k].todo
    BY <1>1, PointsStay DEF Goes
  <2>2. Points' \subseteq Backups
    BY DEF Points
  <2>3. /\ Cardinality(Points \ deleter[k].todo) <= Cardinality(Points' \ deleter'[k].todo)
        /\ Cardinality(Points \ deleter[k].todo) \in Nat
        /\ Cardinality(Points' \ deleter'[k].todo) \in Nat
    BY <2>1, <2>2, Counted
  <2>4. Cardinality(Points \ deleter[k].todo) >= MinRetained
    BY <1>1 DEF Goes, FloorKept, Spared
  <2> QED
    BY <2>3, <2>4, BackupAssumption
<1>2. CASE Begins(k)
  <2>1. Points' = Points
    BY <1>2 DEF Begins, Points
  <2> QED
    BY <1>2, <2>1 DEF Begins, Spared
<1> QED
  BY <1>1, <1>2, StepDeleter DEF DeleterMoves

-----------------------------------------------------------------------------
(* Theorems *)

LEMMA FloorInit == BackupInit => FloorInv
<1> SUFFICES ASSUME BackupInit PROVE FloorInv
  OBVIOUS
<1>1. TypeInv
  BY TypeInit
<1>2. RequestInv
  <2>1. Unused \subseteq Backups
    BY DEF Unused
  <2>2. Cardinality(Unused) \in Nat
    BY <2>1, Counted
  <2> QED
    BY <2>2 DEF BackupInit, RequestInv
<1>3. DumpInv
  BY DEF BackupInit, DumpInv
<1>4. TodoInv /\ FloorKept
  BY DEF BackupInit, TodoInv, FloorKept, NoDeleter
<1> QED
  BY <1>1, <1>2, <1>3, <1>4 DEF FloorInv

LEMMA FloorStep ==
  ASSUME FloorInv, [BackupNext]_<<backupOwn, stops>>
  PROVE  FloorInv'
<1>1. CASE BackupNext
  BY <1>1, TypeNext, RequestNext, DumpNext, TodoNext, FloorNext DEF FloorInv
<1>2. CASE UNCHANGED <<backupOwn, stops>>
  BY <1>2 DEF backupOwn, FloorInv, TypeInv, BackupTypeOK, RequestInv, Unused, DumpInv, TodoInv,
     FloorKept, Spared, Points
<1> QED
  BY <1>1, <1>2

\* Rows, jobs, archives, handlers and deletions are always what they should be,
\* whatever fails or dies.
THEOREM BackupTypeCorrect == BackupSpec => []BackupTypeOK
<1>1. BackupInit => FloorInv
  BY FloorInit
<1>2. FloorInv /\ [BackupNext]_<<backupOwn, stops>> => FloorInv'
  BY FloorStep
<1>3. FloorInv => BackupTypeOK
  BY DEF FloorInv, TypeInv
<1> QED
  BY <1>1, <1>2, <1>3, PTL DEF BackupSpec

\* Deletions that passed the check of recoveryPointsAfterDelete or the choice of
\* selectRetentionCandidates, and during which nobody else took a recovery point
\* away, leave MinRetained recovery points.
THEOREM Floor == BackupSpec => []FloorKept
<1>1. BackupInit => FloorInv
  BY FloorInit
<1>2. FloorInv /\ [BackupNext]_<<backupOwn, stops>> => FloorInv'
  BY FloorStep
<1>3. FloorInv => FloorKept
  BY DEF FloorInv
<1> QED
  BY <1>1, <1>2, <1>3, PTL DEF BackupSpec

=============================================================================
