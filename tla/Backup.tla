------------------------------- MODULE Backup -------------------------------
(***************************************************************************)
(* System backups: the API (on request) and the backup worker (on its cron *)
(* schedule) insert a row of system_backups and add a BullMQ job; the      *)
(* worker, one job at a time, dumps into a staging directory, places the   *)
(* archive in the backup directory and completes the row.  A reconciler of *)
(* the same process closes rows that stopped moving and sweeps staging     *)
(* directories; an hourly retention sweep and the administrators delete    *)
(* archives, and administrators verify them again.                         *)
(*                                                                         *)
(* Backups are numbered in the order their rows are created.  A staging    *)
(* directory is named after its backup and the worker's pid, which is the  *)
(* same after a restart of its container.                                  *)
(***************************************************************************)
EXTENDS JobQueue, FiniteSetsExt

CONSTANTS
  MaxBackups,    \* bound: rows that are ever created
  Earlier,       \* how many of them are there, completed, to begin with
  MinRetained,   \* BACKUP_MIN_RETAINED
  Admins         \* requests to delete or verify that may be under way at once

ASSUME BackupAssumption ==
  /\ MaxBackups \in Nat /\ Earlier \in 0 .. MaxBackups
  /\ MinRetained \in Nat \ {0}
  /\ {"retention", "nobody"} \cap Admins = {}

VARIABLES
  backup,      \* PostgreSQL: system_backups
  archives,    \* the archives in the backup directory
  staging,     \* the staging directories, and which are over six hours old
  backupJobs,  \* Redis: the backup queue
  asked,       \* requests for a new backup that passed the concurrency check
  adding,      \* how far the request that inserted the row is
  dumper,      \* the handler of the worker
  deleter,     \* deletions and verifications under way, by who runs them
  tidy,        \* reconcileStale
  backupUp     \* the backup worker runs

backupOwn == <<backup, archives, staging, backupJobs, asked, adding, dumper,
               deleter, tidy, backupUp>>

Backups == 1 .. MaxBackups

Deleters == Admins \cup {"retention"}

\* age: of created_at: past orphanQueuedMinutes, past retentionDays.
\* quiet: updated_at is past staleJobTimeoutMinutes.  file: archive_filename.
BackupRow ==
  [status : {"none", "queued", "running", "verifying", "completed", "failed",
             "interrupted", "deleted"},
   age : {"new", "late", "aged"}, quiet : BOOLEAN, job : BOOLEAN,
   file : BOOLEAN, verified : {"no", "passed", "failed"}]

NoBackup == [status |-> "none", age |-> "new", quiet |-> FALSE, job |-> FALSE,
             file |-> FALSE, verified |-> "no"]

EarlierBackup == [NoBackup EXCEPT !.status = "completed", !.age = "late",
                                  !.job = TRUE, !.file = TRUE,
                                  !.verified = "passed"]

\* todo: candidates of the sweep; checked: they are recovery points, and enough
\* others remain; undisturbed (history): nobody else has taken a recovery point
\* away since the rows were read.
Deleter == [pc : {"idle", "unlink", "mark", "verify"}, todo : SUBSET Backups,
            undisturbed : BOOLEAN, checked : BOOLEAN]

NoDeleter == [pc |-> "idle", todo |-> {}, undisturbed |-> TRUE,
              checked |-> FALSE]

BackupTypeOK ==
  /\ backup \in [Backups -> BackupRow]
  /\ archives \subseteq Backups
  /\ staging \in [Backups -> {"none", "young", "old"}]
  /\ backupJobs \in [Backups -> JobEntry({"worker"})]
  /\ asked \in 0 .. MaxBackups
  /\ adding \in [Backups -> {"no", "inserted", "added", "failing"}]
  /\ dumper \in [pc : {"idle", "claim", "dump", "verify", "place", "complete",
                       "fail", "clean", "settle"}, b : 0 .. MaxBackups]
  /\ deleter \in [Deleters -> Deleter]
  /\ tidy \in [pc : {"idle", "list", "sweep"}, keep : SUBSET Backups]
  /\ backupUp \in BOOLEAN
  /\ stops \in 0 .. MaxStops

BackupInit ==
  /\ backup = [b \in Backups |-> IF b <= Earlier THEN EarlierBackup ELSE NoBackup]
  /\ archives = 1 .. Earlier
  /\ staging = [b \in Backups |-> "none"]
  /\ backupJobs = [b \in Backups |->
                     IF b <= Earlier THEN [NoEntry EXCEPT !.st = "ended"] ELSE NoEntry]
  /\ asked = 0
  /\ adding = [b \in Backups |-> "no"]
  /\ dumper = [pc |-> "idle", b |-> 0]
  /\ deleter = [k \in Deleters |-> NoDeleter]
  /\ tidy = [pc |-> "idle", keep |-> {}]
  /\ backupUp = TRUE
  /\ stops = 0

-----------------------------------------------------------------------------
(* The store *)

\* Rows still to come, as far as the bound allows.
Unused == {b \in Backups : backup[b].status = "none"}

Underway(b) == backup[b].status \in {"queued", "running", "verifying"}

\* countBlockingBackups: not the queued rows no job was recorded for in time.
Blocking ==
  {b \in Backups : \/ backup[b].status \in {"running", "verifying"}
                   \/ /\ backup[b].status = "queued"
                      /\ backup[b].job \/ backup[b].age = "new"}

\* An UPDATE sets updated_at too.
Become(b, st) == [backup[b] EXCEPT !.status = st, !.quiet = FALSE]

\* isRecoveryPoint
Points == {b \in Backups : /\ backup[b].status = "completed"
                           /\ backup[b].verified # "failed"}

\* recoveryPointsAfterDelete
Spared(S) == Cardinality(Points \ S)

Newest(S, n) == {b \in S : Cardinality({c \in S : c > b}) < n}

\* Mutant: the newest backups are kept whether or not they can be restored.
RetentionCandidatesAny ==
  {b \in Points \ Newest({c \in Backups : backup[c].status = "completed"},
                         MinRetained) : backup[b].age = "aged"}

\* selectRetentionCandidates
RetentionCandidates ==
  {b \in Points \ Newest(Points, MinRetained) : backup[b].age = "aged"}

\* History: b is no longer a recovery point, by the doing of k.
Disturbed(k, b) ==
  [o \in Deleters |-> IF o # k /\ b \in Points /\ deleter[o].pc # "idle"
                      THEN [deleter[o] EXCEPT !.undisturbed = FALSE]
                      ELSE deleter[o]]

-----------------------------------------------------------------------------
(* enqueueBackup, in the API, and maybeEnqueueScheduled, in the worker *)

\* The concurrency check (maxConcurrent is one) ...
CountBlocking ==
  /\ Blocking = {} /\ asked < Cardinality(Unused)
  /\ asked' = asked + 1
  /\ UNCHANGED <<backup, archives, staging, backupJobs, adding, dumper,
                 deleter, tidy, backupUp, stops>>

\* ... createBackupRow ...
CreateBackupRow ==
  /\ asked > 0
  /\ asked' = asked - 1
  /\ LET b == Min(Unused) IN
     /\ backup' = [backup EXCEPT ![b] = Become(b, "queued")]
     /\ adding' = [adding EXCEPT ![b] = "inserted"]
  /\ UNCHANGED <<archives, staging, backupJobs, dumper, deleter, tidy,
                 backupUp, stops>>

\* ... backupQueue.add, which fails when Redis is away, and which for a job id
\* of the same scheduled minute returns the job that is there already ...
AddBackupJob(b) ==
  /\ adding[b] = "inserted"
  /\ \/ backupJobs' = Added(backupJobs, b) /\ adding' = [adding EXCEPT ![b] = "added"]
     \/ UNCHANGED backupJobs /\ \E a \in {"added", "failing"} :
                                  adding' = [adding EXCEPT ![b] = a]
  /\ UNCHANGED <<backup, archives, staging, asked, dumper, deleter, tidy,
                 backupUp, stops>>

\* ... setJobId; when it throws the row is marked failed with its job queued ...
SetJobId(b) ==
  /\ adding[b] = "added"
  /\ \/ /\ backup' = [backup EXCEPT ![b].job = TRUE, ![b].quiet = FALSE]
        /\ adding' = [adding EXCEPT ![b] = "no"]
     \/ DbErrors /\ UNCHANGED backup /\ adding' = [adding EXCEPT ![b] = "failing"]
  /\ UNCHANGED <<archives, staging, backupJobs, asked, dumper, deleter, tidy,
                 backupUp, stops>>

\* ... or markFailed, whatever has become of the row.
EnqueueFailed(b) ==
  /\ adding[b] = "failing"
  /\ adding' = [adding EXCEPT ![b] = "no"]
  /\ \/ /\ backup' = [backup EXCEPT ![b] = Become(b, "failed")]
        /\ deleter' = Disturbed("nobody", b)
     \/ DbErrors /\ UNCHANGED <<backup, deleter>>
  /\ UNCHANGED <<archives, staging, backupJobs, asked, dumper, tidy, backupUp,
                 stops>>

-----------------------------------------------------------------------------
(* executeBackupJob *)

DumperAt(pc) == backupUp /\ dumper.pc = pc

Onto(pc) == dumper' = [dumper EXCEPT !.pc = pc]

TakeBackup(b) ==
  /\ DumperAt("idle")
  /\ backupJobs[b].st = "waiting"
  /\ backupJobs' = Taken(backupJobs, b, "worker")
  /\ dumper' = [pc |-> "claim", b |-> b]
  /\ UNCHANGED <<backup, archives, staging, asked, adding, deleter, tidy,
                 backupUp, stops>>

\* claimBackup also takes a row that failed or was interrupted.  When the backup
\* directory cannot be made ready then, the handler leaves the row running.
ClaimBackup ==
  LET b == dumper.b IN
  /\ DumperAt("claim")
  /\ \/ /\ backup[b].status \in {"queued", "failed", "interrupted"}
        /\ backup' = [backup EXCEPT ![b] = Become(b, "running")]
        /\ Onto("dump") \/ Onto("settle")
     \/ /\ backup[b].status \notin {"queued", "failed", "interrupted"} \/ DbErrors
        /\ UNCHANGED backup /\ Onto("settle")
  /\ UNCHANGED <<archives, staging, backupJobs, asked, adding, deleter, tidy,
                 backupUp, stops>>

\* mkdir, which leaves the age of a directory that is there already; then the
\* snapshot, the dump, checksums and manifest are written into it.
Dump ==
  LET b == dumper.b IN
  /\ DumperAt("dump")
  /\ staging' = [staging EXCEPT ![b] = IF @ = "none" THEN "young" ELSE @]
  /\ Onto("verify") \/ Onto("fail")
  /\ UNCHANGED <<backup, archives, backupJobs, asked, adding, deleter, tidy,
                 backupUp, stops>>

\* markVerifying, whose outcome is not looked at.
MarkVerifying ==
  LET b == dumper.b IN
  /\ DumperAt("verify")
  /\ \/ /\ backup' = [backup EXCEPT ![b] =
                  IF @.status = "running" THEN Become(b, "verifying") ELSE @]
        /\ Onto("place")
     \/ DbErrors /\ UNCHANGED backup /\ Onto("fail")
  /\ UNCHANGED <<archives, staging, backupJobs, asked, adding, deleter, tidy,
                 backupUp, stops>>

\* The bundle is verified, packed, encrypted, and put in place; each of them
\* fails when the staging directory is gone.
PlaceArchive ==
  LET b == dumper.b IN
  /\ DumperAt("place")
  /\ \/ /\ staging[b] # "none"
        /\ archives' = archives \cup {b}
        /\ Onto("complete")
     \/ UNCHANGED archives /\ Onto("fail")
  /\ UNCHANGED <<backup, staging, backupJobs, asked, adding, deleter, tidy,
                 backupUp, stops>>

\* markCompleted: WHERE id.
CompleteBackup ==
  LET b == dumper.b IN
  /\ DumperAt("complete")
  /\ \/ /\ backup' = [backup EXCEPT ![b] =
                        [Become(b, "completed") EXCEPT !.file = TRUE,
                                                       !.verified = "passed"]]
        /\ Onto("clean")
     \/ DbErrors /\ UNCHANGED backup /\ Onto("fail")
  /\ UNCHANGED <<archives, staging, backupJobs, asked, adding, deleter, tidy,
                 backupUp, stops>>

\* The catch block: markFailed, WHERE id.
FailBackup ==
  LET b == dumper.b IN
  /\ DumperAt("fail")
  /\ \/ backup' = [backup EXCEPT ![b] = Become(b, "failed")]
     \/ DbErrors /\ UNCHANGED backup
  /\ Onto("clean")
  /\ UNCHANGED <<archives, staging, backupJobs, asked, adding, deleter, tidy,
                 backupUp, stops>>

\* The finally block.
RemoveStaging ==
  /\ DumperAt("clean")
  /\ staging' = [staging EXCEPT ![dumper.b] = "none"]
  /\ Onto("settle")
  /\ UNCHANGED <<backup, archives, backupJobs, asked, adding, deleter, tidy,
                 backupUp, stops>>

SettleBackup ==
  /\ DumperAt("settle")
  /\ backupJobs' = Settled(backupJobs, dumper.b, "worker")
  /\ dumper' = [pc |-> "idle", b |-> 0]
  /\ UNCHANGED <<backup, archives, staging, asked, adding, deleter, tidy,
                 backupUp, stops>>

\* BullMQ's stalled check: the lock lapsed, in a dead process or a busy one.
StallBackup(b) ==
  /\ backupUp /\ backupJobs[b].st = "active"
  /\ backupJobs' = TakenBack(backupJobs, b)
  /\ UNCHANGED <<backup, archives, staging, asked, adding, dumper, deleter,
                 tidy, backupUp, stops>>

-----------------------------------------------------------------------------
(* Deleting and verifying *)

\* DELETE /api/backups/:id reads the row and the recovery points it leaves;
\* below MinRetained only with confirm_unsafe, then nothing was checked.
RequestDelete(k, b) ==
  /\ deleter[k].pc = "idle"
  /\ backup[b].status \in {"completed", "failed", "interrupted"}
  /\ deleter' = [deleter EXCEPT ![k] =
       [pc |-> IF backup[b].file THEN "unlink" ELSE "mark",
        todo |-> {b}, undisturbed |-> TRUE,
        checked |-> b \in Points /\ Spared({b}) >= MinRetained]]
  /\ UNCHANGED <<backup, archives, staging, backupJobs, asked, adding, dumper,
                 tidy, backupUp, stops>>

\* runRetentionSweep reads all rows once.  It waits for one deletion before the
\* next; which candidate is next is not the property's concern.
BeginRetention ==
  /\ backupUp /\ deleter["retention"].pc = "idle"
  /\ RetentionCandidates # {}
  /\ deleter' = [deleter EXCEPT !["retention"] =
       [NoDeleter EXCEPT !.pc = "unlink", !.todo = RetentionCandidates,
                         !.checked = TRUE]]
  /\ UNCHANGED <<backup, archives, staging, backupJobs, asked, adding, dumper,
                 tidy, backupUp, stops>>

RunsOn(k) == k # "retention" \/ backupUp

Target(k) == Min(deleter[k].todo)

\* The deletion of Target(k) is over: the sweep goes on to its next candidate.
Passed(k) ==
  LET rest == deleter[k].todo \ {Target(k)}
  IN IF rest = {} THEN NoDeleter
     ELSE [deleter[k] EXCEPT !.pc = "unlink", !.todo = rest]

\* storage.delete, which may throw.
UnlinkArchive(k) ==
  /\ RunsOn(k) /\ deleter[k].pc = "unlink"
  /\ \/ /\ archives' = archives \ {Target(k)}
        /\ deleter' = [deleter EXCEPT ![k].pc = "mark"]
     \/ UNCHANGED archives /\ deleter' = [deleter EXCEPT ![k] = Passed(k)]
  /\ UNCHANGED <<backup, staging, backupJobs, asked, adding, dumper, tidy,
                 backupUp, stops>>

\* markDeleted, or it throws.
MarkDeleted(k) ==
  LET b == Target(k) IN
  /\ RunsOn(k) /\ deleter[k].pc = "mark"
  /\ \/ /\ backup' = [backup EXCEPT ![b] =
             IF @.status \in {"completed", "failed", "interrupted"}
             THEN Become(b, "deleted") ELSE @]
        /\ deleter' = [Disturbed(k, b) EXCEPT ![k] = Passed(k)]
     \/ /\ DbErrors /\ UNCHANGED backup
        /\ deleter' = [deleter EXCEPT ![k] = Passed(k)]
  /\ UNCHANGED <<archives, staging, backupJobs, asked, adding, dumper, tidy,
                 backupUp, stops>>

\* POST /api/backups/:id/verify reads the row ...
RequestVerify(k, b) ==
  /\ deleter[k].pc = "idle"
  /\ backup[b].status = "completed"
  /\ deleter' = [deleter EXCEPT ![k] = [NoDeleter EXCEPT !.pc = "verify",
                                                         !.todo = {b}]]
  /\ UNCHANGED <<backup, archives, staging, backupJobs, asked, adding, dumper,
                 tidy, backupUp, stops>>

\* ... and markVerifyResult, WHERE id, records what the archive looked like.
MarkVerifyResult(k) ==
  LET b == Target(k) IN
  /\ deleter[k].pc = "verify"
  /\ \E ok \in BOOLEAN :
       /\ ok => b \in archives
       /\ backup' = [backup EXCEPT ![b].verified = IF ok THEN "passed" ELSE "failed",
                                   ![b].quiet = FALSE]
       /\ deleter' = [IF ok THEN deleter ELSE Disturbed(k, b)
                      EXCEPT ![k] = NoDeleter]
  /\ UNCHANGED <<archives, staging, backupJobs, asked, adding, dumper, tidy,
                 backupUp, stops>>

-----------------------------------------------------------------------------
(* reconcileStale *)

\* Mutant: a backup that is being verified is not looked at.
ClosedRunning(r) ==
  CASE r.status = "queued" /\ ~r.job /\ r.age # "new" -> "failed"
    [] r.status \in {"queued", "running"} /\ r.quiet -> "interrupted"
    [] OTHER -> r.status

\* failOrphanQueued, and then interruptStale, whether or not a handler is still
\* at it.
Closed(r) ==
  CASE r.status = "queued" /\ ~r.job /\ r.age # "new" -> "failed"
    [] r.status \in {"queued", "running", "verifying"} /\ r.quiet -> "interrupted"
    [] OTHER -> r.status

CloseStale ==
  /\ backupUp /\ tidy.pc = "idle"
  /\ backup' = [b \in Backups |-> IF Closed(backup[b]) = backup[b].status
                                  THEN backup[b] ELSE Become(b, Closed(backup[b]))]
  /\ tidy' = [tidy EXCEPT !.pc = "list"]
  /\ UNCHANGED <<archives, staging, backupJobs, asked, adding, dumper, deleter,
                 backupUp, stops>>

\* listActiveBackupIds
ListActive ==
  /\ backupUp /\ tidy.pc = "list"
  /\ tidy' = [pc |-> "sweep", keep |-> {b \in Backups : Underway(b)}]
  /\ UNCHANGED <<backup, archives, staging, backupJobs, asked, adding, dumper,
                 deleter, backupUp, stops>>

\* Mutant: staging directories are only looked for under backups that run.
SweepTempActive ==
  /\ backupUp /\ tidy.pc = "sweep"
  /\ staging' = [b \in Backups |->
       IF staging[b] = "old" /\ b \in tidy.keep THEN "none" ELSE staging[b]]
  /\ tidy' = [pc |-> "idle", keep |-> {}]
  /\ UNCHANGED <<backup, archives, backupJobs, asked, adding, dumper, deleter,
                 backupUp, stops>>

\* sweepStaleBackupTemp
SweepTemp ==
  /\ backupUp /\ tidy.pc = "sweep"
  /\ staging' = [b \in Backups |->
       IF staging[b] = "old" /\ b \notin tidy.keep THEN "none" ELSE staging[b]]
  /\ tidy' = [pc |-> "idle", keep |-> {}]
  /\ UNCHANGED <<backup, archives, backupJobs, asked, adding, dumper, deleter,
                 backupUp, stops>>

-----------------------------------------------------------------------------
(* Time, crash and restart *)

\* created_at passes the two thresholds.
AgeBackup(b) ==
  /\ \/ backup[b].status = "queued" /\ backup[b].age = "new"
     \/ backup[b].status = "completed" /\ backup[b].age # "aged"
  /\ backup' = [backup EXCEPT ![b].age =
       IF backup[b].status = "queued" THEN "late" ELSE "aged"]
  /\ UNCHANGED <<archives, staging, backupJobs, asked, adding, dumper, deleter,
                 tidy, backupUp, stops>>

\* updated_at passes staleJobTimeoutMinutes; nothing renews it during a dump.
QuietBackup(b) ==
  /\ Underway(b) /\ ~backup[b].quiet
  /\ backup' = [backup EXCEPT ![b].quiet = TRUE,
       ![b].age = IF backup[b].age = "new" THEN "late" ELSE backup[b].age]
  /\ UNCHANGED <<archives, staging, backupJobs, asked, adding, dumper, deleter,
                 tidy, backupUp, stops>>

\* Six hours, which a handler at work never needs (assumed).
AgeStaging(b) ==
  /\ staging[b] = "young"
  /\ dumper.b # b
  /\ staging' = [staging EXCEPT ![b] = "old"]
  /\ UNCHANGED <<backup, archives, backupJobs, asked, adding, dumper, deleter,
                 tidy, backupUp, stops>>

CrashBackup ==
  /\ backupUp /\ stops < MaxStops
  /\ backupUp' = FALSE
  /\ stops' = stops + 1
  /\ dumper' = [pc |-> "idle", b |-> 0]
  /\ deleter' = [deleter EXCEPT !["retention"] = NoDeleter]
  /\ tidy' = [pc |-> "idle", keep |-> {}]
  /\ UNCHANGED <<backup, archives, staging, backupJobs, asked, adding>>

\* main: interruptAllActive, before the worker takes a job.
RestartBackup ==
  /\ ~backupUp
  /\ backupUp' = TRUE
  /\ backup' = [b \in Backups |->
                  IF Underway(b) THEN Become(b, "interrupted") ELSE backup[b]]
  /\ UNCHANGED <<archives, staging, backupJobs, asked, adding, dumper, deleter,
                 tidy, stops>>

\* The API dies with its requests.
CrashApi ==
  /\ stops < MaxStops
  /\ stops' = stops + 1
  /\ asked' = 0
  /\ adding' = [b \in Backups |-> "no"]
  /\ deleter' = [k \in Deleters |-> IF k \in Admins THEN NoDeleter ELSE deleter[k]]
  /\ UNCHANGED <<backup, archives, staging, backupJobs, dumper, tidy, backupUp>>

Requesting(b) == AddBackupJob(b) \/ SetJobId(b) \/ EnqueueFailed(b)

Dumping ==
  \/ ClaimBackup \/ Dump \/ MarkVerifying \/ PlaceArchive \/ CompleteBackup
  \/ FailBackup \/ RemoveStaging \/ SettleBackup

Deleting(k) == UnlinkArchive(k) \/ MarkDeleted(k) \/ MarkVerifyResult(k)

Tidying == CloseStale \/ ListActive \/ SweepTemp

BackupNext ==
  \/ CountBlocking \/ CreateBackupRow \/ Dumping \/ Tidying \/ BeginRetention
  \/ \E b \in Backups : \/ Requesting(b) \/ TakeBackup(b) \/ StallBackup(b)
                        \/ AgeBackup(b) \/ QuietBackup(b) \/ AgeStaging(b)
  \/ \E k \in Admins, b \in Backups : RequestDelete(k, b) \/ RequestVerify(k, b)
  \/ \E k \in Deleters : Deleting(k)
  \/ CrashBackup \/ RestartBackup \/ CrashApi

-----------------------------------------------------------------------------
(* Properties *)

\* Deletions that passed the check, and during which nobody else took a recovery
\* point away, leave MinRetained recovery points, whatever backups are requested,
\* run, complete or fail meanwhile.
FloorKept ==
  \A k \in Deleters :
    /\ deleter[k].pc \in {"unlink", "mark"}
    /\ deleter[k].undisturbed /\ deleter[k].checked
    => Spared(deleter[k].todo) >= MinRetained

=============================================================================
