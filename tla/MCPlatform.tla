----------------------------- MODULE MCPlatform -----------------------------
(***************************************************************************)
(* Backups and feed schedules for TLC.  They share no state, so a          *)
(* behaviour exercises one part of one of them:                            *)
(*   "tidy"    backups with every fault of the worker, the API and the     *)
(*             queue, and the hourly retention sweep;                      *)
(*   "delete"  administrators who delete and verify beside the retention   *)
(*             sweep and a backup that runs undisturbed;                   *)
(*   "plan"    schedules of built-in feeds that change, while no iteration *)
(*             comes due and nothing fails;                                *)
(*   "chain"   the iterations of a built-in feed, and their loss;          *)
(*   "custom"  schedules of custom feeds that change, likewise.            *)
(***************************************************************************)
EXTENDS Backup, ScheduleSync, TLC

CONSTANTS Parts, a1

VARIABLE part

platformVars == <<backupOwn, stops, scheduleOwn, part>>

MCInit ==
  /\ part \in Parts
  /\ BackupInit
  /\ ScheduleInit
  /\ part \in {"tidy", "delete"} => settings = [f \in Feeds |-> "off"] /\ repeats = {}
  /\ part = "chain" => \A f \in Feeds : settings[f] = IF f = Max(Builtin) THEN "hourly" ELSE "off"
  /\ part = "chain" => repeats = {}
  /\ part = "plan" => \A f \in Feeds : settings[f] = IF f \in Builtin THEN "hourly" ELSE "off"
  /\ part = "plan" => repeats # {}
  /\ part = "custom" => \A f \in Builtin : settings[f] = "off"
  /\ part = "custom" => repeats = {}

\* Bounds of the parts.
Undisturbed ==
  /\ \A b \in Backups : ~backup'[b].quiet /\ backupJobs'[b].stalls = 0
  /\ stops' = 0 /\ tidy' = tidy

NoAdmins == \A k \in Admins : deleter'[k] = deleter[k]

NoIterations ==
  /\ runs' = runs /\ \A r \in repeats' : r.phase = "delayed"
  /\ faults' = 0

Only(fs) == \A f \in Feeds \ fs : settings'[f] = settings[f]

MCNext ==
  /\ UNCHANGED part
  /\ \/ part = "tidy" /\ BackupNext /\ NoAdmins /\ UNCHANGED scheduleOwn
     \/ part = "delete" /\ BackupNext /\ Undisturbed /\ UNCHANGED scheduleOwn
     \/ /\ part \in {"plan", "chain", "custom"}
        /\ ScheduleNext
        /\ part = "plan" => NoIterations /\ Only(Builtin)
        /\ part = "chain" => Only({Max(Builtin)})
        /\ part = "custom" => NoIterations /\ Only(Custom)
        /\ UNCHANGED <<backupOwn, stops>>

MCSpec == MCInit /\ [][MCNext]_platformVars

\* The backup worker, its timers and the clock go on; what users ask for, and
\* what fails, is nobody's duty.
BackupFairness ==
  /\ WF_backupOwn(part = "tidy" /\ Dumping)
  /\ WF_backupOwn(part = "tidy" /\ Tidying)
  /\ WF_backupOwn(part = "tidy" /\ RestartBackup)
  /\ \A b \in Backups : /\ WF_backupOwn(part = "tidy" /\ TakeBackup(b))
                        /\ WF_backupOwn(part = "tidy" /\ QuietBackup(b))
                        /\ WF_backupOwn(part = "tidy" /\ AgeStaging(b))

\* The scheduler's timer fires, passes that run go on, and BullMQ works.
ScheduleFairness ==
  /\ WF_scheduleOwn(part \in {"plan", "chain", "custom"} /\ Begin("scheduler"))
  /\ \A p \in Syncers :
       WF_scheduleOwn(part \in {"plan", "chain", "custom"} /\ PassStep(p))
  /\ \A i \in Schedules : WF_scheduleOwn(part = "chain" /\ Queue(i))

MCFairSpec == MCSpec /\ BackupFairness /\ ScheduleFairness

\* Backups and schedules are well formed.
PlatformTypeOK == BackupTypeOK /\ ScheduleTypeOK

\* A backup does not stay queued, running or verifying, even when its job was
\* never added, was lost, or its worker died: it would block all others.
BackupsSettle ==
  \A b \in Backups : part = "tidy" /\ Underway(b) ~> ~Underway(b)

\* A staging directory, a whole database dump, is removed in the end, also when
\* the process that filled it is gone.
StagingSwept ==
  \A b \in Backups : part = "tidy" /\ staging[b] # "none" ~> staging[b] = "none"

=============================================================================
