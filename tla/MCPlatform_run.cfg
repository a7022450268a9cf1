\* One backup beside an earlier one, with a crash and failing statements; two
\* built-in feeds, one change, one fault.
SPECIFICATION MCFairSpec
CONSTANTS
  a1 = a1
  Parts = {"tidy", "delete", "plan", "chain"}
  Slots = {}
  MaxActive = 1
  MaxStalledCount = 1
  MaxStops = 1
  DbErrors = TRUE
  None = None
  MaxBackups = 2
  Earlier = 1
  MinRetained = 1
  Admins = {a1}
  Builtin = {1, 2}
  Custom = {}
  Usom = 1
  MaxChanges = 1
  MaxFaults = 1
INVARIANTS PlatformTypeOK 
PROPERTIES BackupsSettle StagingSwept SchedulesConverge IterationsRearmed
\* In the part "delete" all backups may be deleted, and no more are made.
CHECK_DEADLOCK FALSE
