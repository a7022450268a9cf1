\* Two custom feeds, one of which is switched off.
SPECIFICATION MCFairSpec
CONSTANTS
  a1 = a1
  Parts = {"custom"}
  Slots = {}
  MaxActive = 1
  MaxStalledCount = 1
  MaxStops = 0
  DbErrors = FALSE
  None = None
  MaxBackups = 1
  Earlier = 1
  MinRetained = 1
  Admins = {}
  Builtin = {1}
  Custom = {2, 3}
  Usom = 1
  MaxChanges = 1
  MaxFaults = 0
PROPERTIES CustomSchedulesConverge
