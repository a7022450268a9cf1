\* One report, three jobs, two workers; a crash, a pause or a failing
\* statement and the failure to record it.
SPECIFICATION MCFairSpec
CONSTANTS
  w1 = w1
  w2 = w2
  None = None
  Slots = {}
  MaxActive = 1
  MaxStalledCount = 2
  MaxStops = 0
  DbErrors = FALSE
  Parts = {"fence", "retry", "crash", "errors"}
  Reports = {"report"}
  MaxReportJobs = 3
  Copies = 2
  Analysts = {w1, w2}
  Limit = 1
  MaxKills = 1
  MaxReportFaults = 2
  Late = FALSE
INVARIANTS ReportTypeOK 
PROPERTIES   JobsEnd ReportsSettle
