\* Two workers, a run-now job and a scheduled one on the same feed, statements
\* that fail, a process that stops; no recovery passes.
CONSTANTS
  j1 = j1  j2 = j2  s1 = s1  s2 = s2  p1 = p1  p2 = p2  f1 = f1  f2 = f2
  Jobs = {j1, j2}
  Manual = {j1}
  Feeds = {f1}
  FeedOf <- SameFeed
  Slots = {s1, s2}
  Procs = {p1, p2}
  ProcOf <- TwoWorkers
  GlobalConcurrency = 2
  MaxAttempts = 2
  MaxStalledCount = 1
  JobTimeout = 1
  StaleAfter = 0
  OrphanGrace = 0
  Api = api
  Recoverers = {}
  MaxStops = 1
  DbErrors = TRUE
  None = None
SPECIFICATION Spec
INVARIANTS TypeOK FeedExclusion
