\* One scheduled job with retries, two workers, one of them with recovery passes
\* that die with it.
CONSTANTS
  j1 = j1  j2 = j2  s1 = s1  s2 = s2  p1 = p1  p2 = p2  f1 = f1  f2 = f2
  Jobs = {j1}
  Manual = {}
  Feeds = {f1}
  FeedOf <- OneFeed
  Slots = {s1, s2}
  Procs = {p1, p2}
  ProcOf <- TwoWorkers
  GlobalConcurrency = 2
  MaxAttempts = 2
  MaxStalledCount = 1
  JobTimeout = 1
  StaleAfter = 1
  OrphanGrace = 0
  Api = api
  Recoverers = {p1}
  MaxStops = 1
  DbErrors = FALSE
  None = None
SPECIFICATION FairSpec
INVARIANTS  LockReleased LiveNotReclaimed
PROPERTIES RunningRowSettles JobSettles
