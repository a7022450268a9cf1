\* One search, one bulk job, one export, two AI requests; two slots each, a
\* crash, failing statements.
SPECIFICATION MCSpec
SYMMETRY Symmetry
CONSTANTS
  s1 = s1
  s2 = s2
  t1 = t1
  t2 = t2
  d1 = d1
  d2 = d2
  c1 = c1
  c2 = c2
  b1 = b1
  e1 = e1
  None = None
  Parts = {"deep", "bulk", "export", "gate"}
  Slots = {s1, s2}
  MaxActive = 1
  MaxStalledCount = 1
  MaxStops = 1
  DbErrors = TRUE
  Searches = {d1}
  Alike = {d1}
  Conns = {c1, c2}
  SpoolSize = 2
  Bulks = {b1}
  BulkSlots = {t1, t2}
  MaxBulks = 1
  Exports = {e1}
  r1 = r1
  r2 = r2
  Requests = {r1, r2}
  SafetyNet = net
  Capacity = 1
  HoldLease = 4
  WaitLease = 1
  DbPrompt = TRUE
INVARIANTS JobsTypeOK CancelWins SpoolHasRow AppliedByOne TimelyBulkIsExact OneWriter SlotsNotShared NoOverload
PROPERTIES DeepPromise ExportPromise
