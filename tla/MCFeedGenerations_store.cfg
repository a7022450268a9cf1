\* One bucket with two contents, two generations: a build, the retention, the
\* orphan GC, a crash, and a download that may outlast its generation.
SPECIFICATION MCFairSpec
CONSTANTS
  Parts = {"collect", "serve"}
  a1 = a1
  a2 = a2
  b1 = b1
  ka = ka
  kb = kb
  Paths = {a1, a2}
  Keys = {ka}
  KeyOf <- OneBucket
  Gens = {g1, g2}
  Builders = {tick}
  Sweepers = {retention}
  Gc = gc
  GcEnabled = TRUE
  Readers = {download}
  Legacy = {}
  MaxCrashes = 1
  None = None
INVARIANTS TypeOK ManifestFilesExist RowHasFile DownloadFilesExist
PROPERTIES OrphanReclaimed
