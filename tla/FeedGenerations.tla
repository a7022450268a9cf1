--------------------------- MODULE FeedGenerations ---------------------------
(***************************************************************************)
(* The published feed store of one feed and window: immutable generations  *)
(* whose chunks are content-addressed files, with the tables that refer to *)
(* them.  A builder writes files first and commits the rows that make them *)
(* reachable last; three cleaners run beside it: retention of superseded   *)
(* generations, the purge of unreachable chunk rows, and the orphan GC of  *)
(* files without a row.  Downloads pin a generation while they stream it.  *)
(*                                                                         *)
(* Files and rows change in separate steps.  The advisory lock of the feed *)
(* orders a builder, the retention sweep and the orphan GC; the purge runs *)
(* without it.  Feeds share neither files, rows nor locks.                 *)
(***************************************************************************)
EXTENDS Naturals, FiniteSets

CONSTANTS
  Paths,       \* chunk files: (format, chunk key, content hash)
  Keys,        \* (format, chunk key) pairs
  KeyOf,       \* the key of each file
  Gens,        \* generation ids (bound: how many generations are started)
  Builders,    \* callers of generatePublishedFeedSnapshot: ticks, the API
  Sweepers,    \* callers of cleanupPublishedFeedChunkGenerations
  Gc,          \* the orphan GC
  GcEnabled,   \* PUBLISHED_FEED_ORPHAN_GC_ENABLED
  Readers,     \* downloads
  Legacy,      \* chunk rows that no manifest links, left by an older schema
  MaxCrashes,  \* bound: how often the backend process dies
  None

ASSUME StoreAssumption ==
  /\ KeyOf \in [Paths -> Keys]
  /\ Legacy \subseteq Paths
  /\ GcEnabled \in BOOLEAN /\ MaxCrashes \in Nat
  /\ None \notin Builders \cup Sweepers \cup {Gc} \cup Gens \cup Paths
  /\ Builders \cap Sweepers = {} /\ Gc \notin Builders \cup Sweepers

VARIABLES
  file,     \* disk: chunk files, "old" once past the orphan GC's minimum age
  head,     \* disk: generations whose recency head file exists
  chunk,    \* published_feed_chunks, "old" once past the retention time
  gen,      \* published_feed_generations and their manifest
  lock,     \* the generation advisory lock of the feed
  build,    \* builders
  sweep,    \* retention sweeps, each followed by the purge
  gc,       \* the orphan GC
  reader,   \* downloads and their pins
  crashes

vars == <<file, head, chunk, gen, lock, build, sweep, gc, reader, crashes>>

------------------------------------------------------------------------------
(* Types *)

Age == {"none", "young", "old"}

\* "gone": the row is deleted or was rolled back, the id is never used again.
GenState == {"none", "building", "active", "superseded", "gone"}

\* old: superseded longer ago than the retention time.
Gen == [state : GenState, links : SUBSET Paths, old : BOOLEAN]

NoGen == [state |-> "none", links |-> {}, old |-> FALSE]

\* todo: chunks still to write; cur, reuse: the chunk being committed and what
\* its stat said; made, hasHead: files this build created; new: chunks it
\* upserts; links: the manifest it will have.
Build == [pc : {"idle", "chunks", "commitPart", "rows", "built", "undo", "unlock"},
          id : Gens \cup {None}, todo : SUBSET Paths, cur : Paths \cup {None},
          reuse : BOOLEAN, made : SUBSET Paths, hasHead : BOOLEAN,
          new : SUBSET Paths, links : SUBSET Paths]

NoBuild == [pc |-> "idle", id |-> None, todo |-> {}, cur |-> None,
            reuse |-> FALSE, made |-> {}, hasHead |-> FALSE, new |-> {},
            links |-> {}]

\* todo: candidates left; cur: the one under the lock; doomed: files of deleted
\* rows that are still to be unlinked.
Sweep == [pc : {"idle", "next", "locked", "unlink", "unlock", "purge", "purging"},
          todo : SUBSET Gens, cur : Gens \cup {None}, doomed : SUBSET Paths]

NoSweep == [pc |-> "idle", todo |-> {}, cur |-> None, doomed |-> {}]

\* seen, heads: old files found by the walk; then those without a reference.
Collector == [pc : {"idle", "scanned", "locked", "unlink"},
              seen : SUBSET Paths, heads : SUBSET Gens]

NoGc == [pc |-> "idle", seen |-> {}, heads |-> {}]

\* "chosen": the generation is read but not yet pinned.
Reader == [pc : {"idle", "chosen", "pinned"}, gen : Gens \cup {None},
           files : SUBSET Paths]

NoReader == [pc |-> "idle", gen |-> None, files |-> {}]

TypeOK ==
  /\ file \in [Paths -> Age]
  /\ head \subseteq Gens
  /\ chunk \in [Paths -> Age]
  /\ gen \in [Gens -> Gen]
  /\ lock \in Builders \cup Sweepers \cup {Gc, None}
  /\ build \in [Builders -> Build]
  /\ sweep \in [Sweepers -> Sweep]
  /\ gc \in Collector
  /\ reader \in [Readers -> Reader]
  /\ crashes \in 0 .. MaxCrashes

------------------------------------------------------------------------------
(* What the statements see *)

Exists(p) == file[p] # "none"

Committed(g) == gen[g].state \in {"active", "superseded"}

\* A manifest row for the chunk is visible.
Linked(p) == \E g \in Gens : Committed(g) /\ p \in gen[g].links

Active == {g \in Gens : gen[g].state = "active"}

ParentLinks == UNION {gen[g].links : g \in Active}

\* Mutant: a pin is not found again.
PinnedNever(g) == FALSE

\* isPublishedFeedGenerationPinned.
Pinned(g) == \E r \in Readers : reader[r].pc = "pinned" /\ reader[r].gen = g

\* Chunk rows an open transaction of a builder has upserted: locked.
RowLocked(p) ==
  \E b \in Builders : build[b].pc \in {"rows", "built", "undo"}
                      /\ p \in build[b].new /\ chunk[p] # "none"

\* Rows the retention statements select: past the retention time, in no
\* manifest.
Unreachable == {p \in Paths : chunk[p] = "old" /\ ~Linked(p)}

Init ==
  /\ file = [p \in Paths |-> IF p \in Legacy THEN "old" ELSE "none"]
  /\ head = {}
  /\ chunk = [p \in Paths |-> IF p \in Legacy THEN "old" ELSE "none"]
  /\ gen = [g \in Gens |-> NoGen]
  /\ lock = None
  /\ build = [b \in Builders |-> NoBuild]
  /\ sweep = [s \in Sweepers |-> NoSweep]
  /\ gc = NoGc
  /\ reader = [r \in Readers |-> NoReader]
  /\ crashes = 0

------------------------------------------------------------------------------
(* Building a generation: generatePublishedFeedSnapshot under the lock, in   *)
(* one transaction around buildAndActivateChunkGeneration.                  *)

\* At most one file per key.
OnePerKey(ps) == \A p, q \in ps : KeyOf[p] = KeyOf[q] => p = q

\* pg_try_advisory_lock (a caller that does not get it returns), BEGIN, the
\* parent is read; new is what the affected buckets of the projection hold.
Start(b, g, affected, new) ==
  /\ build[b].pc = "idle" /\ lock = None
  /\ gen[g].state = "none"
  /\ Active = {} => affected = Keys
  /\ OnePerKey(new) /\ \A p \in new : KeyOf[p] \in affected
  /\ lock' = b
  /\ gen' = [gen EXCEPT ![g].state = "building"]
  /\ build' = [build EXCEPT ![b] =
       [NoBuild EXCEPT !.pc = "chunks", !.id = g, !.todo = new, !.new = new,
          !.links = new \cup {p \in ParentLinks : KeyOf[p] \notin affected}]]
  /\ UNCHANGED <<file, head, chunk, sweep, gc, reader, crashes>>

\* The part is written and flushed; commitContentAddressedPart looks whether
\* the content-addressed file is there already.
StatChunk(b, p) ==
  /\ build[b].pc = "chunks" /\ p \in build[b].todo
  /\ build' = [build EXCEPT ![b].pc = "commitPart", ![b].cur = p,
                            ![b].reuse = Exists(p)]
  /\ UNCHANGED <<file, head, chunk, gen, lock, sweep, gc, reader, crashes>>

\* The part becomes the file, a new one for the orphan GC's inode check.
RenamePart(p) ==
  /\ file' = [file EXCEPT ![p] = "young"]
  /\ gc' = [gc EXCEPT !.seen = @ \ {p}]

\* Mutant: the current chunk is cleared before it is recorded.
CommitPartCleared(b) ==
  /\ build[b].pc = "commitPart" /\ ~build[b].reuse
  /\ RenamePart(build[b].cur)
  /\ build' = [build EXCEPT ![b].pc = "chunks", ![b].cur = None, ![b].made = @ \cup {None}]
  /\ UNCHANGED <<head, chunk, gen, lock, sweep, reader, crashes>>

\* A file that was there is reused and the part dropped.
CommitPart(b) ==
  LET p == build[b].cur
  IN /\ build[b].pc = "commitPart"
     /\ \/ build[b].reuse /\ UNCHANGED <<file, gc>>
        \/ ~build[b].reuse /\ RenamePart(p)
     /\ build' = [build EXCEPT ![b].pc = "chunks", ![b].cur = None,
                    ![b].todo = @ \ {p},
                    ![b].made = IF build[b].reuse THEN @ ELSE @ \cup {p}]
     /\ UNCHANGED <<head, chunk, gen, lock, sweep, reader, crashes>>

\* The rename succeeds and the sync of the directory fails: the file is there
\* and the build does not know that it made it.
CommitPartError(b) ==
  /\ build[b].pc = "commitPart" /\ ~build[b].reuse
  /\ RenamePart(build[b].cur)
  /\ build' = [build EXCEPT ![b].pc = "undo"]
  /\ UNCHANGED <<head, chunk, gen, lock, sweep, reader, crashes>>

\* upsertChunkRows and the manifest rows, inside the transaction.
UpsertRows(b) ==
  /\ build[b].pc = "chunks" /\ build[b].todo = {}
  /\ build' = [build EXCEPT ![b].pc = "rows"]
  /\ UNCHANGED <<file, head, chunk, gen, lock, sweep, gc, reader, crashes>>

\* writeRecencyHead; the statements after it stay in the transaction.
WriteHead(b) ==
  /\ build[b].pc = "rows"
  /\ head' = head \cup {build[b].id}
  /\ build' = [build EXCEPT ![b].pc = "built", ![b].hasHead = TRUE]
  /\ UNCHANGED <<file, chunk, gen, lock, sweep, gc, reader, crashes>>

\* COMMIT: rows, manifest, the parent superseded and the new one active.
Commit(b) ==
  /\ build[b].pc = "built"
  /\ chunk' = [p \in Paths |-> IF p \in build[b].new /\ chunk[p] = "none"
                               THEN "young" ELSE chunk[p]]
  /\ gen' = [g \in Gens |->
       CASE g = build[b].id -> [state |-> "active", links |-> build[b].links, old |-> FALSE]
         [] g \in Active    -> [gen[g] EXCEPT !.state = "superseded"]
         [] OTHER           -> gen[g]]
  /\ build' = [build EXCEPT ![b] = [NoBuild EXCEPT !.pc = "unlock"]]
  /\ UNCHANGED <<file, head, lock, sweep, gc, reader, crashes>>

\* A statement after the build, COMMIT included, fails: rolled back, but the
\* files stay.
CommitError(b) ==
  /\ build[b].pc = "built"
  /\ gen' = [gen EXCEPT ![build[b].id].state = "gone"]
  /\ build' = [build EXCEPT ![b] = [NoBuild EXCEPT !.pc = "unlock"]]
  /\ UNCHANGED <<file, head, chunk, lock, sweep, gc, reader, crashes>>

\* Anything inside the build throws: cursor, serializer, count mismatch, SQL.
BuildError(b) ==
  /\ build[b].pc \in {"chunks", "commitPart", "rows", "built"}
  /\ build' = [build EXCEPT ![b].pc = "undo"]
  /\ UNCHANGED <<file, head, chunk, gen, lock, sweep, gc, reader, crashes>>

\* The head is renamed and the sync of its directory fails: the build does not
\* know its path.
WriteHeadError(b) ==
  /\ build[b].pc = "rows"
  /\ head' = head \cup {build[b].id}
  /\ build' = [build EXCEPT ![b].pc = "undo"]
  /\ UNCHANGED <<file, chunk, gen, lock, sweep, gc, reader, crashes>>

\* removeCreatedChunkFiles one by one, the recency head, then ROLLBACK.
Undo(b) ==
  /\ build[b].pc = "undo"
  /\ \/ \E p \in build[b].made :
          /\ file' = [file EXCEPT ![p] = "none"]
          /\ build' = [build EXCEPT ![b].made = @ \ {p}]
          /\ UNCHANGED <<head, gen>>
     \/ /\ build[b].made = {} /\ build[b].hasHead
        /\ head' = head \ {build[b].id}
        /\ build' = [build EXCEPT ![b].hasHead = FALSE]
        /\ UNCHANGED <<file, gen>>
     \/ /\ build[b].made = {} /\ ~build[b].hasHead
        /\ gen' = [gen EXCEPT ![build[b].id].state = "gone"]
        /\ build' = [build EXCEPT ![b] = [NoBuild EXCEPT !.pc = "unlock"]]
        /\ UNCHANGED <<file, head>>
  /\ UNCHANGED <<chunk, lock, sweep, gc, reader, crashes>>

Unlock(b) ==
  /\ build[b].pc = "unlock"
  /\ lock' = None
  /\ build' = [build EXCEPT ![b] = NoBuild]
  /\ UNCHANGED <<file, head, chunk, gen, sweep, gc, reader, crashes>>

------------------------------------------------------------------------------
(* Retention: cleanupPublishedFeedChunkGenerations *)

SweepCandidates(s) ==
  /\ sweep[s].pc = "idle"
  /\ sweep' = [sweep EXCEPT ![s].pc = "next",
       ![s].todo = {g \in Gens : gen[g].state = "superseded" /\ gen[g].old}]
  /\ UNCHANGED <<file, head, chunk, gen, lock, build, gc, reader, crashes>>

\* A candidate that is pinned, or whose feed is locked, waits for another sweep.
SweepSkip(s, g) ==
  /\ sweep[s].pc = "next" /\ g \in sweep[s].todo
  /\ Pinned(g) \/ lock # None
  /\ sweep' = [sweep EXCEPT ![s].todo = @ \ {g}]
  /\ UNCHANGED <<file, head, chunk, gen, lock, build, gc, reader, crashes>>

SweepLock(s, g) ==
  /\ sweep[s].pc = "next" /\ g \in sweep[s].todo
  /\ ~Pinned(g) /\ lock = None
  /\ lock' = s
  /\ sweep' = [sweep EXCEPT ![s].pc = "locked", ![s].cur = g, ![s].todo = @ \ {g}]
  /\ UNCHANGED <<file, head, chunk, gen, build, gc, reader, crashes>>

\* Pinned meanwhile, or deleted by another sweep: nothing is changed.
SweepLost(s) ==
  /\ sweep[s].pc = "locked"
  /\ Pinned(sweep[s].cur) \/ gen[sweep[s].cur].state # "superseded"
  /\ sweep' = [sweep EXCEPT ![s].pc = "unlock"]
  /\ UNCHANGED <<file, head, chunk, gen, lock, build, gc, reader, crashes>>

\* Chunk rows that only the manifest of g reaches.
OnlyIn(g) ==
  {p \in Paths : chunk[p] = "old"
                 /\ \A h \in Gens \ {g} : Committed(h) => p \notin gen[h].links}

\* Mutant: the rows of the unlinked files stay.
SweepDeleteKeepsRows(s) ==
  LET g == sweep[s].cur
  IN /\ sweep[s].pc = "locked"
     /\ ~Pinned(g) /\ gen[g].state = "superseded"
     /\ gen' = [gen EXCEPT ![g] = [NoGen EXCEPT !.state = "gone"]]
     /\ sweep' = [sweep EXCEPT ![s].pc = "unlink", ![s].doomed = OnlyIn(g)]
     /\ UNCHANGED <<file, head, chunk, lock, build, gc, reader, crashes>>

\* The transaction: manifest and generation rows, and the chunk rows that are
\* then unreachable.
SweepDelete(s) ==
  LET g == sweep[s].cur
  IN /\ sweep[s].pc = "locked"
     /\ ~Pinned(g) /\ gen[g].state = "superseded"
     /\ gen' = [gen EXCEPT ![g] = [NoGen EXCEPT !.state = "gone"]]
     /\ chunk' = [p \in Paths |-> IF p \in OnlyIn(g) THEN "none" ELSE chunk[p]]
     /\ sweep' = [sweep EXCEPT ![s].pc = "unlink", ![s].doomed = OnlyIn(g)]
     /\ UNCHANGED <<file, head, lock, build, gc, reader, crashes>>

\* After COMMIT, still under the lock: the chunk files, then the head.
SweepUnlink(s) ==
  /\ sweep[s].pc = "unlink"
  /\ \/ \E p \in sweep[s].doomed :
          /\ file' = [file EXCEPT ![p] = "none"]
          /\ sweep' = [sweep EXCEPT ![s].doomed = @ \ {p}]
          /\ UNCHANGED head
     \/ /\ sweep[s].doomed = {}
        /\ head' = head \ {sweep[s].cur}
        /\ sweep' = [sweep EXCEPT ![s].pc = "unlock"]
        /\ UNCHANGED file
  /\ UNCHANGED <<chunk, gen, lock, build, gc, reader, crashes>>

SweepUnlock(s) ==
  /\ sweep[s].pc = "unlock"
  /\ lock' = None
  /\ sweep' = [sweep EXCEPT ![s].pc = "next", ![s].cur = None]
  /\ UNCHANGED <<file, head, chunk, gen, build, gc, reader, crashes>>

SweepEnd(s) ==
  /\ sweep[s].pc = "next" /\ sweep[s].todo = {}
  /\ sweep' = [sweep EXCEPT ![s].pc = "purge"]
  /\ UNCHANGED <<file, head, chunk, gen, lock, build, gc, reader, crashes>>

\* purgeUnreachablePublishedFeedChunks, without the lock: one DELETE, which
\* waits for rows an open transaction has upserted ...
PurgeRows(s) ==
  /\ sweep[s].pc = "purge"
  /\ \A p \in Unreachable : ~RowLocked(p)
  /\ chunk' = [p \in Paths |-> IF p \in Unreachable THEN "none" ELSE chunk[p]]
  /\ sweep' = [sweep EXCEPT ![s].pc = "purging", ![s].doomed = Unreachable]
  /\ UNCHANGED <<file, head, gen, lock, build, gc, reader, crashes>>

\* ... and then the files of the rows it has deleted.
PurgeFile(s, p) ==
  /\ sweep[s].pc = "purging" /\ p \in sweep[s].doomed
  /\ file' = [file EXCEPT ![p] = "none"]
  /\ sweep' = [sweep EXCEPT ![s].doomed = @ \ {p}]
  /\ UNCHANGED <<head, chunk, gen, lock, build, gc, reader, crashes>>

PurgeEnd(s) ==
  /\ sweep[s].pc = "purging" /\ sweep[s].doomed = {}
  /\ sweep' = [sweep EXCEPT ![s] = NoSweep]
  /\ UNCHANGED <<file, head, chunk, gen, lock, build, gc, reader, crashes>>

\* A statement fails: rolled back and unlocked, and the sweep is given up with
\* the candidates it has left.
SweepError(s) ==
  /\ sweep[s].pc \in {"locked", "purge"}
  /\ lock' = IF lock = s THEN None ELSE lock
  /\ sweep' = [sweep EXCEPT ![s] = NoSweep]
  /\ UNCHANGED <<file, head, chunk, gen, build, gc, reader, crashes>>

------------------------------------------------------------------------------
(* runPublishedFeedOrphanGc *)

\* The walk over the directory, before any lock; hs are the old heads.
GcScan(hs) ==
  /\ GcEnabled /\ gc.pc = "idle" /\ hs \subseteq head
  /\ gc' = [pc |-> "scanned", seen |-> {p \in Paths : file[p] = "old"}, heads |-> hs]
  /\ UNCHANGED <<file, head, chunk, gen, lock, build, sweep, reader, crashes>>

\* Mutant: the lock is not taken.
GcLockFree ==
  /\ gc.pc = "scanned"
  /\ gc' = [gc EXCEPT !.pc = "locked"]
  /\ UNCHANGED <<file, head, chunk, gen, lock, build, sweep, reader, crashes>>

GcLock ==
  /\ gc.pc = "scanned" /\ lock = None
  /\ lock' = Gc
  /\ gc' = [gc EXCEPT !.pc = "locked"]
  /\ UNCHANGED <<file, head, chunk, gen, build, sweep, reader, crashes>>

\* A generation is in progress: everything of the feed is protected.
GcBusy ==
  /\ gc.pc = "scanned" /\ lock # None
  /\ gc' = NoGc
  /\ UNCHANGED <<file, head, chunk, gen, lock, build, sweep, reader, crashes>>

\* loadFeedReferences: files with a row, heads of generations with a row.
GcLoad ==
  /\ gc.pc = "locked"
  /\ gc' = [pc |-> "unlink",
            seen |-> {p \in gc.seen : chunk[p] = "none"},
            heads |-> {g \in gc.heads : ~Committed(g)}]
  /\ UNCHANGED <<file, head, chunk, gen, lock, build, sweep, reader, crashes>>

\* Mutant: the orphan GC deletes nothing.
GcUnlinkNothing ==
  /\ gc.pc = "unlink" /\ gc.seen \cup gc.heads # {}
  /\ gc' = [gc EXCEPT !.seen = {}, !.heads = {}]
  /\ UNCHANGED <<file, head, chunk, gen, lock, build, sweep, reader, crashes>>

\* lstat again, then unlink if it is the same, old file.
GcUnlink ==
  /\ gc.pc = "unlink"
  /\ \/ \E p \in gc.seen :
          /\ file' = [file EXCEPT ![p] = IF @ = "old" THEN "none" ELSE @]
          /\ gc' = [gc EXCEPT !.seen = @ \ {p}]
          /\ UNCHANGED head
     \/ \E g \in gc.heads :
          /\ head' = head \ {g}
          /\ gc' = [gc EXCEPT !.heads = @ \ {g}]
          /\ UNCHANGED file
  /\ UNCHANGED <<chunk, gen, lock, build, sweep, reader, crashes>>

GcUnlock ==
  /\ gc.pc = "unlink" /\ gc.seen = {} /\ gc.heads = {}
  /\ lock' = None
  /\ gc' = NoGc
  /\ UNCHANGED <<file, head, chunk, gen, build, sweep, reader, crashes>>

------------------------------------------------------------------------------
(* Downloads *)

\* getActiveChunkGeneration and getChunkGenerationFiles.
Choose(r, g) ==
  /\ reader[r].pc = "idle" /\ g \in Active
  /\ reader' = [reader EXCEPT ![r] = [pc |-> "chosen", gen |-> g, files |-> gen[g].links]]
  /\ UNCHANGED <<file, head, chunk, gen, lock, build, sweep, gc, crashes>>

\* streamChunkGeneration, or the reader of the recency head.
Pin(r) ==
  /\ reader[r].pc = "chosen"
  /\ reader' = [reader EXCEPT ![r].pc = "pinned"]
  /\ UNCHANGED <<file, head, chunk, gen, lock, build, sweep, gc, crashes>>

\* One file has been sent.
Send(r, p) ==
  /\ reader[r].pc = "pinned" /\ p \in reader[r].files /\ Exists(p)
  /\ reader' = [reader EXCEPT ![r].files = @ \ {p}]
  /\ UNCHANGED <<file, head, chunk, gen, lock, build, sweep, gc, crashes>>

\* Done, aborted by the client, answered 304, or a file could not be opened.
Release(r) ==
  /\ reader[r].pc # "idle"
  /\ reader' = [reader EXCEPT ![r] = NoReader]
  /\ UNCHANGED <<file, head, chunk, gen, lock, build, sweep, gc, crashes>>

------------------------------------------------------------------------------
(* Time and failure *)

AgeFile(p) ==
  /\ file[p] = "young"
  /\ file' = [file EXCEPT ![p] = "old"]
  /\ UNCHANGED <<head, chunk, gen, lock, build, sweep, gc, reader, crashes>>

AgeChunk(p) ==
  /\ chunk[p] = "young"
  /\ chunk' = [chunk EXCEPT ![p] = "old"]
  /\ UNCHANGED <<file, head, gen, lock, build, sweep, gc, reader, crashes>>

\* superseded_at is later than the created_at of every chunk of the manifest,
\* and a download pins within the retention time of having read the rows.
AgeGen(g) ==
  /\ gen[g].state = "superseded" /\ ~gen[g].old
  /\ \A p \in gen[g].links : chunk[p] # "young"
  /\ \A r \in Readers : reader[r].gen = g => reader[r].pc = "pinned"
  /\ gen' = [gen EXCEPT ![g].old = TRUE]
  /\ UNCHANGED <<file, head, chunk, lock, build, sweep, gc, reader, crashes>>

\* The backend dies: open transactions roll back, the session lock is freed,
\* pins, sweeps and the GC are forgotten, files stay.
Crash ==
  /\ crashes < MaxCrashes
  /\ crashes' = crashes + 1
  /\ gen' = [g \in Gens |-> IF gen[g].state = "building"
                            THEN [gen[g] EXCEPT !.state = "gone"] ELSE gen[g]]
  /\ lock' = None
  /\ build' = [b \in Builders |-> NoBuild]
  /\ sweep' = [s \in Sweepers |-> NoSweep]
  /\ gc' = NoGc
  /\ reader' = [r \in Readers |-> NoReader]
  /\ UNCHANGED <<file, head, chunk>>

------------------------------------------------------------------------------

BuildStep(b) ==
  \/ \E p \in Paths : StatChunk(b, p)
  \/ CommitPart(b) \/ UpsertRows(b) \/ WriteHead(b) \/ Commit(b)
  \/ Undo(b) \/ Unlock(b)

BuildFault(b) ==
  CommitPartError(b) \/ CommitError(b) \/ BuildError(b) \/ WriteHeadError(b)

SweepStep(s) ==
  \/ SweepCandidates(s) \/ SweepLost(s) \/ SweepDelete(s) \/ SweepUnlink(s)
  \/ SweepUnlock(s) \/ SweepEnd(s)
  \/ \E g \in Gens : SweepSkip(s, g) \/ SweepLock(s, g)

PurgeStep(s) == PurgeRows(s) \/ PurgeEnd(s) \/ \E p \in Paths : PurgeFile(s, p)

GcStep ==
  \/ \E hs \in SUBSET Gens : GcScan(hs)
  \/ GcLock \/ GcBusy \/ GcLoad \/ GcUnlink \/ GcUnlock

ReaderStep(r) ==
  \/ Pin(r) \/ Release(r)
  \/ \E g \in Gens : Choose(r, g)
  \/ \E p \in Paths : Send(r, p)

Next ==
  \/ \E b \in Builders, g \in Gens, affected \in SUBSET Keys, new \in SUBSET Paths :
       Start(b, g, affected, new)
  \/ \E b \in Builders : BuildStep(b) \/ BuildFault(b)
  \/ \E s \in Sweepers : SweepStep(s) \/ PurgeStep(s) \/ SweepError(s)
  \/ GcStep
  \/ \E r \in Readers : ReaderStep(r)
  \/ \E p \in Paths : AgeFile(p) \/ AgeChunk(p)
  \/ \E g \in Gens : AgeGen(g)
  \/ Crash

Spec == Init /\ [][Next]_vars

------------------------------------------------------------------------------
(* Properties *)

\* publishedFeedChunkGeneration.js and orphanGc.js: whatever builders that fail
\* or die, retention and the orphan GC do, every chunk file and recency head
\* that a committed generation refers to is on disk.
ManifestFilesExist ==
  \A g \in Gens : Committed(g) => g \in head /\ \A p \in gen[g].links : Exists(p)

\* pinPublishedFeedGeneration: what a download that is under way still has to
\* send is on disk, however long ago its generation was superseded.
DownloadFilesExist ==
  \A r \in Readers : reader[r].pc = "pinned" =>
    reader[r].gen \in head /\ \A p \in reader[r].files : Exists(p)

\* orphanGc.js 11-12: a chunk row and its manifest links never lose each other:
\* a linked chunk has its row, and a row has its file.
RowHasFile ==
  /\ \A p \in Paths : Linked(p) => chunk[p] # "none"
  /\ \A p \in Paths : chunk[p] # "none" => Exists(p)

------------------------------------------------------------------------------
(* Fairness: statements and file operations return, timers fire, sweeps run  *)
(* periodically (where the GC does, it is fair too), and a deletion that     *)
(* every sweep tries again does not fail for ever.  Nothing is assumed of    *)
(* builds starting or failing, nor of downloads starting; a download ends.   *)

Fairness ==
  /\ \A b \in Builders : WF_vars(BuildStep(b))
  /\ \A s \in Sweepers :
       WF_vars(SweepStep(s) \/ PurgeStep(s)) /\ SF_vars(SweepDelete(s))
  /\ \A r \in Readers : WF_vars(Release(r))
  /\ \A p \in Paths : WF_vars(AgeFile(p)) /\ WF_vars(AgeChunk(p))
  /\ \A g \in Gens : WF_vars(AgeGen(g))

==============================================================================
