------------------------ MODULE FeedGenerationsProofs ------------------------
(***************************************************************************)
(* For every number of files, generations, builders, sweeps and downloads: *)
(* if no chunk row lost its manifest before the system starts, no          *)
(* committed generation and no download under way loses a file.            *)
(*                                                                         *)
(* The argument.  Whoever removes a file or a head holds the lock, so a    *)
(* build that relies on a file is not disturbed (LockInv).  A removed file *)
(* has no row: a failing build removes what it made, and it made it because*)
(* the file, hence the row, was not there (BuildInv); retention removes    *)
(* the files of the rows it deleted (SweepInv); the GC removes files whose *)
(* rows it looked for under the lock (GcInv).  The purge, which has no     *)
(* lock, finds nothing to do: every row is linked (RowInv), as retention   *)
(* deletes the rows together with their last link.                         *)
(***************************************************************************)
EXTENDS FeedGenerations, TLAPS

\* The lock is held by whoever is past taking it.
LockInv ==
  /\ \A b \in Builders : build[b].pc # "idle" => lock = b
  /\ \A s \in Sweepers : sweep[s].pc \in {"locked", "unlink", "unlock"} => lock = s
  /\ gc.pc \in {"locked", "unlink"} => lock = Gc

\* Rows, links and files belong together, and the rows of a generation past
\* its retention time are past theirs.
RowInv ==
  /\ \A p \in Paths : chunk[p] # "none" => Linked(p)
  /\ \A p \in Paths : Linked(p) => chunk[p] # "none"
  /\ \A p \in Paths : chunk[p] # "none" => Exists(p)

GenInv ==
  \A g \in Gens :
    /\ Committed(g) => g \in head
    /\ gen[g].old => gen[g].state = "superseded"
                     /\ \A p \in gen[g].links : chunk[p] # "young"

\* What a build under way may rely on, and what it may remove.
BuildOK(b) ==
  build[b].pc \in {"chunks", "commitPart", "rows", "built", "undo"} =>
    /\ build[b].id \in Gens /\ gen[build[b].id].state = "building"
    /\ \A p \in build[b].made : chunk[p] = "none"
    /\ build[b].pc # "undo" =>
         /\ \A p \in build[b].links : p \in build[b].new \/ p \in ParentLinks
         /\ \A p \in build[b].new : p \in build[b].links
         /\ \A p \in build[b].new : p \in build[b].todo \/ Exists(p)
    /\ build[b].pc \in {"rows", "built"} => build[b].todo = {}
    /\ build[b].pc = "commitPart" =>
         /\ build[b].cur \in Paths
         /\ build[b].reuse => Exists(build[b].cur)
         /\ ~build[b].reuse => chunk[build[b].cur] = "none"
    /\ build[b].pc = "built" => build[b].id \in head

BuildInv == \A b \in Builders : BuildOK(b)

\* What a sweep may remove.
SweepOK(s) ==
  /\ \A g \in sweep[s].todo : gen[g].old \/ gen[g].state = "gone"
  /\ sweep[s].pc \in {"locked", "unlink"} => sweep[s].cur \in Gens
  /\ sweep[s].pc = "locked"
       => gen[sweep[s].cur].old \/ gen[sweep[s].cur].state = "gone"
  /\ sweep[s].pc = "unlink" => gen[sweep[s].cur].state = "gone"
  /\ sweep[s].pc # "unlink" => sweep[s].doomed = {}
  /\ \A p \in sweep[s].doomed : chunk[p] = "none"

SweepInv == \A s \in Sweepers : SweepOK(s)

\* What the orphan GC may remove.
GcInv ==
  gc.pc = "unlink" => /\ \A p \in gc.seen : chunk[p] = "none"
                      /\ \A g \in gc.heads : ~Committed(g)

\* A download reads the files of a generation that is still there.
ReaderOK(r) ==
  reader[r].pc # "idle" =>
    /\ reader[r].gen \in Gens /\ Committed(reader[r].gen)
    /\ reader[r].pc = "chosen" => ~gen[reader[r].gen].old
    /\ \A p \in reader[r].files : p \in gen[reader[r].gen].links

ReaderInv == \A r \in Readers : ReaderOK(r)

IInv == TypeOK /\ LockInv /\ RowInv /\ GenInv /\ BuildInv /\ SweepInv /\ GcInv /\ ReaderInv

------------------------------------------------------------------------------
(* What stays true when nothing it speaks of changes *)

\* The rows, files and heads.
LEMMA StoreKept ==
  ASSUME RowInv, GenInv, UNCHANGED <<file, head, chunk, gen>>
  PROVE  RowInv' /\ GenInv'
  BY DEF RowInv, GenInv, Linked, Exists, Committed

\* A builder that does not move while the store does not.
LEMMA BuildKept ==
  ASSUME NEW b \in Builders, BuildOK(b), build'[b] = build[b],
         UNCHANGED <<file, head, chunk, gen>>
  PROVE  BuildOK(b)'
  BY DEF BuildOK, Exists, ParentLinks, Active

\* A builder without the lock relies on nothing.
LEMMA BuildWithoutLock ==
  ASSUME LockInv, NEW b \in Builders, build'[b] = build[b], lock # b
  PROVE  BuildOK(b)'
  BY DEF LockInv, BuildOK

\* A sweep that does not move while rows and generations do not.
LEMMA SweepKept ==
  ASSUME NEW s \in Sweepers, SweepOK(s), sweep'[s] = sweep[s], UNCHANGED <<chunk, gen>>
  PROVE  SweepOK(s)'
  BY DEF SweepOK

\* A sweep without the lock has candidates and nothing else.
LEMMA SweepWithoutLock ==
  ASSUME LockInv, TypeOK, NEW s \in Sweepers, SweepOK(s), sweep'[s] = sweep[s], lock # s,
         \A g \in Gens : gen[g].old \/ gen[g].state = "gone"
                         => gen'[g].old \/ gen'[g].state = "gone"
  PROVE  SweepOK(s)'
<1>1. sweep[s].pc \notin {"locked", "unlink"} /\ sweep[s].doomed = {}
  BY DEF LockInv, SweepOK
<1>2. sweep[s].todo \subseteq Gens
  BY DEF TypeOK, Sweep
<1> QED
  BY <1>1, <1>2 DEF SweepOK

\* The GC without the lock has nothing to remove.
LEMMA GcWithoutLock ==
  ASSUME LockInv, gc' = gc, lock # Gc
  PROVE  GcInv'
  BY DEF LockInv, GcInv

LEMMA GcKept ==
  ASSUME GcInv, UNCHANGED <<gc, chunk, gen>>
  PROVE  GcInv'
  BY DEF GcInv, Committed

LEMMA ReaderKept ==
  ASSUME NEW r \in Readers, ReaderOK(r), reader'[r] = reader[r], UNCHANGED gen
  PROVE  ReaderOK(r)'
  BY DEF ReaderOK, Committed

\* Init of a store in which every chunk row has a manifest.
LEMMA InitIInv ==
  ASSUME Legacy = {}, Init
  PROVE  IInv
<1>1. TypeOK
  BY StoreAssumption DEF Init, TypeOK, Age, Gen, GenState, NoGen, Build, NoBuild,
     Sweep, NoSweep, Collector, NoGc, Reader, NoReader
<1>2. LockInv /\ RowInv /\ GenInv
  BY DEF Init, LockInv, RowInv, GenInv, Linked, Committed, NoGen, NoBuild, NoSweep, NoGc
<1>3. BuildInv /\ SweepInv /\ GcInv /\ ReaderInv
  BY DEF Init, BuildInv, BuildOK, SweepInv, SweepOK, GcInv, ReaderInv, ReaderOK,
     NoBuild, NoSweep, NoGc, NoReader
<1> QED
  BY <1>1, <1>2, <1>3 DEF IInv

------------------------------------------------------------------------------
(* A build *)

\* Taking the lock and starting a generation.
LEMMA StartStep ==
  ASSUME IInv, NEW b \in Builders, NEW g \in Gens, NEW affected \in SUBSET Keys,
         NEW new \in SUBSET Paths, Start(b, g, affected, new)
  PROVE  IInv'
<1> DEFINE inherited == {p \in ParentLinks : KeyOf[p] \notin affected}
           nb == [NoBuild EXCEPT !.pc = "chunks", !.id = g, !.todo = new, !.new = new,
                    !.links = new \cup inherited]
<1> USE DEF IInv
<1>0. /\ lock = None /\ lock' = b /\ None \notin Builders \cup Sweepers \cup {Gc}
      /\ gen[g].state = "none"
      /\ gen' = [gen EXCEPT ![g].state = "building"]
      /\ build' = [build EXCEPT ![b] = nb]
      /\ UNCHANGED <<file, head, chunk, sweep, gc, reader, crashes>>
  BY StoreAssumption DEF Start
<1>1. ParentLinks \subseteq Paths
  BY DEF TypeOK, ParentLinks, Active, Gen
<1>2. nb \in Build
  BY <1>1 DEF NoBuild, Build
<1>3. /\ nb.pc = "chunks" /\ nb.id = g /\ nb.todo = new /\ nb.new = new
      /\ nb.links = new \cup inherited /\ nb.made = {}
  BY DEF NoBuild
<1>4. /\ gen'[g].state = "building" /\ gen'[g].links = gen[g].links /\ gen'[g].old = gen[g].old
      /\ \A h \in Gens \ {g} : gen'[h] = gen[h]
      /\ gen' \in [Gens -> Gen]
  BY <1>0 DEF TypeOK, Gen, GenState
<1>5. /\ \A h \in Gens : Committed(h)' <=> Committed(h)
      /\ Active' = Active
  BY <1>0, <1>4 DEF Committed, Active
<1>6. ParentLinks' = ParentLinks /\ \A p \in Paths : Linked(p)' <=> Linked(p)
  BY <1>4, <1>5 DEF ParentLinks, Linked, Active
<1>7. build'[b] = nb /\ \A c \in Builders \ {b} : build'[c] = build[c]
  BY <1>0 DEF TypeOK
<1>8. TypeOK'
  BY <1>0, <1>2, <1>4 DEF TypeOK
<1>9. LockInv'
  BY <1>0, <1>7 DEF LockInv
<1>10. RowInv'
  BY <1>0, <1>6 DEF RowInv, Exists
<1>11. GenInv'
  BY <1>0, <1>4, <1>5 DEF GenInv
<1>12. BuildInv'
  <2>1. BuildOK(b)'
    BY <1>3, <1>4, <1>6, <1>7 DEF BuildOK
  <2>2. \A c \in Builders \ {b} : BuildOK(c)'
    BY <1>0, <1>7, BuildWithoutLock
  <2> QED
    BY <2>1, <2>2 DEF BuildInv
<1>13. SweepInv'
  <2>1. gen[g].old = FALSE
    BY <1>0 DEF GenInv, TypeOK, Gen
  <2> QED
    BY <1>0, <1>4, <2>1, SweepWithoutLock DEF SweepInv
<1>14. GcInv'
  BY <1>0, GcWithoutLock
<1>15. ReaderInv'
  BY <1>0, <1>4, <1>5 DEF ReaderInv, ReaderOK
<1> QED
  BY <1>8, <1>9, <1>10, <1>11, <1>12, <1>13, <1>14, <1>15

\* A builder that holds the lock moves on and at most adds files or a head.
LEMMA BuildMoves ==
  ASSUME IInv, NEW b \in Builders, lock = b, NEW nb \in Build,
         build' = [build EXCEPT ![b] = nb], BuildOK(b)',
         UNCHANGED <<chunk, gen, lock, sweep, reader, crashes>>,
         file' \in [Paths -> Age], \A p \in Paths : Exists(p) => Exists(p)',
         head \subseteq head', head' \subseteq Gens,
         gc' \in Collector, gc'.pc = gc.pc
  PROVE  IInv'
<1> USE DEF IInv
<1>1. build'[b] = nb /\ \A c \in Builders \ {b} : build'[c] = build[c]
  BY DEF TypeOK
<1>2. TypeOK'
  BY DEF TypeOK
<1>3. LockInv'
  BY <1>1 DEF LockInv
<1>4. RowInv' /\ GenInv'
  BY DEF RowInv, GenInv, Linked, Committed
<1>5. BuildInv'
  BY <1>1, BuildWithoutLock DEF BuildInv
<1>6. SweepInv' /\ ReaderInv'
  BY SweepKept, ReaderKept DEF SweepInv, ReaderInv
<1>7. GcInv'
  BY StoreAssumption DEF LockInv, GcInv
<1> QED
  BY <1>2, <1>3, <1>4, <1>5, <1>6, <1>7

\* Looking for a chunk file, then using it or renaming the part.
LEMMA ChunkStep ==
  ASSUME IInv, NEW b \in Builders,
         \/ \E p \in Paths : StatChunk(b, p)
         \/ CommitPart(b) \/ CommitPartError(b)
  PROVE  IInv'
<1> USE DEF IInv
<1>1. build[b] \in Build /\ build[b].pc \in {"chunks", "commitPart"}
  BY DEF TypeOK, StatChunk, CommitPart, CommitPartError
<1>2. lock = b /\ BuildOK(b)
  BY <1>1 DEF LockInv, BuildInv
<1>3. CASE \E p \in Paths : StatChunk(b, p)
  <2>1. PICK p \in Paths : StatChunk(b, p)
    BY <1>3
  <2> DEFINE nb == [build[b] EXCEPT !.pc = "commitPart", !.cur = p, !.reuse = Exists(p)]
  <2>2. Exists(p) \in BOOLEAN
    BY DEF Exists
  <2>3. /\ nb \in Build /\ nb.pc = "commitPart" /\ nb.cur = p /\ nb.reuse = Exists(p)
        /\ nb.id = build[b].id /\ nb.made = build[b].made /\ nb.new = build[b].new
        /\ nb.links = build[b].links /\ nb.todo = build[b].todo
    BY <1>1, <2>2 DEF Build
  <2>4. build' = [build EXCEPT ![b] = nb]
    BY <2>1, <1>1 DEF StatChunk, TypeOK
  <2>5. UNCHANGED <<file, head, chunk, gen, lock, sweep, gc, reader, crashes>>
    BY <2>1 DEF StatChunk
  <2>6. build'[b] = nb
    BY <2>4 DEF TypeOK
  <2>7. BuildOK(b)'
    <3>1. /\ \A q \in Paths : Exists(q)' <=> Exists(q)
          /\ ~Exists(p) => chunk[p] = "none"
      BY <2>5 DEF Exists, RowInv
    <3>2. build[b].new \subseteq Paths /\ build[b].pc = "chunks"
      BY <1>1, <2>1 DEF Build, StatChunk
    <3>3. ParentLinks' = ParentLinks
      BY <2>5 DEF ParentLinks, Active
    <3> HIDE DEF nb
    <3>4. CASE Exists(p)
      BY <1>2, <2>3, <2>5, <2>6, <3>1, <3>2, <3>3, <3>4 DEF BuildOK
    <3>5. CASE ~Exists(p)
      BY <1>2, <2>3, <2>5, <2>6, <3>1, <3>2, <3>3, <3>5 DEF BuildOK
    <3> QED
      BY <3>4, <3>5
  <2> HIDE DEF nb
  <2> QED
    BY <1>2, <2>3, <2>4, <2>5, <2>7, BuildMoves DEF TypeOK, Exists
<1>4. CASE CommitPart(b) \/ CommitPartError(b)
  <2>0. PICK p \in Paths : p = build[b].cur
    BY <1>2, <1>4 DEF CommitPart, CommitPartError, BuildOK
  <2> DEFINE nb == IF CommitPart(b)
                   THEN [build[b] EXCEPT !.pc = "chunks", !.cur = None, !.todo = @ \ {p},
                           !.made = IF build[b].reuse THEN @ ELSE @ \cup {p}]
                   ELSE [build[b] EXCEPT !.pc = "undo"]
  <2>1. build[b].pc = "commitPart" /\ p \in Paths
    BY <1>4 DEF CommitPart, CommitPartError
  <2>2. nb \in Build
    BY <1>1, <2>1 DEF Build
  <2>3. build' = [build EXCEPT ![b] = nb]
    BY <1>1, <1>4, <2>0 DEF CommitPart, CommitPartError, TypeOK
  <2>4. UNCHANGED <<head, chunk, gen, lock, sweep, reader, crashes>>
    BY <1>4 DEF CommitPart, CommitPartError
  <2>5. \/ build[b].reuse /\ UNCHANGED <<file, gc>>
        \/ ~build[b].reuse /\ RenamePart(p)
    BY <1>4, <2>0 DEF CommitPart, CommitPartError
  <2>6. /\ file' \in [Paths -> Age] /\ Exists(p)'
        /\ \A q \in Paths : Exists(q) => Exists(q)'
    BY <1>2, <2>0, <2>1, <2>5 DEF RenamePart, TypeOK, Age, Exists, BuildOK
  <2>7. gc' \in Collector /\ gc'.pc = gc.pc
    BY <2>5 DEF RenamePart, TypeOK, Collector
  <2>8. build'[b] = nb
    BY <2>3 DEF TypeOK
  <2>9. BuildOK(b)'
    <3>1. CASE CommitPart(b)
      <4>1. /\ nb.pc = "chunks" /\ nb.todo = build[b].todo \ {p}
            /\ nb.made = IF build[b].reuse THEN build[b].made ELSE build[b].made \cup {p}
            /\ nb.id = build[b].id /\ nb.new = build[b].new /\ nb.links = build[b].links
        BY <1>1, <3>1 DEF Build
      <4>2. build[b].new \subseteq Paths
        BY <1>1 DEF Build
      <4>3. ParentLinks' = ParentLinks
        BY <2>4 DEF ParentLinks, Active
      <4>4. ~build[b].reuse => chunk[p] = "none"
        BY <1>2, <2>0, <2>1 DEF BuildOK
      <4> HIDE DEF nb
      <4> QED
        BY <1>2, <2>1, <2>4, <2>6, <2>8, <4>1, <4>2, <4>3, <4>4 DEF BuildOK
    <3>2. CASE ~CommitPart(b)
      <4>1. nb.pc = "undo" /\ nb.made = build[b].made /\ nb.id = build[b].id
        BY <1>1, <3>2 DEF Build
      <4> QED
        BY <1>2, <2>1, <2>4, <2>8, <4>1 DEF BuildOK
    <3> QED
      BY <3>1, <3>2
  <2> HIDE DEF nb
  <2> QED
    BY <1>2, <2>2, <2>3, <2>4, <2>6, <2>7, <2>9, BuildMoves DEF TypeOK
<1> QED
  BY <1>3, <1>4

\* The rows inside the transaction, the recency head, and failures on the way.
LEMMA RowsStep ==
  ASSUME IInv, NEW b \in Builders,
         UpsertRows(b) \/ WriteHead(b) \/ WriteHeadError(b) \/ BuildError(b)
  PROVE  IInv'
<1> USE DEF IInv
<1> DEFINE nb == IF UpsertRows(b) THEN [build[b] EXCEPT !.pc = "rows"]
                 ELSE IF WriteHead(b) THEN [build[b] EXCEPT !.pc = "built", !.hasHead = TRUE]
                 ELSE [build[b] EXCEPT !.pc = "undo"]
<1>1. build[b] \in Build /\ build[b].pc \in {"chunks", "commitPart", "rows", "built"}
  BY DEF TypeOK, UpsertRows, WriteHead, WriteHeadError, BuildError
<1>2. lock = b /\ BuildOK(b)
  BY <1>1 DEF LockInv, BuildInv
<1>3. nb \in Build
  BY <1>1 DEF Build
<1>4. build' = [build EXCEPT ![b] = nb]
  BY <1>1 DEF UpsertRows, WriteHead, WriteHeadError, BuildError, TypeOK
<1>5. UNCHANGED <<file, chunk, gen, lock, sweep, gc, reader, crashes>>
  BY DEF UpsertRows, WriteHead, WriteHeadError, BuildError
<1>6. build[b].id \in Gens
  BY <1>1, <1>2 DEF BuildOK
<1>7. /\ head' = head \/ head' = head \cup {build[b].id}
      /\ WriteHead(b) => build[b].id \in head'
  BY DEF UpsertRows, WriteHead, WriteHeadError, BuildError
<1>8. build'[b] = nb
  BY <1>4 DEF TypeOK
<1>9. /\ nb.made = build[b].made /\ nb.id = build[b].id /\ nb.new = build[b].new
      /\ nb.links = build[b].links /\ nb.todo = build[b].todo
      /\ nb.pc \in {"rows", "built", "undo"}
      /\ nb.pc \in {"rows", "built"} => build[b].todo = {}
      /\ nb.pc = "built" => WriteHead(b)
  BY <1>1, <1>2 DEF Build, UpsertRows, WriteHead, BuildOK
<1>10. BuildOK(b)'
  BY <1>1, <1>2, <1>5, <1>7, <1>8, <1>9 DEF BuildOK, ParentLinks, Active, Exists
<1> HIDE DEF nb
<1> QED
  BY <1>2, <1>3, <1>4, <1>5, <1>6, <1>7, <1>10, BuildMoves DEF TypeOK, Exists

\* A builder that ends its transaction without COMMIT: the generation is gone.
LEMMA GiveUp ==
  ASSUME IInv, NEW b \in Builders, build[b].pc \in {"built", "undo"},
         gen' = [gen EXCEPT ![build[b].id].state = "gone"],
         build' = [build EXCEPT ![b] = [NoBuild EXCEPT !.pc = "unlock"]],
         UNCHANGED <<file, head, chunk, lock, sweep, gc, reader, crashes>>
  PROVE  IInv'
<1> USE DEF IInv
<1>1. lock = b /\ BuildOK(b) /\ lock \notin Sweepers \cup {Gc}
  BY StoreAssumption DEF LockInv, BuildInv
<1>2. PICK i \in Gens : i = build[b].id /\ gen[i].state = "building"
  BY <1>1 DEF BuildOK
<1>3. /\ gen'[i].state = "gone" /\ gen'[i].links = gen[i].links /\ gen'[i].old = gen[i].old
      /\ \A h \in Gens \ {i} : gen'[h] = gen[h]
      /\ gen' \in [Gens -> Gen]
  BY <1>2 DEF TypeOK, Gen, GenState
<1>4. \A h \in Gens : Committed(h)' <=> Committed(h)
  BY <1>2, <1>3 DEF Committed
<1>5. build'[b].pc = "unlock" /\ \A c \in Builders \ {b} : build'[c] = build[c]
  BY DEF TypeOK, NoBuild
<1>6. TypeOK'
  BY <1>3 DEF TypeOK, NoBuild, Build
<1>7. LockInv'
  BY <1>1, <1>5 DEF LockInv
<1>8. RowInv' /\ GenInv'
  <2>1. \A p \in Paths : Linked(p)' <=> Linked(p)
    BY <1>3, <1>4 DEF Linked
  <2>2. RowInv'
    BY <2>1 DEF RowInv, Exists
  <2>3. GenInv'
    BY <1>2, <1>3, <1>4 DEF GenInv
  <2> QED
    BY <2>2, <2>3
<1>9. BuildInv'
  <2>1. BuildOK(b)'
    BY <1>5 DEF BuildOK
  <2> QED
    BY <1>1, <1>5, <2>1, BuildWithoutLock DEF BuildInv
<1>10. SweepInv'
  BY <1>1, <1>3, SweepWithoutLock DEF SweepInv
<1>11. GcInv' /\ ReaderInv'
  BY <1>1, <1>3, <1>4, GcWithoutLock DEF ReaderInv, ReaderOK
<1> QED
  BY <1>6, <1>7, <1>8, <1>9, <1>10, <1>11

\* Removing what a failed build knows it made.
LEMMA UndoStep ==
  ASSUME IInv, NEW b \in Builders, Undo(b)
  PROVE  IInv'
<1> USE DEF IInv
<1>1. build[b] \in Build /\ build[b].pc = "undo"
  BY DEF TypeOK, Undo
<1>2. lock = b /\ BuildOK(b) /\ lock \notin Sweepers \cup {Gc}
  BY <1>1, StoreAssumption DEF LockInv, BuildInv
<1>3. PICK i \in Gens : i = build[b].id /\ gen[i].state = "building"
  BY <1>1, <1>2 DEF BuildOK
<1>4. UNCHANGED <<chunk, lock, sweep, gc, reader, crashes>>
  BY DEF Undo
<1>5. CASE \E p \in build[b].made :
             /\ file' = [file EXCEPT ![p] = "none"]
             /\ build' = [build EXCEPT ![b].made = @ \ {p}]
             /\ UNCHANGED <<head, gen>>
  <2>1. PICK p \in build[b].made :
             /\ file' = [file EXCEPT ![p] = "none"]
             /\ build' = [build EXCEPT ![b].made = @ \ {p}]
             /\ UNCHANGED <<head, gen>>
    BY <1>5
  <2>2. p \in Paths /\ chunk[p] = "none"
    BY <1>1, <1>2 DEF Build, BuildOK
  <2>3. /\ build'[b].pc = "undo" /\ build'[b].id = build[b].id
        /\ build'[b].made \subseteq build[b].made
        /\ \A c \in Builders \ {b} : build'[c] = build[c]
        /\ build' \in [Builders -> Build]
    BY <1>1, <2>1 DEF TypeOK, Build
  <2>4. TypeOK'
    BY <1>4, <2>1, <2>2, <2>3 DEF TypeOK, Age
  <2>5. LockInv'
    BY <1>2, <1>4, <2>3 DEF LockInv
  <2>6. RowInv' /\ GenInv'
    BY <1>4, <2>1, <2>2 DEF RowInv, GenInv, Linked, Committed, Exists, TypeOK
  <2>7. BuildInv'
    <3>1. BuildOK(b)'
      BY <1>1, <1>2, <1>4, <2>1, <2>3 DEF BuildOK
    <3> QED
      BY <1>2, <2>3, <3>1, BuildWithoutLock DEF BuildInv
  <2>8. SweepInv' /\ GcInv' /\ ReaderInv'
    BY <1>4, <2>1, SweepKept, GcKept, ReaderKept DEF SweepInv, ReaderInv
  <2> QED
    BY <2>4, <2>5, <2>6, <2>7, <2>8
<1>6. CASE /\ build[b].made = {} /\ build[b].hasHead
           /\ head' = head \ {build[b].id}
           /\ build' = [build EXCEPT ![b].hasHead = FALSE]
           /\ UNCHANGED <<file, gen>>
  <2>1. /\ build'[b].pc = "undo" /\ build'[b].id = build[b].id
        /\ build'[b].made = {}
        /\ \A c \in Builders \ {b} : build'[c] = build[c]
        /\ build' \in [Builders -> Build]
    BY <1>1, <1>6 DEF TypeOK, Build
  <2>2. TypeOK' /\ LockInv'
    BY <1>2, <1>4, <1>6, <2>1 DEF TypeOK, LockInv
  <2>3. RowInv' /\ GenInv'
    BY <1>3, <1>4, <1>6 DEF RowInv, GenInv, Linked, Committed, Exists
  <2>4. BuildInv'
    <3>1. BuildOK(b)'
      BY <1>1, <1>2, <1>4, <1>6, <2>1 DEF BuildOK
    <3> QED
      BY <1>2, <2>1, <3>1, BuildWithoutLock DEF BuildInv
  <2>5. SweepInv' /\ GcInv' /\ ReaderInv'
    BY <1>4, <1>6, SweepKept, GcKept, ReaderKept DEF SweepInv, ReaderInv
  <2> QED
    BY <2>2, <2>3, <2>4, <2>5
<1>7. CASE /\ gen' = [gen EXCEPT ![build[b].id].state = "gone"]
           /\ build' = [build EXCEPT ![b] = [NoBuild EXCEPT !.pc = "unlock"]]
           /\ UNCHANGED <<file, head>>
  BY <1>1, <1>4, <1>7, GiveUp
<1> QED
  BY <1>5, <1>6, <1>7 DEF Undo

\* COMMIT: every linked chunk has its row, and every row its file.
LEMMA CommitStep ==
  ASSUME IInv, NEW b \in Builders, Commit(b)
  PROVE  IInv'
<1> USE DEF IInv
<1>1. /\ build[b] \in Build /\ build[b].pc = "built"
      /\ UNCHANGED <<file, head, lock, sweep, gc, reader, crashes>>
  BY DEF TypeOK, Commit
<1>2. lock = b /\ BuildOK(b) /\ lock \notin Sweepers \cup {Gc}
  BY <1>1, StoreAssumption DEF LockInv, BuildInv
<1>3. PICK i \in Gens : i = build[b].id /\ gen[i].state = "building" /\ i \in head
  BY <1>1, <1>2 DEF BuildOK
<1> DEFINE new == build[b].new
           links == build[b].links
<1>4. /\ new \subseteq Paths /\ links \subseteq Paths /\ new \subseteq links
      /\ \A p \in new : Exists(p)
      /\ \A p \in links : p \in new \/ p \in ParentLinks
  BY <1>1, <1>2 DEF Build, BuildOK
<1>5. PICK n \in SUBSET Paths, l \in SUBSET Paths : n = new /\ l = links
  BY <1>4
<1>6. /\ chunk' \in [Paths -> Age]
      /\ \A p \in Paths : chunk'[p] = IF p \in n /\ chunk[p] = "none" THEN "young" ELSE chunk[p]
  BY <1>5 DEF Commit, TypeOK, Age
<1>7. /\ gen'[i] = [state |-> "active", links |-> l, old |-> FALSE]
      /\ \A g \in Gens \ {i} : IF gen[g].state = "active"
                               THEN gen'[g] = [gen[g] EXCEPT !.state = "superseded"]
                               ELSE gen'[g] = gen[g]
      /\ DOMAIN gen' = Gens /\ gen' = [g \in Gens |-> gen'[g]]
  BY <1>3, <1>5 DEF Commit, Active
<1>8. \A g \in Gens \ {i} :
        /\ gen'[g].links = gen[g].links
        /\ gen'[g].old <=> gen[g].old
        /\ Committed(g)' <=> Committed(g)
        /\ gen[g].state = "gone" => gen'[g].state = "gone"
        /\ gen[g].state = "superseded" => gen'[g].state = "superseded"
        /\ gen'[g] \in Gen
  BY <1>7 DEF TypeOK, Gen, GenState, Committed
<1>9. /\ gen'[i].links = l /\ gen'[i].old = FALSE /\ gen'[i].state = "active"
      /\ gen'[i] \in Gen /\ Committed(i)' /\ ~Committed(i)
  BY <1>3, <1>7 DEF Gen, GenState, Committed
<1>10. build'[b].pc = "unlock" /\ \A c \in Builders \ {b} : build'[c] = build[c]
  BY DEF Commit, TypeOK, NoBuild
<1>11. TypeOK'
  <2>1. build' \in [Builders -> Build]
    BY DEF Commit, TypeOK, NoBuild, Build
  <2>2. gen' \in [Gens -> Gen]
    BY <1>7, <1>8, <1>9
  <2> QED
    BY <1>1, <1>6, <2>1, <2>2 DEF TypeOK
<1>12. LockInv'
  BY <1>1, <1>2, <1>10 DEF LockInv
<1>13. RowInv'
  <2>1. \A p \in Paths : Linked(p)' <=> Linked(p) \/ p \in l
    BY <1>3, <1>8, <1>9 DEF Linked
  <2>2. \A p \in Paths : p \in l => p \in n \/ Linked(p)
    BY <1>4, <1>5 DEF ParentLinks, Active, Linked, Committed
  <2>3. \A p \in Paths : Exists(p)' <=> Exists(p)
    BY <1>1 DEF Exists
  <2> QED
    BY <1>4, <1>5, <1>6, <2>1, <2>2, <2>3 DEF RowInv
<1>14. GenInv'
  <2> SUFFICES ASSUME NEW g \in Gens
               PROVE  /\ Committed(g)' => g \in head'
                      /\ gen'[g].old => gen'[g].state = "superseded"
                           /\ \A p \in gen'[g].links : chunk'[p] # "young"
    BY DEF GenInv
  <2>1. CASE g = i
    BY <1>1, <1>3, <1>9, <2>1
  <2>2. CASE g # i
    <3>1. gen[g].links \subseteq Paths
      BY DEF TypeOK, Gen
    <3>2. gen[g].old => \A p \in gen[g].links : chunk[p] # "none" /\ chunk[p] # "young"
      BY <3>1 DEF GenInv, RowInv, Linked, Committed
    <3> QED
      BY <1>1, <1>6, <1>8, <2>2, <3>1, <3>2 DEF GenInv
  <2> QED
    BY <2>1, <2>2
<1>15. BuildInv'
  <2>1. BuildOK(b)'
    BY <1>10 DEF BuildOK
  <2> QED
    BY <1>2, <1>10, <2>1, BuildWithoutLock DEF BuildInv
<1>16. SweepInv'
  <2>1. \A g \in Gens : gen[g].old \/ gen[g].state = "gone"
                        => gen'[g].old \/ gen'[g].state = "gone"
    BY <1>3, <1>8 DEF GenInv
  <2> QED
    BY <1>1, <1>2, <2>1, SweepWithoutLock DEF SweepInv
<1>17. GcInv' /\ ReaderInv'
  <2>1. GcInv'
    BY <1>1, <1>2, GcWithoutLock
  <2>2. \A r \in Readers : reader[r].pc # "idle" => reader[r].gen # i
    BY <1>9 DEF ReaderInv, ReaderOK
  <2>3. ReaderInv'
    BY <1>1, <1>8, <2>2 DEF ReaderInv, ReaderOK
  <2> QED
    BY <2>1, <2>3
<1> QED
  BY <1>11, <1>12, <1>13, <1>14, <1>15, <1>16, <1>17

\* Giving the lock back after a build.
LEMMA UnlockStep ==
  ASSUME IInv, NEW b \in Builders, Unlock(b)
  PROVE  IInv'
<1> USE DEF IInv
<1>1. /\ build[b].pc = "unlock" /\ lock = b /\ lock' = None
      /\ build' = [build EXCEPT ![b] = NoBuild]
      /\ UNCHANGED <<file, head, chunk, gen, sweep, gc, reader, crashes>>
  BY DEF Unlock, LockInv
<1>2. build'[b].pc = "idle" /\ \A c \in Builders \ {b} : build'[c] = build[c]
  BY <1>1 DEF TypeOK, NoBuild
<1>3. TypeOK'
  BY <1>1 DEF TypeOK, NoBuild, Build
<1>4. LockInv'
  BY <1>1, <1>2, StoreAssumption DEF LockInv
<1>5. BuildInv'
  <2>1. BuildOK(b)'
    BY <1>2 DEF BuildOK
  <2> QED
    BY <1>1, <1>2, <2>1, BuildWithoutLock DEF BuildInv
<1>6. RowInv' /\ GenInv' /\ SweepInv' /\ GcInv' /\ ReaderInv'
  BY <1>1, StoreKept, SweepKept, GcKept, ReaderKept DEF SweepInv, ReaderInv
<1> QED
  BY <1>3, <1>4, <1>5, <1>6

------------------------------------------------------------------------------
(* Retention and the purge *)

\* A sweep that moves on, taking or giving back the lock at most.
LEMMA SweepMoves ==
  ASSUME IInv, NEW s \in Sweepers, NEW ns \in Sweep,
         sweep' = [sweep EXCEPT ![s] = ns], SweepOK(s)',
         UNCHANGED <<file, head, chunk, gen, build, gc, reader, crashes>>,
         lock' = lock \/ (lock = None /\ lock' = s) \/ (lock = s /\ lock' = None),
         ns.pc \in {"locked", "unlink", "unlock"} => lock' = s
  PROVE  IInv'
<1> USE DEF IInv
<1>1. sweep'[s] = ns /\ \A t \in Sweepers \ {s} : sweep'[t] = sweep[t]
  BY DEF TypeOK
<1>2. TypeOK'
  BY DEF TypeOK
<1>3. LockInv'
  BY <1>1, StoreAssumption DEF LockInv
<1>4. SweepInv'
  BY <1>1, SweepKept DEF SweepInv
<1>5. RowInv' /\ GenInv' /\ BuildInv' /\ GcInv' /\ ReaderInv'
  BY StoreKept, BuildKept, GcKept, ReaderKept DEF BuildInv, ReaderInv
<1> QED
  BY <1>2, <1>3, <1>4, <1>5

\* Choosing candidates, passing over them, ending: nothing is left to unlink.
LEMMA SweepPassesOver ==
  ASSUME IInv, NEW s \in Sweepers,
         \/ SweepCandidates(s) \/ SweepLost(s) \/ SweepEnd(s) \/ PurgeEnd(s)
         \/ SweepUnlock(s) \/ SweepError(s)
         \/ \E g \in Gens : SweepSkip(s, g) \/ SweepLock(s, g)
  PROVE  IInv'
<1> USE DEF IInv
<1> DEFINE Candidates == {g \in Gens : gen[g].state = "superseded" /\ gen[g].old}
<1>1. sweep[s] \in Sweep /\ SweepOK(s)
  BY DEF TypeOK, SweepInv
<1>2. UNCHANGED <<file, head, chunk, gen, build, gc, reader, crashes>>
  BY DEF SweepCandidates, SweepLost, SweepEnd, PurgeEnd, SweepUnlock, SweepError,
     SweepSkip, SweepLock
<1>3. sweep[s].pc # "unlink" /\ sweep[s].doomed = {}
  BY <1>1 DEF SweepOK, SweepCandidates, SweepLost, SweepEnd, PurgeEnd, SweepUnlock,
     SweepError, SweepSkip, SweepLock
<1>4. ASSUME NEW ns \in Sweep, sweep' = [sweep EXCEPT ![s] = ns],
             ns.pc # "unlink", ns.doomed = {},
             \A g \in ns.todo : g \in sweep[s].todo \/ g \in Candidates,
             ns.pc = "locked" => ns.cur \in sweep[s].todo,
             lock' = lock \/ (lock = None /\ lock' = s) \/ (lock = s /\ lock' = None),
             ns.pc \in {"locked", "unlock"} => lock' = s
      PROVE  IInv'
  <2>1. sweep'[s] = ns
    BY <1>4 DEF TypeOK
  <2>2. sweep[s].todo \subseteq Gens
    BY <1>1 DEF Sweep
  <2>3. SweepOK(s)'
    BY <1>1, <1>2, <1>4, <2>1, <2>2 DEF SweepOK
  <2> QED
    BY <1>2, <1>4, <2>1, <2>3, SweepMoves
<1>5. CASE SweepCandidates(s)
  <2> DEFINE ns == [sweep[s] EXCEPT !.pc = "next", !.todo = Candidates]
  <2>1. ns \in Sweep /\ ns.pc = "next" /\ ns.doomed = {} /\ ns.todo = Candidates
    BY <1>1, <1>3 DEF Sweep
  <2>2. sweep' = [sweep EXCEPT ![s] = ns]
    BY <1>1, <1>5 DEF SweepCandidates, TypeOK
  <2>3. lock' = lock
    BY <1>5 DEF SweepCandidates
  <2> HIDE DEF ns
  <2> QED
    BY <1>4, <2>1, <2>2, <2>3
<1>6. CASE SweepLost(s)
  <2> DEFINE ns == [sweep[s] EXCEPT !.pc = "unlock"]
  <2>1. ns \in Sweep /\ ns.pc = "unlock" /\ ns.doomed = {} /\ ns.todo = sweep[s].todo
    BY <1>1, <1>3 DEF Sweep
  <2>2. sweep' = [sweep EXCEPT ![s] = ns]
    BY <1>1, <1>6 DEF SweepLost, TypeOK
  <2>3. lock' = lock /\ lock = s
    BY <1>6 DEF SweepLost, LockInv
  <2> HIDE DEF ns
  <2> QED
    BY <1>4, <2>1, <2>2, <2>3
<1>7. CASE SweepEnd(s)
  <2> DEFINE ns == [sweep[s] EXCEPT !.pc = "purge"]
  <2>1. ns \in Sweep /\ ns.pc = "purge" /\ ns.doomed = {} /\ ns.todo = sweep[s].todo
    BY <1>1, <1>3 DEF Sweep
  <2>2. sweep' = [sweep EXCEPT ![s] = ns]
    BY <1>1, <1>7 DEF SweepEnd, TypeOK
  <2>3. lock' = lock
    BY <1>7 DEF SweepEnd
  <2> HIDE DEF ns
  <2> QED
    BY <1>4, <2>1, <2>2, <2>3
<1>8. CASE PurgeEnd(s) \/ SweepError(s)
  <2>1. NoSweep \in Sweep /\ NoSweep.pc = "idle" /\ NoSweep.doomed = {} /\ NoSweep.todo = {}
    BY DEF Sweep, NoSweep
  <2>2. sweep' = [sweep EXCEPT ![s] = NoSweep]
    BY <1>8 DEF PurgeEnd, SweepError
  <2>3. lock' = lock \/ (lock = s /\ lock' = None)
    BY <1>8 DEF PurgeEnd, SweepError
  <2> QED
    BY <1>4, <2>1, <2>2, <2>3
<1>9. CASE SweepUnlock(s)
  <2> DEFINE ns == [sweep[s] EXCEPT !.pc = "next", !.cur = None]
  <2>1. ns \in Sweep /\ ns.pc = "next" /\ ns.doomed = {} /\ ns.todo = sweep[s].todo
    BY <1>1, <1>3 DEF Sweep
  <2>2. sweep' = [sweep EXCEPT ![s] = ns]
    BY <1>1, <1>9 DEF SweepUnlock, TypeOK
  <2>3. lock' = None /\ lock = s
    BY <1>9 DEF SweepUnlock, LockInv
  <2> HIDE DEF ns
  <2> QED
    BY <1>4, <2>1, <2>2, <2>3
<1>10. CASE \E g \in Gens : SweepSkip(s, g)
  <2>1. PICK g \in Gens : SweepSkip(s, g)
    BY <1>10
  <2> DEFINE ns == [sweep[s] EXCEPT !.todo = @ \ {g}]
  <2>2. ns \in Sweep /\ ns.pc = "next" /\ ns.doomed = {} /\ ns.todo = sweep[s].todo \ {g}
    BY <1>1, <1>3, <2>1 DEF Sweep, SweepSkip
  <2>3. sweep' = [sweep EXCEPT ![s] = ns] /\ lock' = lock
    BY <1>1, <2>1 DEF SweepSkip, TypeOK
  <2> HIDE DEF ns
  <2> QED
    BY <1>4, <2>2, <2>3
<1>11. CASE \E g \in Gens : SweepLock(s, g)
  <2>1. PICK g \in Gens : SweepLock(s, g)
    BY <1>11
  <2> DEFINE ns == [sweep[s] EXCEPT !.pc = "locked", !.cur = g, !.todo = @ \ {g}]
  <2>2. /\ ns \in Sweep /\ ns.pc = "locked" /\ ns.doomed = {} /\ ns.cur = g
        /\ ns.todo = sweep[s].todo \ {g}
    BY <1>1, <1>3 DEF Sweep
  <2>3. sweep' = [sweep EXCEPT ![s] = ns]
    BY <1>1, <2>1 DEF SweepLock, TypeOK
  <2>4. lock = None /\ lock' = s /\ g \in sweep[s].todo
    BY <2>1 DEF SweepLock
  <2> HIDE DEF ns
  <2> QED
    BY <1>4, <2>2, <2>3, <2>4
<1> QED
  BY <1>5, <1>6, <1>7, <1>8, <1>9, <1>10, <1>11

\* The purge finds no unreachable row, and so removes no file.
LEMMA PurgeStepInv ==
  ASSUME IInv, NEW s \in Sweepers, PurgeRows(s) \/ \E p \in Paths : PurgeFile(s, p)
  PROVE  IInv'
<1> USE DEF IInv
<1>1. sweep[s] \in Sweep /\ SweepOK(s)
  BY DEF TypeOK, SweepInv
<1>2. PurgeRows(s)
  BY <1>1 DEF PurgeFile, SweepOK
<1>3. Unreachable = {}
  BY DEF Unreachable, RowInv
<1>4. UNCHANGED chunk
  BY <1>2, <1>3 DEF PurgeRows, TypeOK
<1> DEFINE ns == [sweep[s] EXCEPT !.pc = "purging", !.doomed = {}]
<1>5. ns \in Sweep /\ ns.pc = "purging" /\ ns.doomed = {} /\ ns.todo = sweep[s].todo
  BY <1>1 DEF Sweep
<1>6. sweep' = [sweep EXCEPT ![s] = ns] /\ sweep'[s] = ns
  BY <1>1, <1>2, <1>3 DEF PurgeRows, TypeOK
<1>7. UNCHANGED <<file, head, chunk, gen, lock, build, gc, reader, crashes>>
  BY <1>2, <1>4 DEF PurgeRows
<1> HIDE DEF ns
<1>8. SweepOK(s)'
  BY <1>1, <1>5, <1>6, <1>7 DEF SweepOK
<1> QED
  BY <1>5, <1>6, <1>7, <1>8, SweepMoves

\* Deleting a generation with the rows that only it reaches.
LEMMA SweepDeleteStep ==
  ASSUME IInv, NEW s \in Sweepers, SweepDelete(s)
  PROVE  IInv'
<1> USE DEF IInv
<1>1. /\ sweep[s] \in Sweep /\ SweepOK(s) /\ sweep[s].pc = "locked"
      /\ UNCHANGED <<file, head, lock, build, gc, reader, crashes>>
  BY DEF TypeOK, SweepInv, SweepDelete
<1>2. lock = s /\ lock \notin Builders \cup {Gc}
  BY <1>1, StoreAssumption DEF LockInv
<1>3. PICK g \in Gens : g = sweep[s].cur
  BY <1>1 DEF SweepOK
<1>4. ~Pinned(g) /\ gen[g].state = "superseded" /\ gen[g].old
  BY <1>1, <1>3 DEF SweepDelete, SweepOK
<1>5. PICK ps \in SUBSET Paths : ps = OnlyIn(g)
  BY DEF OnlyIn
<1>6. /\ gen'[g] = [state |-> "gone", links |-> {}, old |-> FALSE]
      /\ \A h \in Gens \ {g} : gen'[h] = gen[h]
      /\ gen' \in [Gens -> Gen]
  BY <1>3 DEF SweepDelete, TypeOK, Gen, GenState, NoGen
<1>7. /\ chunk' \in [Paths -> Age]
      /\ \A p \in Paths : chunk'[p] = IF p \in ps THEN "none" ELSE chunk[p]
  BY <1>3, <1>5 DEF SweepDelete, TypeOK, Age
<1>8. /\ sweep' \in [Sweepers -> Sweep]
      /\ sweep'[s].pc = "unlink" /\ sweep'[s].doomed = ps /\ sweep'[s].cur = g
      /\ sweep'[s].todo = sweep[s].todo
      /\ \A t \in Sweepers \ {s} : sweep'[t] = sweep[t]
  BY <1>1, <1>3, <1>5 DEF SweepDelete, TypeOK, Sweep
<1>9. TypeOK' /\ LockInv'
  BY <1>1, <1>2, <1>6, <1>7, <1>8 DEF TypeOK, LockInv
<1>10. /\ ~Committed(g)'
       /\ \A h \in Gens \ {g} : Committed(h)' <=> Committed(h)
  BY <1>6 DEF Committed
<1>11. RowInv'
  <2> SUFFICES ASSUME NEW p \in Paths
               PROVE  /\ chunk'[p] # "none" => Linked(p)'
                      /\ Linked(p)' => chunk'[p] # "none"
                      /\ chunk'[p] # "none" => Exists(p)'
    BY DEF RowInv
  <2>1. Linked(p)' <=> \E h \in Gens \ {g} : Committed(h) /\ p \in gen[h].links
    BY <1>6, <1>10 DEF Linked
  <2>2. p \in ps <=> chunk[p] = "old" /\ ~Linked(p)'
    BY <1>5, <2>1 DEF OnlyIn
  <2>3. Linked(p)' => chunk[p] # "none"
    BY <2>1 DEF RowInv, Linked
  <2>4. chunk[p] # "none" /\ ~Linked(p)' => chunk[p] = "old"
    <3>1. chunk[p] # "none" /\ ~Linked(p)' => p \in gen[g].links
      BY <2>1 DEF RowInv, Linked
    <3> QED
      BY <1>4, <3>1 DEF GenInv, TypeOK, Age
  <2>5. chunk[p] # "none" => Exists(p)'
    BY <1>1 DEF RowInv, Exists
  <2> QED
    BY <1>7, <2>2, <2>3, <2>4, <2>5
<1>12. GenInv'
  <2>1. \A h \in Gens \ {g} : gen[h].links \subseteq Paths
    BY DEF TypeOK, Gen
  <2> QED
    BY <1>1, <1>6, <1>7, <1>10, <2>1 DEF GenInv
<1>13. BuildInv' /\ GcInv'
  BY <1>1, <1>2, BuildWithoutLock, GcWithoutLock DEF BuildInv
<1>14. SweepInv'
  <2>1. SweepOK(s)'
    BY <1>1, <1>6, <1>7, <1>8 DEF SweepOK, Sweep
  <2> QED
    BY <1>2, <1>6, <1>8, <2>1, SweepWithoutLock DEF SweepInv
<1>15. ReaderInv'
  <2>1. \A r \in Readers : reader[r].pc # "idle" => reader[r].gen # g
    <3> SUFFICES ASSUME NEW r \in Readers, reader[r].pc # "idle", reader[r].gen = g
                 PROVE  FALSE
      OBVIOUS
    <3>1. reader[r].pc \in {"chosen", "pinned"}
      BY DEF TypeOK, Reader
    <3> QED
      BY <1>4, <3>1 DEF Pinned, ReaderInv, ReaderOK
  <2> QED
    BY <1>1, <1>6, <1>10, <2>1 DEF ReaderInv, ReaderOK
<1> QED
  BY <1>9, <1>11, <1>12, <1>13, <1>14, <1>15

\* Removing the files of the deleted rows, and the head of the generation.
LEMMA SweepUnlinkStep ==
  ASSUME IInv, NEW s \in Sweepers, SweepUnlink(s)
  PROVE  IInv'
<1> USE DEF IInv
<1>1. /\ sweep[s] \in Sweep /\ SweepOK(s) /\ sweep[s].pc = "unlink"
      /\ UNCHANGED <<chunk, gen, lock, build, gc, reader, crashes>>
  BY DEF TypeOK, SweepInv, SweepUnlink
<1>2. lock = s /\ lock \notin Builders \cup {Gc}
  BY <1>1, StoreAssumption DEF LockInv
<1>3. PICK g \in Gens : g = sweep[s].cur /\ gen[g].state = "gone"
  BY <1>1 DEF SweepOK
<1>4. \A p \in sweep[s].doomed : p \in Paths /\ chunk[p] = "none"
  BY <1>1 DEF SweepOK, Sweep
<1>5. /\ file' \in [Paths -> Age]
      /\ \A p \in Paths : chunk[p] # "none" => file'[p] = file[p]
  BY <1>4 DEF SweepUnlink, TypeOK, Age
<1>6. head' \subseteq head /\ \A h \in head : h \in head' \/ h = g
  BY <1>3 DEF SweepUnlink
<1>7. /\ sweep' \in [Sweepers -> Sweep]
      /\ \A t \in Sweepers \ {s} : sweep'[t] = sweep[t]
      /\ sweep'[s].pc \in {"unlink", "unlock"} /\ sweep'[s].doomed \subseteq sweep[s].doomed
      /\ sweep'[s].pc = "unlock" => sweep'[s].doomed = {}
      /\ sweep'[s].cur = g /\ sweep'[s].todo = sweep[s].todo
  BY <1>1, <1>3 DEF SweepUnlink, TypeOK, Sweep
<1>8. TypeOK' /\ LockInv'
  BY <1>1, <1>2, <1>5, <1>6, <1>7 DEF TypeOK, LockInv
<1>9. RowInv' /\ GenInv'
  BY <1>1, <1>3, <1>5, <1>6 DEF RowInv, GenInv, Linked, Committed, Exists
<1>10. BuildInv' /\ GcInv' /\ ReaderInv'
  BY <1>1, <1>2, BuildWithoutLock, GcKept, ReaderKept DEF BuildInv, ReaderInv
<1>11. SweepInv'
  <2>1. SweepOK(s)'
    BY <1>1, <1>3, <1>7 DEF SweepOK
  <2> QED
    BY <1>1, <1>7, <2>1, SweepKept DEF SweepInv
<1> QED
  BY <1>8, <1>9, <1>10, <1>11

------------------------------------------------------------------------------
(* The orphan GC *)

\* Scanning, taking the lock, looking for references, giving the lock back.
LEMMA GcLooks ==
  ASSUME IInv, (\E hs \in SUBSET Gens : GcScan(hs)) \/ GcLock \/ GcBusy \/ GcLoad \/ GcUnlock
  PROVE  IInv'
<1> USE DEF IInv
<1>1. UNCHANGED <<file, head, chunk, gen, build, sweep, reader, crashes>>
  BY DEF GcScan, GcLock, GcBusy, GcLoad, GcUnlock
<1>2. gc' \in Collector
  BY DEF TypeOK, GcScan, GcLock, GcBusy, GcLoad, GcUnlock, Collector, NoGc
<1>3. /\ lock' = lock \/ (lock = None /\ lock' = Gc) \/ (lock = Gc /\ lock' = None)
      /\ gc'.pc \in {"locked", "unlink"} => lock' = Gc
  BY DEF LockInv, TypeOK, Collector, GcScan, GcLock, GcBusy, GcLoad, GcUnlock, NoGc
<1>4. TypeOK'
  BY <1>1, <1>2, <1>3 DEF TypeOK
<1>5. LockInv'
  BY <1>1, <1>3, StoreAssumption DEF LockInv
<1>6. GcInv'
  <2>1. gc'.pc = "unlink" => GcLoad
    BY DEF TypeOK, Collector, GcScan, GcLock, GcBusy, GcUnlock, NoGc
  <2> QED
    BY <1>1, <2>1 DEF GcInv, GcLoad, Committed
<1>7. RowInv' /\ GenInv' /\ BuildInv' /\ SweepInv' /\ ReaderInv'
  BY <1>1, StoreKept, BuildKept, SweepKept, ReaderKept DEF BuildInv, SweepInv, ReaderInv
<1> QED
  BY <1>4, <1>5, <1>6, <1>7

\* Unlinking files and heads that nothing refers to.
LEMMA GcUnlinkStep ==
  ASSUME IInv, GcUnlink
  PROVE  IInv'
<1> USE DEF IInv
<1>1. /\ gc \in Collector /\ gc.pc = "unlink"
      /\ UNCHANGED <<chunk, gen, lock, build, sweep, reader, crashes>>
  BY DEF TypeOK, GcUnlink
<1>2. lock = Gc /\ lock \notin Builders \cup Sweepers
  BY <1>1, StoreAssumption DEF LockInv
<1>3. /\ gc' \in Collector /\ gc'.pc = "unlink"
      /\ gc'.seen \subseteq gc.seen /\ gc'.heads \subseteq gc.heads
  BY <1>1 DEF GcUnlink, Collector
<1>4. /\ file' \in [Paths -> Age]
      /\ \A p \in Paths : chunk[p] # "none" => file'[p] = file[p]
  BY <1>1 DEF GcUnlink, GcInv, TypeOK, Age, Collector
<1>5. head' \subseteq head /\ \A h \in head : Committed(h) => h \in head'
  BY <1>1 DEF GcUnlink, GcInv
<1>6. TypeOK' /\ LockInv'
  BY <1>1, <1>2, <1>3, <1>4, <1>5 DEF TypeOK, LockInv
<1>7. RowInv' /\ GenInv'
  BY <1>1, <1>4, <1>5 DEF RowInv, GenInv, Linked, Committed, Exists
<1>8. BuildInv' /\ SweepInv' /\ ReaderInv'
  BY <1>1, <1>2, BuildWithoutLock, SweepKept, ReaderKept DEF BuildInv, SweepInv, ReaderInv
<1>9. GcInv'
  BY <1>1, <1>3 DEF GcInv, Committed
<1> QED
  BY <1>6, <1>7, <1>8, <1>9

------------------------------------------------------------------------------
(* Downloads, time, and the death of the process *)

\* A download chooses, pins, sends and ends.
LEMMA DownloadStep ==
  ASSUME IInv, NEW r \in Readers, ReaderStep(r)
  PROVE  IInv'
<1> USE DEF IInv
<1>1. UNCHANGED <<file, head, chunk, gen, lock, build, sweep, gc, crashes>>
  BY DEF ReaderStep, Choose, Pin, Send, Release
<1>2. reader[r] \in Reader /\ ReaderOK(r)
  BY DEF TypeOK, ReaderInv
<1>3. \A t \in Readers \ {r} : reader'[t] = reader[t]
  BY DEF TypeOK, ReaderStep, Choose, Pin, Send, Release
<1>4. reader' \in [Readers -> Reader] /\ ReaderOK(r)'
  <2>1. CASE \E g \in Gens : Choose(r, g)
    <3>1. PICK g \in Gens : Choose(r, g)
      BY <2>1
    <3>2. gen[g].links \subseteq Paths /\ gen[g].state = "active" /\ ~gen[g].old
      BY <3>1 DEF Choose, Active, TypeOK, Gen, GenInv
    <3>3. /\ reader' \in [Readers -> Reader]
          /\ reader'[r] = [pc |-> "chosen", gen |-> g, files |-> gen[g].links]
      BY <3>1, <3>2 DEF Choose, TypeOK, Reader
    <3> QED
      BY <1>1, <3>2, <3>3 DEF ReaderOK, Committed
  <2>2. CASE Pin(r)
    <3>1. /\ reader' \in [Readers -> Reader] /\ reader[r].pc = "chosen"
          /\ reader'[r].pc = "pinned" /\ reader'[r].gen = reader[r].gen
          /\ reader'[r].files = reader[r].files
      BY <1>2, <2>2 DEF Pin, TypeOK, Reader
    <3> QED
      BY <1>1, <1>2, <3>1 DEF ReaderOK, Committed
  <2>3. CASE \E p \in Paths : Send(r, p)
    <3>1. /\ reader' \in [Readers -> Reader] /\ reader[r].pc = "pinned"
          /\ reader'[r].pc = "pinned" /\ reader'[r].gen = reader[r].gen
          /\ reader'[r].files \subseteq reader[r].files
      BY <1>2, <2>3 DEF Send, TypeOK, Reader
    <3> QED
      BY <1>1, <1>2, <3>1 DEF ReaderOK, Committed
  <2>4. CASE Release(r)
    BY <1>2, <2>4 DEF Release, NoReader, TypeOK, Reader, ReaderOK
  <2> QED
    BY <2>1, <2>2, <2>3, <2>4 DEF ReaderStep
<1>5. TypeOK' /\ LockInv'
  BY <1>1, <1>4 DEF TypeOK, LockInv
<1>6. ReaderInv'
  BY <1>1, <1>3, <1>4, ReaderKept DEF ReaderInv
<1>7. RowInv' /\ GenInv' /\ BuildInv' /\ SweepInv' /\ GcInv'
  BY <1>1, StoreKept, BuildKept, SweepKept, GcKept DEF BuildInv, SweepInv
<1> QED
  BY <1>5, <1>6, <1>7

\* Files and rows grow old.
LEMMA AgeStep ==
  ASSUME IInv, NEW p \in Paths, AgeFile(p) \/ AgeChunk(p)
  PROVE  IInv'
<1> USE DEF IInv
<1>1. UNCHANGED <<head, gen, lock, build, sweep, gc, reader, crashes>>
  BY DEF AgeFile, AgeChunk
<1>2. file' \in [Paths -> Age] /\ chunk' \in [Paths -> Age]
  BY DEF AgeFile, AgeChunk, TypeOK, Age
<1>3. \A q \in Paths : /\ file'[q] = "none" <=> file[q] = "none"
                       /\ chunk'[q] = "none" <=> chunk[q] = "none"
                       /\ chunk'[q] = "young" => chunk[q] = "young"
  BY DEF AgeFile, AgeChunk, TypeOK
<1>4. TypeOK' /\ LockInv'
  BY <1>1, <1>2 DEF TypeOK, LockInv
<1>5. RowInv'
  BY <1>1, <1>3 DEF RowInv, Linked, Committed, Exists
<1>6. GenInv'
  <2>1. \A g \in Gens : gen[g].links \subseteq Paths
    BY DEF TypeOK, Gen
  <2> QED
    BY <1>1, <1>3, <2>1 DEF GenInv, Committed
<1>7. BuildInv'
  <2> SUFFICES ASSUME NEW b \in Builders
               PROVE  BuildOK(b)'
    BY DEF BuildInv
  <2>1. build[b] \in Build /\ BuildOK(b)
    BY DEF TypeOK, BuildInv
  <2>2. build[b].made \subseteq Paths /\ build[b].new \subseteq Paths
    BY <2>1 DEF Build
  <2>3. ParentLinks' = ParentLinks
    BY <1>1 DEF ParentLinks, Active
  <2> QED
    BY <1>1, <1>3, <2>1, <2>2, <2>3 DEF BuildOK, Exists
<1>8. SweepInv'
  <2>1. \A s \in Sweepers : sweep[s].doomed \subseteq Paths
    BY DEF TypeOK, Sweep
  <2> QED
    BY <1>1, <1>3, <2>1 DEF SweepInv, SweepOK
<1>9. GcInv' /\ ReaderInv'
  BY <1>1, <1>3, ReaderKept DEF GcInv, Committed, TypeOK, Collector, ReaderInv
<1> QED
  BY <1>4, <1>5, <1>6, <1>7, <1>8, <1>9

\* A superseded generation passes its retention time.
LEMMA AgeGenStep ==
  ASSUME IInv, NEW g \in Gens, AgeGen(g)
  PROVE  IInv'
<1> USE DEF IInv
<1>1. /\ gen[g].state = "superseded"
      /\ \A p \in gen[g].links : chunk[p] # "young"
      /\ \A r \in Readers : reader[r].gen = g => reader[r].pc = "pinned"
      /\ UNCHANGED <<file, head, chunk, lock, build, sweep, gc, reader, crashes>>
  BY DEF AgeGen
<1>2. /\ gen' \in [Gens -> Gen]
      /\ \A h \in Gens : gen'[h].state = gen[h].state /\ gen'[h].links = gen[h].links
      /\ \A h \in Gens \ {g} : gen'[h] = gen[h]
      /\ gen'[g].old = TRUE
  BY DEF AgeGen, TypeOK, Gen
<1>3. \A h \in Gens : Committed(h)' <=> Committed(h)
  BY <1>2 DEF Committed
<1>4. TypeOK' /\ LockInv'
  BY <1>1, <1>2 DEF TypeOK, LockInv
<1>5. RowInv'
  BY <1>1, <1>2, <1>3 DEF RowInv, Linked, Exists
<1>6. GenInv'
  BY <1>1, <1>2, <1>3 DEF GenInv
<1>7. BuildInv'
  <2>1. ParentLinks' = ParentLinks
    BY <1>2 DEF ParentLinks, Active
  <2> QED
    BY <1>1, <1>2, <2>1 DEF BuildInv, BuildOK, Exists
<1>8. SweepInv'
  <2>1. \A s \in Sweepers : sweep[s].todo \subseteq Gens
    BY DEF TypeOK, Sweep
  <2>2. \A h \in Gens : gen[h].old => gen'[h].old
    BY <1>2
  <2> QED
    BY <1>1, <1>2, <2>1, <2>2 DEF SweepInv, SweepOK
<1>9. GcInv'
  BY <1>1, <1>3 DEF GcInv, TypeOK, Collector
<1>10. ReaderInv'
  BY <1>1, <1>2, <1>3 DEF ReaderInv, ReaderOK
<1> QED
  BY <1>4, <1>5, <1>6, <1>7, <1>8, <1>9, <1>10

\* The process dies: what is on disk and committed stays.
LEMMA CrashStep ==
  ASSUME IInv, Crash
  PROVE  IInv'
<1> USE DEF IInv
<1>1. /\ UNCHANGED <<file, head, chunk>> /\ lock' = None /\ gc' = NoGc
      /\ build' = [b \in Builders |-> NoBuild] /\ sweep' = [s \in Sweepers |-> NoSweep]
      /\ reader' = [r \in Readers |-> NoReader]
      /\ crashes' \in 0 .. MaxCrashes
  BY StoreAssumption DEF Crash, TypeOK
<1>2. /\ gen' \in [Gens -> Gen]
      /\ \A g \in Gens :
           /\ gen'[g].links = gen[g].links
           /\ gen'[g].old <=> gen[g].old
           /\ Committed(g)' <=> Committed(g)
           /\ gen[g].state = "superseded" => gen'[g].state = "superseded"
  BY DEF Crash, TypeOK, Gen, GenState, Committed
<1>3. TypeOK'
  BY <1>1, <1>2 DEF TypeOK, Build, NoBuild, Sweep, NoSweep, Collector, NoGc, Reader, NoReader
<1>4. LockInv' /\ BuildInv' /\ SweepInv' /\ GcInv' /\ ReaderInv'
  BY <1>1 DEF LockInv, BuildInv, BuildOK, SweepInv, SweepOK, GcInv, ReaderInv, ReaderOK,
     NoBuild, NoSweep, NoGc, NoReader
<1>5. RowInv'
  BY <1>1, <1>2 DEF RowInv, Linked, Exists
<1>6. GenInv'
  BY <1>1, <1>2 DEF GenInv
<1> QED
  BY <1>3, <1>4, <1>5, <1>6

------------------------------------------------------------------------------
(* The theorems *)

\* Every step of builders, sweeps, the GC, downloads, time and crashes keeps
\* the invariant.
LEMMA NextIInv ==
  ASSUME IInv, [Next]_vars
  PROVE  IInv'
<1>1. CASE \E b \in Builders, g \in Gens, affected \in SUBSET Keys, new \in SUBSET Paths :
             Start(b, g, affected, new)
  BY <1>1, StartStep
<1>2. ASSUME NEW b \in Builders, BuildStep(b) \/ BuildFault(b)
      PROVE  IInv'
  <2>1. CASE CommitError(b)
    BY <2>1, GiveUp DEF CommitError
  <2> QED
    BY <1>2, <2>1, ChunkStep, RowsStep, UndoStep, CommitStep, UnlockStep
       DEF BuildStep, BuildFault
<1>3. ASSUME NEW s \in Sweepers, SweepStep(s) \/ PurgeStep(s) \/ SweepError(s)
      PROVE  IInv'
  BY <1>3, SweepPassesOver, PurgeStepInv, SweepDeleteStep, SweepUnlinkStep
     DEF SweepStep, PurgeStep
<1>4. CASE GcStep
  BY <1>4, GcLooks, GcUnlinkStep DEF GcStep
<1>5. CASE UNCHANGED vars
  <2>1. UNCHANGED <<file, head, chunk, gen, lock, build, sweep, gc, reader, crashes>>
    BY <1>5 DEF vars
  <2>2. TypeOK' /\ LockInv'
    BY <2>1 DEF IInv, TypeOK, LockInv
  <2> QED
    BY <2>1, <2>2, StoreKept, BuildKept, SweepKept, GcKept, ReaderKept
       DEF IInv, BuildInv, SweepInv, ReaderInv
<1> QED
  BY <1>1, <1>2, <1>3, <1>4, <1>5, DownloadStep, AgeStep, AgeGenStep, CrashStep DEF Next

\* The invariant holds whenever no chunk row lost its manifest to an older
\* schema.
LEMMA Invariance ==
  ASSUME Legacy = {}
  PROVE  Spec => []IInv
<1>1. Init => IInv
  BY InitIInv
<1>2. IInv /\ [Next]_vars => IInv'
  BY NextIInv
<1> QED
  BY <1>1, <1>2, PTL DEF Spec

\* The store of chunk files, rows, generations, builders, sweeps, GC and
\* downloads stays well formed.
THEOREM StoreTypeCorrect ==
  ASSUME Legacy = {}
  PROVE  Spec => []TypeOK
<1>1. IInv => TypeOK
  BY DEF IInv
<1> QED
  BY <1>1, Invariance, PTL

\* publishedFeedChunkGeneration.js and orphanGc.js: a linked chunk has its row
\* and a row its file, for every number of generations, builders and sweeps.
THEOREM RowsHaveFiles ==
  ASSUME Legacy = {}
  PROVE  Spec => []RowHasFile
<1>1. IInv => RowHasFile
  BY DEF IInv, RowInv, RowHasFile
<1> QED
  BY <1>1, Invariance, PTL

\* Every chunk file and recency head of a committed generation is on disk,
\* whatever failing builds, retention, purge, GC and crashes do.
THEOREM ManifestsComplete ==
  ASSUME Legacy = {}
  PROVE  Spec => []ManifestFilesExist
<1>1. IInv => ManifestFilesExist
  <2> SUFFICES ASSUME IInv, NEW g \in Gens, Committed(g)
               PROVE  g \in head /\ \A p \in gen[g].links : Exists(p)
    BY DEF ManifestFilesExist
  <2>1. gen[g].links \subseteq Paths
    BY DEF IInv, TypeOK, Gen
  <2> QED
    BY <2>1 DEF IInv, GenInv, RowInv, Linked
<1> QED
  BY <1>1, Invariance, PTL

\* What a pinned download still has to send is on disk, however many sweeps and
\* generations come and go while it lasts.
THEOREM DownloadsComplete ==
  ASSUME Legacy = {}
  PROVE  Spec => []DownloadFilesExist
<1>1. IInv => DownloadFilesExist
  <2> SUFFICES ASSUME IInv, NEW r \in Readers, reader[r].pc = "pinned"
               PROVE  reader[r].gen \in head /\ \A p \in reader[r].files : Exists(p)
    BY DEF DownloadFilesExist
  <2>1. /\ reader[r].gen \in Gens /\ Committed(reader[r].gen)
        /\ \A p \in reader[r].files : p \in Paths /\ p \in gen[reader[r].gen].links
    BY DEF IInv, ReaderInv, ReaderOK, TypeOK, Reader
  <2> QED
    BY <2>1 DEF IInv, GenInv, RowInv, Linked
<1> QED
  BY <1>1, Invariance, PTL

==============================================================================
