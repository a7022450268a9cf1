------------------------- MODULE MCFeedGenerations -------------------------
(***************************************************************************)
(* Small instances of the store for TLC.  A behaviour exercises one part:  *)
(*   "collect"  the orphan GC beside builds and retention, no downloads;   *)
(*   "serve"    downloads beside builds and retention, no GC.              *)
(***************************************************************************)
EXTENDS FeedGenerations, TLC

CONSTANTS Parts, a1, a2, b1, ka, kb

VARIABLE part

storeVars == <<vars, part>>

\* Bucket a has two contents over time, bucket b has one.
TwoBuckets == (a1 :> ka) @@ (a2 :> ka) @@ (b1 :> kb)
OneBucket == (a1 :> ka) @@ (a2 :> ka)

MCInit == Init /\ part \in Parts

MCNext ==
  /\ Next /\ UNCHANGED part
  /\ part = "collect" => UNCHANGED reader
  /\ part = "serve" => UNCHANGED gc

MCFairSpec ==
  /\ MCInit /\ [][MCNext]_storeVars
  /\ Fairness
  /\ WF_vars(part = "collect" /\ GcStep)

\* orphanGc.js 1-4: a file that no row refers to, left by a failed or killed
\* generation, is reclaimed or referred to again.
OrphanReclaimed ==
  \A p \in Paths :
    part = "collect" /\ Exists(p) /\ chunk[p] = "none"
      ~> ~Exists(p) \/ chunk[p] # "none"

=============================================================================
