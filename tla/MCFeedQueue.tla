----------------------------- MODULE MCFeedQueue -----------------------------
(* Instances of FeedQueue for TLC. *)
EXTENDS FeedQueue, TLC

CONSTANTS j1, j2, s1, s2, p1, p2, f1, f2

\* Both jobs synchronise the same feed, a single job, or one feed each.
SameFeed == j1 :> f1 @@ j2 :> f1
OneFeed  == j1 :> f1
OwnFeeds == j1 :> f1 @@ j2 :> f2

\* Two slots in one worker process, or a process for each.
OneWorker  == s1 :> p1 @@ s2 :> p1
TwoWorkers == s1 :> p1 @@ s2 :> p2

==============================================================================
