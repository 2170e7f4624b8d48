---------------------------- MODULE MCFeedCache ----------------------------
(* Instances of FeedCache for TLC: see FeedCache.cfg and README.md. *)
EXTENDS FeedCache, TLC

(* Fresh and stale times in the proportion of the code's defaults.         *)
ShortFresh == [k \in Keys |-> 1]
ShortStale == [k \in Keys |-> IF k = "public" THEN 3 ELSE 1]

Permuted == Permutations(PublicTasks) \cup Permutations(ForYouTasks)
=============================================================================
