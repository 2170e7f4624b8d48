---------------------------- MODULE MCForYouFeed ----------------------------
(* Instances of ForYouFeed for TLC: see ForYouFeed.cfg and README.md. *)
EXTENDS ForYouFeed, TLC

CONSTANTS p1, p2, p3, anime, city, ann, ben

(* Two posts of one creator in two topics, and one of another. *)
MCTopicOf == (p1 :> anime) @@ (p2 :> city) @@ (p3 :> anime)
MCAuthorOf == (p1 :> ann) @@ (p2 :> ann) @@ (p3 :> ben)
MCCreatedAt == (p1 :> 1) @@ (p2 :> 2) @@ (p3 :> 3)
MCScores == {(p1 :> 300) @@ (p2 :> 250) @@ (p3 :> 200),
             (p1 :> 300) @@ (p2 :> 700) @@ (p3 :> 350)}

Ev(p, t) == [post |-> p, type |-> t]

(* Batches that meet in two topics in opposite orders, with a duplicate    *)
(* and with hidden posts.                                                  *)
MCBatches == {<<Ev(p1, "LIKE"), Ev(p2, "IMPRESSION"), Ev(p2, "IMPRESSION")>>,
              <<Ev(p2, "HIDE"), Ev(p1, "HIDE")>>}
=============================================================================
