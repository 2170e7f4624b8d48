----------------------------- MODULE ForYouFeed -----------------------------
(***************************************************************************)
(* What a user does on the explore page and what the for-you feed makes of *)
(* it (src/src/modules/explore/explore.service.ts, processExploreEvents    *)
(* and buildForYouResponse; src/src/modules/follows/follows.service.ts).   *)
(* One user; batches of events and follows of the same user may run at the *)
(* same time, and the feed is read page by page while they do.  The        *)
(* response cache in front of the feed is FeedCache.                       *)
(***************************************************************************)
EXTENDS Integers, Sequences, FiniteSets, Functions

CONSTANTS
    Posts, Creators,
    Topics,       \* at most the ten profiles that the feed reads
    TopicOf,      \* [Posts -> Topics], the topic of the explore item
    AuthorOf,     \* [Posts -> Creators]
    CreatedAt,    \* [Posts -> Int], distinct
    Trending,     \* the items with isTrending
    ScoreTables,  \* what the scores of the items may be: [Posts -> Int]
    UserCalls,    \* requests of the user, one each
    Batches,      \* the event lists a batch may carry
    Limit,        \* page size
    TakeSize,     \* candidates per source
    Sources,      \* bound: the posts a follow may name as its source
    Removable,    \* bound: the posts that may disappear
    None

(* EVENT_WEIGHTS, in tenths.                                               *)
Weight(type) ==
    CASE type = "IMPRESSION" -> 2  [] type = "OPEN_POST" -> 10
      [] type = "WATCH_3S" -> 15   [] type = "WATCH_50" -> 25
      [] type = "LIKE" -> 30       [] type = "COMMENT" -> 40
      [] type = "HIDE" -> -80      [] type = "FOLLOW_CREATOR" -> 35

EventTypes == {"IMPRESSION", "OPEN_POST", "WATCH_3S", "WATCH_50",
               "LIKE", "COMMENT", "HIDE", "FOLLOW_CREATOR"}

ASSUME PostAssumption ==
    /\ IsFiniteSet(Posts) /\ Trending \subseteq Posts
    /\ TopicOf \in [Posts -> Topics] /\ AuthorOf \in [Posts -> Creators]
    /\ ScoreTables \subseteq [Posts -> Int] /\ CreatedAt \in [Posts -> Int]
    /\ \A p, q \in Posts : p # q => CreatedAt[p] # CreatedAt[q]
    /\ Limit \in Nat \ {0} /\ TakeSize \in Nat \ {0}

ASSUME UserAssumption ==
    /\ IsFiniteSet(UserCalls)
    /\ IsFiniteSet(Topics) /\ Cardinality(Topics) <= 10 /\ Topics \cap Posts = {}
    /\ Sources \subseteq Posts
    /\ \A list \in Batches : Range(list) \subseteq [post : Posts, type : EventTypes]
    /\ None \notin Int \cup Posts \cup Creators \cup UserCalls

VARIABLES
    posts,    \* posts[p]: "listed", "private" (no explore item) or "gone"
    score,    \* base scores, with what time and past interactions add
    profile,  \* UserTopicProfile.score, None without a row
    hidden,   \* HiddenPost
    follows,  \* Follow
    rowLock,  \* rowLock[r]: the transaction that wrote row r, or None
    call,     \* call[c]: where a batch or a follow is
    walk,     \* a reading of the feed, page after page
    given,    \* ghost: weights of the committed events, per topic
    signals   \* ghost: follow rows created, minus their signals committed

tables == <<posts, score, profile, hidden, follows, given, signals>>
forYouVars == <<tables, rowLock, call, walk>>

Listed == {p \in Posts : posts[p] = "listed"}
Rows == Topics \cup Posts
NoRows == [t \in Topics |-> None]

(* events: what the call records;  todo: rows still to be upserted;  row:   *)
(* the scores it has written and not committed;  creator: whom it followed. *)
Unused == [at |-> "new", events |-> {}, todo |-> {}, row |-> NoRows, creator |-> None]

(* before: what was hidden when the page was asked for;  shown: the pages   *)
(* of a reading so far, kept while nothing has disturbed it.                *)
NewWalk == [at |-> "rest", profiles |-> None, follows |-> None, hidden |-> None,
            before |-> {}, page |-> <<>>, shown |-> <<>>, cursor |-> None, calm |-> TRUE]

ForYouInit ==
    /\ posts = [p \in Posts |-> "listed"]
    /\ score \in ScoreTables
    /\ profile = NoRows /\ hidden = {} /\ follows = {}
    /\ rowLock = [r \in Rows |-> None]
    /\ call = [c \in UserCalls |-> Unused]
    /\ walk = NewWalk
    /\ given = [t \in Topics |-> 0] /\ signals = 0

Disturbed == [walk EXCEPT !.calm = FALSE, !.shown = <<>>]

(***************************************************************************)
(* processExploreEvents.                                                   *)
(***************************************************************************)

(* normalizeExploreEvents of a batch keeps the first of each post and type.  *)
(* What is left is a set: its order decides only in which order the rows of  *)
(* a table are upserted, and UpsertRow allows every one.                     *)
Normalized(list) == Range(list)

EventsOf(events, t) == {e \in events : TopicOf[e.post] = t}
TopicsIn(events) == {TopicOf[e.post] : e \in events}
HidesIn(events) == {e.post : e \in {x \in events : x.type = "HIDE"}}

TotalWeight(events, t) ==
    SumFunctionOnSet([e \in events |-> Weight(e.type)], EventsOf(events, t))

SendBatch(c) ==
    /\ call[c].at = "new"
    /\ \E list \in Batches :
         call' = [call EXCEPT ![c].at = "resolve", ![c].events = Normalized(list)]
    /\ UNCHANGED <<tables, rowLock, walk>>

(* resolvePostTopicMap: the events on posts without an item are skipped.   *)
Resolve(c) ==
    LET kept == {e \in call[c].events : e.post \in Listed} IN
    /\ call[c].at = "resolve"
    /\ call' = [call EXCEPT
         ![c].at = IF kept = {} THEN "done" ELSE "insert",
         ![c].events = kept,
         ![c].todo = TopicsIn(kept) \cup HidesIn(kept)]
    /\ UNCHANGED <<tables, rowLock, walk>>

(* The transaction begins: createMany has a foreign key to the posts.      *)
Insert(c) ==
    /\ call[c].at = "insert"
    /\ call' = [call EXCEPT ![c].at =
         IF \E e \in call[c].events : posts[e.post] = "gone" THEN "failed" ELSE "upsert"]
    /\ UNCHANGED <<tables, rowLock, walk>>

Points(t) == IF profile[t] = None THEN 0 ELSE profile[t]

(* Mutant: the score is read without a lock and written back.              *)
UpsertRowMutant(c, r) ==
    /\ call[c].at = "upsert" /\ r \in call[c].todo
    /\ r \in Posts => call[c].todo \cap Topics = {}
    /\ rowLock' = [rowLock EXCEPT ![r] = c]
    /\ call' = [call EXCEPT ![c].todo = @ \ {r},
         ![c].row = IF r \in Topics
                      THEN [@ EXCEPT ![r] = Points(r) + TotalWeight(call[c].events, r)] ELSE @]
    /\ UNCHANGED <<tables, walk>>

(* The upsert of one profile, then of one hidden post: it waits for a      *)
(* transaction that wrote the row, and its result is seen when the         *)
(* transaction ends.                                                       *)
UpsertRow(c, r) ==
    /\ call[c].at = "upsert" /\ r \in call[c].todo
    /\ r \in Posts => call[c].todo \cap Topics = {}
    /\ rowLock[r] \in {None, c}
    /\ rowLock' = [rowLock EXCEPT ![r] = c]
    /\ call' = [call EXCEPT ![c].todo = @ \ {r},
         ![c].row = IF r \in Topics
                      THEN [@ EXCEPT ![r] = Points(r) + TotalWeight(call[c].events, r)] ELSE @]
    /\ UNCHANGED <<tables, walk>>

Released(c) == [r \in Rows |-> IF rowLock[r] = c THEN None ELSE rowLock[r]]

Commit(c) ==
    LET events == call[c].events
        row == call[c].row IN
    /\ call[c].at = "upsert" /\ call[c].todo = {}
    /\ profile' = [t \in Topics |-> IF row[t] = None THEN profile[t] ELSE row[t]]
    /\ hidden' = hidden \cup {p \in HidesIn(events) : posts[p] # "gone"}
    /\ given' = [t \in Topics |-> given[t] + TotalWeight(events, t)]
    /\ signals' = IF call[c].creator = None THEN signals ELSE signals - 1
    /\ rowLock' = Released(c)
    /\ call' = [call EXCEPT ![c] = [Unused EXCEPT !.at = "done"]]
    /\ walk' = Disturbed
    /\ UNCHANGED <<posts, score, follows>>

(* The database ends a transaction that is in a deadlock, and Prisma one   *)
(* that is too slow; nothing is tried again.                               *)
Abort(c) ==
    /\ call[c].at = "upsert"
    /\ rowLock' = Released(c)
    /\ call' = [call EXCEPT ![c] = [Unused EXCEPT !.at = "failed"]]
    /\ UNCHANGED <<tables, walk>>

(***************************************************************************)
(* FollowsService.  The row has a unique key; the signal comes after it,   *)
(* in a transaction of its own.                                            *)
(***************************************************************************)
(* What is left to do once the row is there: a signal, if a source is named. *)
Followed(creator, source) ==
    [Unused EXCEPT !.creator = creator,
        !.at = IF source = None THEN "done" ELSE "source",
        !.events = IF source = None THEN {}
                   ELSE {[post |-> source, type |-> "FOLLOW_CREATOR"]}]

(* Mutant: the row is upserted, and the signal follows in any case.        *)
FollowMutant(c, creator) ==
    /\ call[c].at = "new"
    /\ follows' = follows \cup {creator}
    /\ \E source \in Sources \cup {None} :
         call' = [call EXCEPT ![c] = Followed(creator, source)]
    /\ signals' = IF creator \in follows THEN signals ELSE signals + 1
    /\ walk' = Disturbed
    /\ UNCHANGED <<posts, score, profile, hidden, rowLock, given>>

Follow(c, creator) ==
    /\ call[c].at = "new"
    /\ IF creator \in follows
         THEN /\ call' = [call EXCEPT ![c].at = "failed"]
              /\ UNCHANGED <<tables, walk>>
         ELSE /\ follows' = follows \cup {creator}
              /\ \E source \in Sources \cup {None} :
                   call' = [call EXCEPT ![c] = Followed(creator, source)]
              /\ signals' = signals + 1
              /\ walk' = Disturbed
              /\ UNCHANGED <<posts, score, profile, hidden, given>>
    /\ UNCHANGED rowLock

(* The signal needs a public source post of the creator who was followed.  *)
ReadSource(c) ==
    /\ call[c].at = "source"
    /\ \E e \in call[c].events :
         call' = [call EXCEPT ![c].at =
           IF posts[e.post] = "listed" /\ AuthorOf[e.post] = call[c].creator
             THEN "resolve" ELSE "done"]
    /\ UNCHANGED <<tables, rowLock, walk>>

Unfollow(c, creator) ==
    /\ call[c].at = "new"
    /\ call' = [call EXCEPT ![c].at = IF creator \in follows THEN "done" ELSE "failed"]
    /\ follows' = follows \ {creator}
    /\ walk' = Disturbed
    /\ UNCHANGED <<posts, score, profile, hidden, rowLock, given, signals>>

(***************************************************************************)
(* The author takes a post back; its rows go with it (ON DELETE CASCADE).  *)
(* The scores change with the cron, with time and with interactions.       *)
(***************************************************************************)
Unlist(p) ==
    /\ p \in Removable /\ posts[p] = "listed"
    /\ posts' = [posts EXCEPT ![p] = "private"]
    /\ walk' = Disturbed
    /\ UNCHANGED <<score, profile, hidden, follows, rowLock, call, given, signals>>

RemovePost(p) ==
    /\ p \in Removable /\ posts[p] # "gone" /\ rowLock[p] = None
    /\ posts' = [posts EXCEPT ![p] = "gone"]
    /\ hidden' = hidden \ {p}
    /\ walk' = Disturbed
    /\ UNCHANGED <<score, profile, follows, rowLock, call, given, signals>>

Rescore ==
    /\ score' \in ScoreTables \ {score}
    /\ walk' = Disturbed
    /\ UNCHANGED <<posts, profile, hidden, follows, rowLock, call, given, signals>>

(***************************************************************************)
(* buildForYouResponse.                                                    *)
(***************************************************************************)
Precedes(sc, p, q) ==
    \/ sc[p] > sc[q]
    \/ sc[p] = sc[q] /\ CreatedAt[p] > CreatedAt[q]

ByScore(sc) == [p \in Posts |-> [q \in Posts |-> Precedes(sc, p, q)]]
ByAge == [p \in Posts |-> [q \in Posts |-> CreatedAt[p] > CreatedAt[q]]]

(* S as a list in such an order. *)
Ordered(S, before) ==
    CHOOSE list \in [1..Cardinality(S) -> S] :
       \A i, j \in DOMAIN list : i < j => before[list[i]][list[j]]

RankedBy(S, sc) == Ordered(S, ByScore(sc))
Newest(S) == Ordered(S, ByAge)

Take(s) == {s[i] : i \in 1..(IF Len(s) < TakeSize THEN Len(s) ELSE TakeSize)}

(* Four sources, each without the hidden posts, merged.                    *)
Candidates(w) ==
    LET seen == Listed \ w.hidden
        liked == {p \in seen : w.profiles[TopicOf[p]] # None /\ w.profiles[TopicOf[p]] > 0}
    IN  Take(RankedBy(liked, score))
        \cup Take(Newest({p \in seen : AuthorOf[p] \in w.follows}))
        \cup Take(RankedBy(seen \cap Trending, score))
        \cup Take(Newest(seen))

(* In hundredths: the bonus of a topic is at most 10, a follow adds 3.5,   *)
(* an item loses 1.25 for each better one of the same creator.             *)
Personal(w) ==
    [p \in Posts |->
       LET liked == IF w.profiles[TopicOf[p]] = None THEN 0 ELSE 8 * w.profiles[TopicOf[p]]
       IN  score[p] + (IF liked > 1000 THEN 1000 ELSE liked)
           + (IF AuthorOf[p] \in w.follows THEN 350 ELSE 0)]

Diversified(S, sc) ==
    LET better(p) == {q \in S : AuthorOf[q] = AuthorOf[p] /\ Precedes(sc, q, p)}
    IN  RankedBy(S, [p \in Posts |-> sc[p] - 125 * Cardinality(better(p))])

(* Mutant: the fallback is taken when no topic has a positive score.       *)
IsFallbackMutant(w) ==
    /\ \A t \in Topics : w.profiles[t] = None \/ w.profiles[t] <= 0
    /\ w.follows = {}

IsFallback(w) == (\A t \in Topics : w.profiles[t] = None) /\ w.follows = {}

(* The whole feed a page is cut from.  The fallback is the trending feed   *)
(* of getExplore, which knows no hidden posts.                             *)
Feed(w) ==
    IF IsFallback(w) THEN RankedBy(Listed \cap Trending, score)
    ELSE Diversified(Candidates(w), Personal(w))

(* A page starts after the cursor.  For-you starts again at the top when   *)
(* the cursor is no longer in the feed; the fallback's query compares with *)
(* the cursor's row, and finds nothing when the row is gone.               *)
Start(w, feed) ==
    LET at == {i \in DOMAIN feed : feed[i] = w.cursor}
    IN  IF w.cursor = None THEN 1
        ELSE IF ~IsFallback(w)
          THEN IF at = {} THEN 1 ELSE 1 + (CHOOSE i \in at : TRUE)
        ELSE IF w.cursor \notin Listed THEN Len(feed) + 1
        ELSE 1 + Cardinality({i \in DOMAIN feed :
                    feed[i] = w.cursor \/ Precedes(score, feed[i], w.cursor)})

(* The request reads profiles, follows and hidden posts, in any order.     *)
AskPage ==
    /\ walk.at = "rest"
    /\ walk' = [walk EXCEPT !.at = "reading", !.before = hidden,
                            !.profiles = None, !.follows = None, !.hidden = None]
    /\ UNCHANGED <<tables, rowLock, call>>

ReadProfiles ==
    /\ walk.at = "reading" /\ walk.profiles = None
    /\ walk' = [walk EXCEPT !.profiles = profile]
    /\ UNCHANGED <<tables, rowLock, call>>

ReadFollows ==
    /\ walk.at = "reading" /\ walk.follows = None
    /\ walk' = [walk EXCEPT !.follows = follows]
    /\ UNCHANGED <<tables, rowLock, call>>

ReadHidden ==
    /\ walk.at = "reading" /\ walk.hidden = None
    /\ walk' = [walk EXCEPT !.hidden = hidden]
    /\ UNCHANGED <<tables, rowLock, call>>

(* Mutant: the last item of a full page is taken for the end.              *)
AnswerPageMutant ==
    /\ walk.at = "reading" /\ None \notin {walk.profiles, walk.follows, walk.hidden}
    /\ \E feed \in {Feed(walk)} :
         LET start == Start(walk, feed)
             hasNext == start + Limit < Len(feed)
             last == IF start + Limit <= Len(feed) THEN start + Limit - 1 ELSE Len(feed)
             page == SubSeq(feed, start, last)
         IN  walk' = [walk EXCEPT !.at = IF hasNext THEN "rest" ELSE "end",
                                  !.page = page,
                                  !.shown = IF walk.calm THEN @ \o page ELSE @,
                                  !.cursor = IF hasNext THEN page[Len(page)] ELSE None]
    /\ UNCHANGED <<tables, rowLock, call>>

AnswerPage ==
    /\ walk.at = "reading" /\ None \notin {walk.profiles, walk.follows, walk.hidden}
    /\ \E feed \in {Feed(walk)} :
         LET start == Start(walk, feed)
             hasNext == start + Limit <= Len(feed)
             last == IF start + Limit <= Len(feed) THEN start + Limit - 1 ELSE Len(feed)
             page == SubSeq(feed, start, last)
         IN  walk' = [walk EXCEPT !.at = IF hasNext THEN "rest" ELSE "end",
                                  !.page = page,
                                  !.shown = IF walk.calm THEN @ \o page ELSE @,
                                  !.cursor = IF hasNext THEN page[Len(page)] ELSE None]
    /\ UNCHANGED <<tables, rowLock, call>>

StartAgain ==
    /\ \/ walk.at = "end"
       \/ walk.at = "rest" /\ walk.cursor # None
    /\ walk' = NewWalk
    /\ UNCHANGED <<tables, rowLock, call>>

ForYouNext ==
    \/ \E c \in UserCalls :
         \/ SendBatch(c) \/ Resolve(c) \/ Insert(c) \/ \E r \in Rows : UpsertRow(c, r)
         \/ Commit(c) \/ Abort(c) \/ ReadSource(c)
    \/ \E c \in UserCalls, creator \in Creators : Follow(c, creator) \/ Unfollow(c, creator)
    \/ \E p \in Posts : Unlist(p) \/ RemovePost(p)
    \/ Rescore
    \/ AskPage \/ ReadProfiles \/ ReadFollows \/ ReadHidden \/ AnswerPage \/ StartAgain

ForYouSpec == ForYouInit /\ [][ForYouNext]_forYouVars

-----------------------------------------------------------------------------
(* The score of a topic is the sum of the weights of the events that were  *)
(* recorded: concurrent batches lose none, and one that fails leaves none. *)
ProfileIsSum ==
    \A t \in Topics : given[t] = Points(t)

(* No page shows a post that was hidden before the page was asked for, the *)
(* fallback's pages included, which ignore the hidden posts: a user who    *)
(* hid a post has a profile, and is never sent to the fallback.            *)
HiddenStaysHidden ==
    walk.at \in {"rest", "end"} => Range(walk.page) \cap walk.before = {}

(* Reading the feed to its end, while nothing changes, shows every item it *)
(* has exactly once.                                                       *)
PagesCover ==
    walk.at = "end" /\ walk.calm =>
      /\ Range(walk.shown) = Range(Feed(walk))
      /\ Len(walk.shown) = Cardinality(Range(walk.shown))

(* However many requests follow the same creator at the same time, a       *)
(* follow gives at most one signal.                                        *)
OneSignalPerFollow == signals >= 0
=============================================================================
