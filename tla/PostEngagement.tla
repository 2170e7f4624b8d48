---------------------------- MODULE PostEngagement ----------------------------
(***************************************************************************)
(* One post and what is derived from it: the like, comment and view        *)
(* counters of its row (PostsService, PostLikesService, CommentsService),  *)
(* the view buffer in Redis, and its ExploreItem, which                    *)
(* ExploreService.syncPost rebuilds after each of these calls and the cron *)
(* refreshExploreScores for all public posts.                              *)
(*                                                                         *)
(* A counter and its row change in one transaction that locks the post, so *)
(* that transaction is a step; syncPost reads and writes in steps of its   *)
(* own, outside it.  A comment is named after the call that writes it.     *)
(* The score of the item is represented by the counters it is computed     *)
(* from; its age terms are left out.                                       *)
(***************************************************************************)
EXTENDS Integers, FiniteSets

CONSTANTS
    Users,       \* who may like the post
    Calls,       \* API calls
    Ops,         \* which of AllOps the calls may be
    Viewers,     \* identifiers of trackView
    Topics,      \* topics that a caption or a request may name
    Liked,       \* users who like a post that is there at the start
    Commented,   \* names of its comments
    MaxWork,     \* bound on the calls started and the views accepted
    Cron,        \* the cron job refreshExploreScores
    None         \* no item, no topic hint

AllOps == {"create", "update", "remove", "like", "unlike", "comment", "uncomment",
           "event", "cron", "crash"}
General == "general"

ASSUME NamesAssumption ==
    Cron \notin Calls /\ None \notin Calls \cup Users \cup Topics \cup {General}
ASSUME OpsAssumption == Ops \subseteq AllOps /\ General \notin Topics
ASSUME WorkAssumption == MaxWork \in Nat
ASSUME StartAssumption ==
    /\ Liked \subseteq Users /\ Commented \cap Calls = {}
    /\ IsFiniteSet(Liked) /\ IsFiniteSet(Commented)

VARIABLES
    post,       \* "none", "public", "private" or "deleted"
    caption,    \* the topic that extractTopic finds in the caption
    likes,      \* subset of Users: rows of PostLike
    comments,   \* subset of Calls \cup Commented: rows of Comment
    counts,     \* likeCount, commentCount and viewCount of the post
    item,       \* the ExploreItem: counters of its score and topic, or None
    pc, arg, hint, snap,   \* of each call and of the cron
    given,      \* history: the topic of the last create or update that named one
    locked,     \* subset of Viewers: lock:<post>:<viewer> is set
    counting,   \* subset of Viewers: trackView calls between SET and HINCRBY
    buffer,     \* post:views:buffer
    flush,      \* syncViewsToDb: its stage and the count it holds
    accepted, lost   \* history: views accepted, views dropped

postVars == <<post, caption, likes, comments, counts>>
viewVars == <<locked, counting, buffer, flush, accepted, lost>>
callVars == <<pc, arg, hint, snap>>
vars == <<postVars, item, callVars, given, viewVars>>

Exists == post \in {"public", "private"}
Procs == Calls \cup {Cron}

Init ==
    /\ caption = General
    /\ \/ post = "none" /\ likes = {} /\ comments = {}
       \/ post = "public" /\ likes = Liked /\ comments = Commented
    /\ counts = [likes |-> Cardinality(likes), comments |-> Cardinality(comments), views |-> 0]
    /\ item = None /\ given = None
    /\ pc = [c \in Procs |-> "new"]
    /\ arg = [c \in Calls |-> None]
    /\ hint = [c \in Procs |-> None]
    /\ snap = [c \in Procs |-> None]
    /\ locked = {} /\ counting = {} /\ buffer = 0
    /\ flush = [stage |-> "idle", held |-> 0]
    /\ accepted = 0 /\ lost = 0

Goto(c, from, to) == pc[c] = from /\ pc' = [pc EXCEPT ![c] = to]
Is(op) == op \in Ops
Work == Cardinality({c \in Calls : pc[c] # "new"}) + accepted

----------------------------------------------------------------------------
(* The calls, up to their syncPost.                                         *)

CreatePost(c) ==
    /\ Is("create") /\ post = "none"
    /\ Goto(c, "new", "sync")
    /\ post' \in {"public", "private"} /\ caption' \in Topics \cup {General}
    /\ \E t \in Topics \cup {None} :
          hint' = [hint EXCEPT ![c] = t] /\ given' = t
    /\ UNCHANGED <<likes, comments, counts, item, arg, snap, viewVars>>

(* An update may set isPublic, the caption, the topic, or some of them. *)
UpdatePost(c) ==
    /\ Is("update") /\ Exists
    /\ Goto(c, "new", "sync")
    /\ post' \in {"public", "private"} /\ caption' \in Topics \cup {General}
    /\ \E t \in Topics \cup {None} :
          /\ hint' = [hint EXCEPT ![c] = t]
          /\ given' = IF t = None THEN given ELSE t
    /\ UNCHANGED <<likes, comments, counts, item, arg, snap, viewVars>>

(* The post goes, and its likes, comments and item with it. *)
RemovePost(c) ==
    /\ Is("remove") /\ Exists
    /\ Goto(c, "new", "done")
    /\ post' = "deleted"
    /\ likes' = {} /\ comments' = {}
    /\ counts' = [likes |-> 0, comments |-> 0, views |-> 0]
    /\ item' = None
    /\ UNCHANGED <<caption, arg, hint, snap, given, viewVars>>

(* The like's row is unique: a second one aborts the transaction. *)
Like(c) ==
    /\ Is("like") /\ Exists
    /\ \E u \in Users \ likes : likes' = likes \cup {u}
    /\ counts' = [counts EXCEPT !.likes = @ + 1]
    /\ Goto(c, "new", "sync")
    /\ UNCHANGED <<post, caption, comments, item, arg, hint, snap, given, viewVars>>

(* removeWithTarget finds the like before its transaction. *)
FindLike(c) ==
    /\ Is("unlike")
    /\ Goto(c, "new", "unlike")
    /\ \E u \in likes : arg' = [arg EXCEPT ![c] = u]
    /\ UNCHANGED <<postVars, item, hint, snap, given, viewVars>>

(* Mutant: the like is removed with a deleteMany, which may find no row. *)
UnlikeMutant(c) ==
    /\ Exists
    /\ likes' = likes \ {arg[c]}
    /\ counts' = [counts EXCEPT !.likes = @ - 1]
    /\ Goto(c, "unlike", "sync")
    /\ UNCHANGED <<post, caption, comments, item, arg, hint, snap, given, viewVars>>

(* A like that is gone by now aborts the transaction. *)
Unlike(c) ==
    /\ IF arg[c] \in likes
       THEN /\ likes' = likes \ {arg[c]}
            /\ counts' = [counts EXCEPT !.likes = @ - 1]
            /\ Goto(c, "unlike", "sync")
       ELSE Goto(c, "unlike", "done") /\ UNCHANGED <<likes, counts>>
    /\ UNCHANGED <<post, caption, comments, item, arg, hint, snap, given, viewVars>>

Comment(c) ==
    /\ Is("comment") /\ Exists
    /\ Goto(c, "new", "sync")
    /\ comments' = comments \cup {c}
    /\ counts' = [counts EXCEPT !.comments = @ + 1]
    /\ UNCHANGED <<post, caption, likes, item, arg, hint, snap, given, viewVars>>

FindComment(c) ==
    /\ Is("uncomment")
    /\ Goto(c, "new", "uncomment")
    /\ \E d \in comments : arg' = [arg EXCEPT ![c] = d]
    /\ UNCHANGED <<postVars, item, hint, snap, given, viewVars>>

(* The counter goes down first, but a comment that is gone undoes it. *)
Uncomment(c) ==
    /\ IF arg[c] \in comments
       THEN /\ comments' = comments \ {arg[c]}
            /\ counts' = [counts EXCEPT !.comments = @ - 1]
            /\ Goto(c, "uncomment", "sync")
       ELSE Goto(c, "uncomment", "done") /\ UNCHANGED <<comments, counts>>
    /\ UNCHANGED <<post, caption, likes, item, arg, hint, snap, given, viewVars>>

(* recordEvent syncs a post that has no item yet, to learn its topic. *)
RecordEvent(c) ==
    /\ Is("event")
    /\ Goto(c, "new", IF item = None THEN "sync" ELSE "done")
    /\ UNCHANGED <<postVars, item, arg, hint, snap, given, viewVars>>

----------------------------------------------------------------------------
(* syncPost, for a call or for the cron.                                    *)

After(c) == IF c = Cron THEN "sweep" ELSE "done"
Forget(c) == hint' = [hint EXCEPT ![c] = None] /\ snap' = [snap EXCEPT ![c] = None]

(* The post is read; what follows uses the values of this read. *)
SyncReads(c) ==
    /\ pc[c] = "sync"
    /\ pc' = [pc EXCEPT ![c] = CASE post = "public" -> "topic"
                                 [] post = "private" -> "purge"
                                 [] OTHER -> After(c)]
    /\ snap' = [snap EXCEPT ![c] = IF post = "public"
                                      THEN [score |-> counts, caption |-> caption]
                                      ELSE None]
    /\ UNCHANGED <<postVars, item, arg, hint, given, viewVars>>

SyncPurges(c) ==
    /\ Goto(c, "purge", After(c))
    /\ item' = None
    /\ Forget(c)
    /\ UNCHANGED <<postVars, arg, given, viewVars>>

(* resolvePostTopic: the hint, else the caption's topic, else the old one. *)
ResolvedTopic(c) ==
    IF hint[c] # None THEN hint[c]
    ELSE IF snap[c].caption # General THEN snap[c].caption
    ELSE IF item # None THEN item.topic
    ELSE General

SyncReadsTopic(c) ==
    /\ Goto(c, "topic", "upsert")
    /\ hint' = [hint EXCEPT ![c] = ResolvedTopic(c)]
    /\ UNCHANGED <<postVars, item, arg, snap, given, viewVars>>

(* The upsert fails if the post is gone. *)
SyncUpserts(c) ==
    /\ Goto(c, "upsert", After(c))
    /\ item' = IF Exists THEN [score |-> snap[c].score, topic |-> hint[c]] ELSE item
    /\ Forget(c)
    /\ UNCHANGED <<postVars, arg, given, viewVars>>

(* The call's process dies, or a statement of its syncPost fails. *)
SyncFails(c) ==
    /\ Is("crash") /\ pc[c] \in {"sync", "purge", "topic", "upsert"}
    /\ pc' = [pc EXCEPT ![c] = "done"]
    /\ Forget(c)
    /\ UNCHANGED <<postVars, item, arg, given, viewVars>>

(* Mutant: posts that have an item are left out of the refresh. *)
CronStartsMutant ==
    /\ Goto(Cron, "new", "sync")
    /\ Is("cron") /\ post = "public" /\ item = None
    /\ UNCHANGED <<postVars, item, arg, hint, snap, given, viewVars>>

(* refreshExploreScores lists the public posts.  Without any it returns; if  *)
(* there are others than this one it goes on to sweep the private posts.     *)
CronStarts ==
    /\ Is("cron")
    /\ \/ post = "public" /\ Goto(Cron, "new", "sync")
       \/ post # "public" /\ Goto(Cron, "new", "sweep")
    /\ UNCHANGED <<postVars, item, arg, hint, snap, given, viewVars>>

CronSweeps ==
    /\ Goto(Cron, "sweep", "new")
    /\ item' = IF post = "private" THEN None ELSE item
    /\ UNCHANGED <<postVars, arg, hint, snap, given, viewVars>>

----------------------------------------------------------------------------
(* Views.                                                                   *)

(* trackView sets the viewer's lock; only who sets it counts.  It does not   *)
(* look at the post, which may be gone.                                      *)
TrackView(v) ==
    /\ v \notin locked /\ v \notin counting /\ Work < MaxWork /\ post # "none"
    /\ locked' = locked \cup {v} /\ counting' = counting \cup {v}
    /\ accepted' = accepted + 1
    /\ UNCHANGED <<postVars, item, callVars, given, buffer, flush, lost>>

CountView(v) ==
    /\ v \in counting
    /\ counting' = counting \ {v}
    /\ buffer' = buffer + 1
    /\ UNCHANGED <<postVars, item, callVars, given, locked, flush, accepted, lost>>

LockExpires(v) ==
    /\ v \in locked
    /\ locked' = locked \ {v}
    /\ UNCHANGED <<postVars, item, callVars, given, counting, buffer, flush, accepted, lost>>

(* Mutant: the buffer is copied, and deleted once the copy was read. *)
FlushRenamesMutant ==
    /\ flush.stage = "idle" /\ buffer > 0
    /\ flush' = [stage |-> "renamed", held |-> buffer]
    /\ UNCHANGED <<postVars, item, callVars, given, locked, counting, buffer, accepted, lost>>

FlushRenames ==
    /\ flush.stage = "idle" /\ buffer > 0
    /\ flush' = [stage |-> "renamed", held |-> buffer]
    /\ buffer' = 0
    /\ UNCHANGED <<postVars, item, callVars, given, locked, counting, accepted, lost>>

(* The renamed hash is read and deleted, then added to the post's row. *)
FlushAdds ==
    /\ flush.stage = "renamed"
    /\ flush' = [stage |-> "idle", held |-> 0]
    /\ IF Exists
       THEN counts' = [counts EXCEPT !.views = @ + flush.held] /\ UNCHANGED lost
       ELSE lost' = lost + flush.held /\ UNCHANGED counts
    /\ UNCHANGED <<post, caption, likes, comments, item, callVars, given,
                   locked, counting, buffer, accepted>>

(* The process dies or the UPDATE fails: nothing reads the renamed hash again. *)
FlushFails ==
    /\ flush.stage = "renamed"
    /\ flush' = [stage |-> "idle", held |-> 0]
    /\ lost' = lost + flush.held
    /\ UNCHANGED <<postVars, item, callVars, given, locked, counting, buffer, accepted>>

Sync(c) == SyncReads(c) \/ SyncPurges(c) \/ SyncReadsTopic(c) \/ SyncUpserts(c)

Begin(c) ==
    /\ Work < MaxWork
    /\ \/ CreatePost(c) \/ UpdatePost(c) \/ RemovePost(c) \/ Like(c) \/ FindLike(c)
       \/ Comment(c) \/ FindComment(c) \/ RecordEvent(c)

Next ==
    \/ \E c \in Calls : Begin(c) \/ Unlike(c) \/ Uncomment(c) \/ SyncFails(c)
    \/ \E c \in Procs : Sync(c)
    \/ CronStarts \/ CronSweeps
    \/ \E v \in Viewers : TrackView(v) \/ CountView(v) \/ LockExpires(v)
    \/ FlushRenames \/ FlushAdds \/ FlushFails

Spec == Init /\ [][Next]_vars

(* A call that began goes on and the two cron jobs run again and again.      *)
FairSpec ==
    /\ Spec
    /\ \A c \in Calls : WF_vars(Unlike(c)) /\ WF_vars(Uncomment(c))
    /\ \A c \in Procs : WF_vars(Sync(c))
    /\ WF_vars(CronStarts) /\ WF_vars(CronSweeps)
    /\ \A v \in Viewers : WF_vars(CountView(v))
    /\ WF_vars(FlushRenames) /\ WF_vars(FlushAdds)

----------------------------------------------------------------------------
(* Properties.                                                              *)

(* The counters are the numbers of rows, whoever removes what at once. *)
CountersMatchRows ==
    counts.likes = Cardinality(likes) /\ counts.comments = Cardinality(comments)

(* Every accepted view is in one place: about to be counted, in the buffer,  *)
(* in the flush, in the row, or lost with a flush that failed.               *)
ViewsAccounted ==
    Exists => Cardinality(counting) + buffer + flush.held + counts.views + lost = accepted

(* Once the activity is over, the item of a public post stays up to date:    *)
(* whatever stale syncs wrote, the cron puts it right.                       *)
ItemCatchesUp == <>[](post = "public" => item # None /\ item.score = counts)

AtRest == \A c \in Calls : pc[c] \in {"new", "done"}

(* A private post has no ExploreItem, once the calls have answered. *)
PrivateLeavesExplore == AtRest /\ post = "private" => item = None

(* The topic that the author gave is the topic of the item. *)
GivenTopicKept == AtRest /\ item # None /\ given # None => item.topic = given
=============================================================================
