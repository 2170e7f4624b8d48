------------------------- MODULE PostEngagementProofs -------------------------
(***************************************************************************)
(* Theorems about PostEngagement: any number of calls, users and viewers,  *)
(* with or without crashes.  The bound MaxWork plays no part.              *)
(***************************************************************************)
EXTENDS PostEngagement, FiniteSetTheorems, TLAPS

PostStates == {"none", "public", "private", "deleted"}
Begun == {"sync", "unlike", "uncomment", "purge", "topic", "upsert", "sweep", "done"}
Counters == [likes : Int, comments : Int, views : Nat]

(* A comment is there only if its call has begun: no call comments twice.    *)
CommentsWereBegun == \A c \in Calls : c \in comments => pc[c] # "new"

RowsInv ==
    /\ post \in PostStates /\ counts \in Counters
    /\ IsFiniteSet(likes) /\ IsFiniteSet(comments)
    /\ pc = [c \in Procs |-> pc[c]]
    /\ CommentsWereBegun
    /\ CountersMatchRows

(* What was accepted adds up until the post is deleted, its counters with    *)
(* it; and between two flushes nothing is held.                              *)
ViewsInv ==
    /\ post \in PostStates /\ counts.views \in Nat
    /\ IsFiniteSet(counting) /\ Cardinality(counting) \in Nat
    /\ buffer \in Nat /\ lost \in Nat /\ accepted \in Nat
    /\ flush \in [stage : {"idle", "renamed"}, held : Nat]
    /\ flush.stage = "idle" => flush.held = 0
    /\ post # "deleted" =>
         Cardinality(counting) + buffer + flush.held + counts.views + lost = accepted

-----------------------------------------------------------------------------
(* The rows.                                                                 *)

(* The steps that write neither the likes nor the comments.                  *)
RowsAreLeft ==
    /\ UNCHANGED <<likes, comments>>
    /\ post' \in PostStates
    /\ counts' \in Counters /\ counts'.likes = counts.likes
    /\ counts'.comments = counts.comments
    /\ \/ UNCHANGED pc
       \/ \E c \in Calls, s \in Begun : pc' = [pc EXCEPT ![c] = s]
       \/ \E s \in Begun \cup {"new"} : pc' = [pc EXCEPT ![Cron] = s]

LEMMA RowsFrame == ASSUME RowsInv, RowsAreLeft PROVE RowsInv'
<1>1. CommentsWereBegun'
  BY NamesAssumption DEF RowsInv, RowsAreLeft, CommentsWereBegun, Procs, Begun
<1>2. pc' = [c \in Procs |-> pc'[c]]
  BY DEF RowsInv, RowsAreLeft
<1>3. CountersMatchRows'
  BY DEF RowsInv, RowsAreLeft, CountersMatchRows
<1> QED BY <1>1, <1>2, <1>3 DEF RowsInv, RowsAreLeft

LEMMA SyncLeavesRows ==
    ASSUME RowsInv, NEW c \in Procs, Sync(c) PROVE RowsAreLeft
<1>1. UNCHANGED postVars
  BY DEF Sync, SyncReads, SyncPurges, SyncReadsTopic, SyncUpserts
<1>2. \E s \in Begun : pc' = [pc EXCEPT ![c] = s]
  BY DEF Sync, SyncReads, SyncPurges, SyncReadsTopic, SyncUpserts, Goto, After, Begun
<1>3. c \in Calls \/ c = Cron
  BY DEF Procs
<1> QED BY <1>1, <1>2, <1>3 DEF RowsInv, RowsAreLeft, postVars

LEMMA OthersLeaveRows ==
    ASSUME RowsInv,
           \/ \E c \in Calls : \/ CreatePost(c) \/ UpdatePost(c) \/ FindLike(c)
                               \/ FindComment(c) \/ RecordEvent(c) \/ SyncFails(c)
           \/ CronStarts \/ CronSweeps
           \/ \E v \in Viewers : TrackView(v) \/ CountView(v) \/ LockExpires(v)
           \/ FlushRenames \/ FlushFails
           \/ UNCHANGED vars
    PROVE  RowsAreLeft
<1>1. UNCHANGED <<likes, comments, counts>> /\ post' \in PostStates
  BY DEF CreatePost, UpdatePost, FindLike, FindComment, RecordEvent, SyncFails, CronStarts,
         CronSweeps, TrackView, CountView, LockExpires, FlushRenames, FlushFails, vars,
         postVars, RowsInv, PostStates
<1>2. \/ UNCHANGED pc
      \/ \E c \in Calls, s \in Begun : pc' = [pc EXCEPT ![c] = s]
      \/ \E s \in Begun \cup {"new"} : pc' = [pc EXCEPT ![Cron] = s]
  BY DEF CreatePost, UpdatePost, FindLike, FindComment, RecordEvent, SyncFails, CronStarts,
         CronSweeps, TrackView, CountView, LockExpires, FlushRenames, FlushFails, vars,
         callVars, Goto, Begun
<1> QED BY <1>1, <1>2 DEF RowsInv, RowsAreLeft

LEMMA FlushLeavesRows == ASSUME RowsInv, ViewsInv, FlushAdds PROVE RowsAreLeft
<1>1. UNCHANGED <<post, likes, comments, pc>>
  BY DEF FlushAdds, callVars
<1>2. counts' = counts \/ counts' = [counts EXCEPT !.views = @ + flush.held]
  BY DEF FlushAdds
<1> QED BY <1>1, <1>2 DEF RowsInv, RowsAreLeft, ViewsInv, Counters

(* The steps that add a row or remove one, with its counter.                 *)
LEMMA RowsChange ==
    ASSUME RowsInv, NEW c \in Calls,
           \/ RemovePost(c) \/ Like(c) \/ Unlike(c) \/ Comment(c) \/ Uncomment(c)
    PROVE  RowsInv'
<1>0. /\ IsFiniteSet(likes) /\ Cardinality(likes) \in Nat /\ counts.likes = Cardinality(likes)
      /\ IsFiniteSet(comments) /\ Cardinality(comments) \in Nat
      /\ counts.comments = Cardinality(comments)
      /\ counts \in Counters /\ counts.likes \in Int /\ counts.comments \in Int
      /\ post \in PostStates /\ pc = [d \in Procs |-> pc[d]] /\ CommentsWereBegun
      /\ c \in Procs
  BY FS_CardinalityType DEF RowsInv, CountersMatchRows, Procs, Counters
<1>1. ASSUME NEW s \in {"sync", "done"}, pc' = [pc EXCEPT ![c] = s],
             \A d \in comments' \cap Calls : d \in comments \/ d = c
      PROVE  pc' = [d \in Procs |-> pc'[d]] /\ CommentsWereBegun'
  <2>1. pc'[c] = s /\ \A d \in Calls : d # c => pc'[d] = pc[d]
    BY <1>0, <1>1 DEF Procs
  <2>2. pc' = [d \in Procs |-> pc'[d]]
    BY <1>0, <1>1
  <2> QED BY <1>0, <1>1, <2>1, <2>2 DEF CommentsWereBegun
<1>2. CASE RemovePost(c)
  <2>1. /\ likes' = {} /\ comments' = {} /\ post' = "deleted"
        /\ counts' = [likes |-> 0, comments |-> 0, views |-> 0]
        /\ pc' = [pc EXCEPT ![c] = "done"]
    BY <1>2 DEF RemovePost, Goto
  <2> QED
    BY <1>1, <2>1, FS_EmptySet DEF RowsInv, CountersMatchRows, Counters, PostStates
<1>3. CASE Like(c)
  <2> PICK u \in Users \ likes : likes' = likes \cup {u}
    BY <1>3 DEF Like
  <2>1. IsFiniteSet(likes') /\ Cardinality(likes') = Cardinality(likes) + 1
    BY <1>0, FS_AddElement
  <2>2. /\ counts' = [counts EXCEPT !.likes = @ + 1] /\ UNCHANGED <<post, comments>>
        /\ pc' = [pc EXCEPT ![c] = "sync"]
    BY <1>3 DEF Like, Goto
  <2>9. /\ counts' \in Counters /\ counts'.likes = counts.likes + 1
        /\ counts'.comments = counts.comments
    BY <1>0, <2>2 DEF Counters
  <2> QED BY <1>0, <1>1, <2>1, <2>2, <2>9 DEF RowsInv, CountersMatchRows
<1>4. CASE Unlike(c)
  <2>1. CASE arg[c] \in likes
    <3>1. /\ likes' = likes \ {arg[c]} /\ counts' = [counts EXCEPT !.likes = @ - 1]
          /\ UNCHANGED <<post, comments>> /\ pc' = [pc EXCEPT ![c] = "sync"]
      BY <1>4, <2>1 DEF Unlike, Goto
    <3>2. IsFiniteSet(likes') /\ Cardinality(likes') = Cardinality(likes) - 1
      BY <1>0, <2>1, <3>1, FS_RemoveElement
    <3>9. /\ counts' \in Counters /\ counts'.likes = counts.likes - 1
          /\ counts'.comments = counts.comments
      BY <1>0, <3>1 DEF Counters
    <3> QED BY <1>0, <1>1, <3>1, <3>2, <3>9 DEF RowsInv, CountersMatchRows
  <2>2. CASE arg[c] \notin likes
    <3>1. UNCHANGED postVars /\ pc' = [pc EXCEPT ![c] = "done"]
      BY <1>4, <2>2 DEF Unlike, Goto, postVars
    <3> QED BY <1>0, <1>1, <3>1 DEF RowsInv, CountersMatchRows, postVars
  <2> QED BY <2>1, <2>2
<1>5. CASE Comment(c)
  <2>1. c \notin comments
    BY <1>0, <1>5 DEF Comment, Goto, CommentsWereBegun
  <2>2. /\ comments' = comments \cup {c} /\ counts' = [counts EXCEPT !.comments = @ + 1]
        /\ UNCHANGED <<post, likes>> /\ pc' = [pc EXCEPT ![c] = "sync"]
    BY <1>5 DEF Comment, Goto
  <2>3. IsFiniteSet(comments') /\ Cardinality(comments') = Cardinality(comments) + 1
    BY <1>0, <2>1, <2>2, FS_AddElement
  <2>9. /\ counts' \in Counters /\ counts'.comments = counts.comments + 1
        /\ counts'.likes = counts.likes
    BY <1>0, <2>2 DEF Counters
  <2> QED BY <1>0, <1>1, <2>2, <2>3, <2>9 DEF RowsInv, CountersMatchRows
<1>6. CASE Uncomment(c)
  <2>1. CASE arg[c] \in comments
    <3>1. /\ comments' = comments \ {arg[c]}
          /\ counts' = [counts EXCEPT !.comments = @ - 1]
          /\ UNCHANGED <<post, likes>> /\ pc' = [pc EXCEPT ![c] = "sync"]
      BY <1>6, <2>1 DEF Uncomment, Goto
    <3>2. IsFiniteSet(comments') /\ Cardinality(comments') = Cardinality(comments) - 1
      BY <1>0, <2>1, <3>1, FS_RemoveElement
    <3>9. /\ counts' \in Counters /\ counts'.comments = counts.comments - 1
          /\ counts'.likes = counts.likes
      BY <1>0, <3>1 DEF Counters
    <3> QED BY <1>0, <1>1, <3>1, <3>2, <3>9 DEF RowsInv, CountersMatchRows
  <2>2. CASE arg[c] \notin comments
    <3>1. UNCHANGED postVars /\ pc' = [pc EXCEPT ![c] = "done"]
      BY <1>6, <2>2 DEF Uncomment, Goto, postVars
    <3> QED BY <1>0, <1>1, <3>1 DEF RowsInv, CountersMatchRows, postVars
  <2> QED BY <2>1, <2>2
<1> QED BY <1>2, <1>3, <1>4, <1>5, <1>6

-----------------------------------------------------------------------------
(* The views.                                                                *)

(* The steps of the calls move no view, but deleting the post.               *)
LEMMA CallsLeaveViews ==
    ASSUME RowsInv, ViewsInv,
           \/ \E c \in Calls : Begin(c) \/ Unlike(c) \/ Uncomment(c) \/ SyncFails(c)
           \/ \E c \in Procs : Sync(c)
           \/ CronStarts \/ CronSweeps
           \/ UNCHANGED vars
    PROVE  ViewsInv'
<1>1. UNCHANGED viewVars
  BY DEF Begin, CreatePost, UpdatePost, RemovePost, Like, FindLike, Comment, FindComment,
         RecordEvent, Unlike, Uncomment, SyncFails, Sync, SyncReads, SyncPurges,
         SyncReadsTopic, SyncUpserts, CronStarts, CronSweeps, vars
<1>2. ASSUME NEW c \in Calls, RemovePost(c) PROVE ViewsInv'
  BY <1>1, <1>2 DEF RemovePost, ViewsInv, viewVars, PostStates
<1>3. CASE counts'.views = counts.views /\ post' \in PostStates
           /\ (post' # "deleted" => post # "deleted")
  BY <1>1, <1>3 DEF ViewsInv, viewVars
<1>4. \/ \E c \in Calls : RemovePost(c)
      \/ /\ UNCHANGED counts
         /\ \/ UNCHANGED post
            \/ post # "deleted" /\ post' \in {"public", "private"}
      \/ /\ UNCHANGED post
         /\ \/ \E n \in Int : counts' = [counts EXCEPT !.likes = n]
            \/ \E n \in Int : counts' = [counts EXCEPT !.comments = n]
  <2>1. counts.likes + 1 \in Int /\ counts.likes - 1 \in Int
        /\ counts.comments + 1 \in Int /\ counts.comments - 1 \in Int
    BY DEF RowsInv, Counters
  <2>2. ASSUME NEW c \in Calls, Like(c) \/ Unlike(c) \/ Comment(c) \/ Uncomment(c)
        PROVE  /\ UNCHANGED post
               /\ \/ \E n \in Int : counts' = [counts EXCEPT !.likes = n]
                  \/ \E n \in Int : counts' = [counts EXCEPT !.comments = n]
                  \/ UNCHANGED counts
    BY <2>1, <2>2 DEF Like, Unlike, Comment, Uncomment
  <2>3. \/ \E c \in Calls : \/ RemovePost(c) \/ Like(c) \/ Unlike(c) \/ Comment(c)
                            \/ Uncomment(c)
        \/ /\ UNCHANGED counts
           /\ \/ UNCHANGED post
              \/ post # "deleted" /\ post' \in {"public", "private"}
    BY DEF Begin, CreatePost, UpdatePost, FindLike, FindComment, RecordEvent, SyncFails, Sync,
           SyncReads, SyncPurges, SyncReadsTopic, SyncUpserts, CronStarts, CronSweeps, vars,
           postVars, Exists
  <2> QED BY <2>2, <2>3
<1>5. counts \in Counters /\ post \in PostStates
  BY DEF RowsInv
<1> QED BY <1>2, <1>3, <1>4, <1>5 DEF Counters, PostStates

LEMMA ViewsMove ==
    ASSUME RowsInv, ViewsInv,
           \/ \E v \in Viewers : TrackView(v) \/ CountView(v) \/ LockExpires(v)
           \/ FlushRenames \/ FlushAdds \/ FlushFails
    PROVE  ViewsInv'
<1> DEFINE n == Cardinality(counting)
<1>0. /\ post \in PostStates /\ counts.views \in Nat /\ counts \in Counters
      /\ IsFiniteSet(counting) /\ n \in Nat
      /\ buffer \in Nat /\ lost \in Nat /\ accepted \in Nat
      /\ flush \in [stage : {"idle", "renamed"}, held : Nat]
      /\ flush.stage = "idle" => flush.held = 0
      /\ post # "deleted" => n + buffer + flush.held + counts.views + lost = accepted
  BY DEF RowsInv, ViewsInv
<1>1. ASSUME NEW v \in Viewers, TrackView(v) PROVE ViewsInv'
  <2>1. /\ v \notin counting /\ counting' = counting \cup {v} /\ accepted' = accepted + 1
        /\ UNCHANGED <<post, counts, buffer, flush, lost>>
    BY <1>1 DEF TrackView, postVars
  <2>2. IsFiniteSet(counting') /\ Cardinality(counting') = n + 1
    BY <1>0, <2>1, FS_AddElement
  <2> QED BY <1>0, <2>1, <2>2 DEF ViewsInv
<1>2. ASSUME NEW v \in Viewers, CountView(v) PROVE ViewsInv'
  <2>1. /\ v \in counting /\ counting' = counting \ {v} /\ buffer' = buffer + 1
        /\ UNCHANGED <<post, counts, flush, accepted, lost>>
    BY <1>2 DEF CountView, postVars
  <2>2. /\ IsFiniteSet(counting') /\ Cardinality(counting') = n - 1
        /\ Cardinality(counting') \in Nat
    BY <1>0, <2>1, FS_RemoveElement, FS_CardinalityType
  <2> QED BY <1>0, <2>1, <2>2 DEF ViewsInv
<1>3. ASSUME NEW v \in Viewers, LockExpires(v) PROVE ViewsInv'
  BY <1>0, <1>3 DEF LockExpires, postVars, ViewsInv
<1>4. CASE FlushRenames
  <2>1. /\ flush.stage = "idle" /\ flush' = [stage |-> "renamed", held |-> buffer]
        /\ buffer' = 0 /\ UNCHANGED <<post, counts, counting, accepted, lost>>
    BY <1>4 DEF FlushRenames, postVars
  <2> QED BY <1>0, <2>1 DEF ViewsInv
<1>5. CASE FlushAdds \/ FlushFails
  <2>1. /\ flush' = [stage |-> "idle", held |-> 0]
        /\ UNCHANGED <<post, counting, buffer, accepted>>
        /\ \/ counts' = [counts EXCEPT !.views = @ + flush.held] /\ UNCHANGED lost
           \/ lost' = lost + flush.held /\ UNCHANGED counts
    BY <1>5 DEF FlushAdds, FlushFails, postVars
  <2>2. \/ counts'.views = counts.views + flush.held /\ UNCHANGED lost
        \/ lost' = lost + flush.held /\ UNCHANGED counts
    BY <1>0, <2>1 DEF Counters
  <2> QED BY <1>0, <2>1, <2>2 DEF ViewsInv
<1> QED BY <1>1, <1>2, <1>3, <1>4, <1>5

-----------------------------------------------------------------------------
LEMMA PostInvHolds == Spec => [](RowsInv /\ ViewsInv)
<1>1. Init => RowsInv /\ ViewsInv
  <2> SUFFICES ASSUME Init PROVE RowsInv /\ ViewsInv
    OBVIOUS
  <2>1. /\ IsFiniteSet(likes) /\ Cardinality(likes) \in Nat
        /\ IsFiniteSet(comments) /\ Cardinality(comments) \in Nat
        /\ IsFiniteSet(counting) /\ Cardinality(counting) = 0
    BY StartAssumption, FS_EmptySet, FS_CardinalityType DEF Init
  <2>2. CommentsWereBegun
    BY StartAssumption DEF Init, CommentsWereBegun
  <2>3. RowsInv
    BY <2>1, <2>2 DEF Init, RowsInv, CountersMatchRows, Counters, PostStates
  <2>4. ViewsInv
    BY <2>1 DEF Init, ViewsInv, PostStates
  <2> QED BY <2>3, <2>4
<1>2. RowsInv /\ ViewsInv /\ [Next]_vars => (RowsInv /\ ViewsInv)'
  <2> SUFFICES ASSUME RowsInv, ViewsInv, [Next]_vars PROVE RowsInv' /\ ViewsInv'
    OBVIOUS
  <2>1. RowsInv'
    BY RowsFrame, SyncLeavesRows, OthersLeaveRows, FlushLeavesRows, RowsChange
       DEF Next, Begin
  <2>2. ViewsInv'
    BY CallsLeaveViews, ViewsMove DEF Next
  <2> QED BY <2>1, <2>2
<1> QED BY <1>1, <1>2, PTL DEF Spec

(* The counters of the post are the numbers of its rows, for any number of   *)
(* users who like, unlike and comment at once, of removals that race for the *)
(* same row, and of crashes.                                                 *)
THEOREM CountersAreRows == Spec => []CountersMatchRows
<1>1. RowsInv => CountersMatchRows
  BY DEF RowsInv
<1> QED BY <1>1, PostInvHolds, PTL

(* As long as the post exists no accepted view is counted twice or forgotten *)
(* otherwise than with a flush that failed.                                  *)
THEOREM ViewsAreAccounted == Spec => []ViewsAccounted
<1>1. ViewsInv => ViewsAccounted
  BY DEF ViewsInv, ViewsAccounted, Exists
<1> QED BY <1>1, PostInvHolds, PTL
=============================================================================
