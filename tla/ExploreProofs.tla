--------------------------- MODULE ExploreProofs ----------------------------
(***************************************************************************)
(* Theorems about the explore feeds: how old an answer of the cached feeds *)
(* can be, for every number of requests and revalidations and all values   *)
(* of the TTLs; and what the for-you feed promises a user, for any posts,  *)
(* any batches of signals and any interleaving of pages, signals, follows  *)
(* and publications.                                                       *)
(*                                                                         *)
(* StaleBounded is not inductive: that an entry is not too old when it is  *)
(* as old as it may get follows from what it was when it was written, and  *)
(* that from the ages of a response at every stage of its production.      *)
(* ProfileIsSum needs what every signal under way has read and means to    *)
(* write, HiddenStaysHidden what every page under construction has read,   *)
(* and PagesCover what a finished page owes to the order of its moment.    *)
(***************************************************************************)
EXTENDS FeedCache, ForYouFeed, SumTheorems, SequenceTheorems, TLAPS

-----------------------------------------------------------------------------
(* The cached feeds.                                                         *)

(* Not older than its age says, on top of what the response had.           *)
EntryOK(k, e) ==
    /\ e.age <= LifeTime(k)
    /\ e.own <= e.age + MaxProduce
    /\ e.items <= e.age + MaxProduce + (IF k = "public" THEN 0 ELSE PublicBound)

(* Not older than the time it has been built for, unless its items came    *)
(* from the public entry.                                                  *)
ResponseOK(r) ==
    /\ r.life <= MaxProduce
    /\ r.own <= r.life
    /\ r.at = "inner" => r.items <= r.life
    /\ r.at = "write" => r.items <= r.life + (IF r.kind = "public" THEN 0 ELSE PublicBound)
    /\ r.kind = "public" => r.at \notin {"own", "fallback", "inner"} /\ ~r.nested

AgesOK ==
    /\ \A k \in cached : EntryOK(k, entry[k])
    /\ \A w \in Workers : ResponseOK(work[w])

AgesInv == TypeOK /\ AgesOK

-----------------------------------------------------------------------------
(* What the TTLs bound is a natural number. *)
LEMMA Bounds ==
    /\ MaxProduce \in Nat /\ PublicBound \in Nat
    /\ \A k \in Keys : LifeTime(k) \in Nat
    /\ LifeTime("public") + MaxProduce = PublicBound
BY TtlAssumption DEF LifeTime, PublicBound, Keys

(* A response that begins: nothing has been read. *)
LEMMA FirstResponse ==
    ASSUME NEW at \in Stages, NEW kind \in Kinds,
           kind = "public" => at \notin {"own", "fallback", "inner"}
    PROVE  Response(at, kind) \in Responses /\ ResponseOK(Response(at, kind))
BY Bounds DEF Responses, Response, ResponseOK

WithItems(r, at, n) == [r EXCEPT !.at = at, !.items = n]
WithOwn(r, at, n) == [r EXCEPT !.at = at, !.own = n]

(* A response goes on to its next stage, with new items. *)
LEMMA NextWithItems ==
    ASSUME NEW r \in Responses, NEW at \in Stages, NEW n \in Nat,
           NEW p, p = WithItems(r, at, n)
    PROVE  /\ p \in Responses /\ p.at = at /\ p.items = n /\ p.own = r.own
           /\ p.life = r.life /\ p.kind = r.kind /\ p.nested = r.nested
<1> DEFINE s == [r EXCEPT !.at = at]
<1>1. s \in Responses /\ s.at = at /\ s.own = r.own
      /\ s.life = r.life /\ s.kind = r.kind /\ s.nested = r.nested
  BY DEF Responses
<1>2. p = [s EXCEPT !.items = n]
  BY DEF WithItems
<1> HIDE DEF s
<1> QED  BY <1>1, <1>2 DEF Responses

(* A response goes on to its next stage, with new reads of its own. *)
LEMMA NextWithOwn ==
    ASSUME NEW r \in Responses, NEW at \in Stages, NEW n \in Nat,
           NEW p, p = WithOwn(r, at, n)
    PROVE  /\ p \in Responses /\ p.at = at /\ p.own = n /\ p.items = r.items
           /\ p.life = r.life /\ p.kind = r.kind /\ p.nested = r.nested
<1> DEFINE s == [r EXCEPT !.at = at]
<1>1. s \in Responses /\ s.at = at /\ s.items = r.items
      /\ s.life = r.life /\ s.kind = r.kind /\ s.nested = r.nested
  BY DEF Responses
<1>2. p = [s EXCEPT !.own = n]
  BY DEF WithOwn
<1> HIDE DEF s
<1> QED  BY <1>1, <1>2 DEF Responses

(* One worker's response changes into a good one and the cache is left     *)
(* alone: so do most steps.                                                *)
LEMMA OneResponse ==
    ASSUME AgesInv, NEW w \in Workers, NEW r \in Responses, ResponseOK(r),
           work' = [work EXCEPT ![w] = r], UNCHANGED <<cached, entry>>
    PROVE  /\ work' \in [Workers -> Responses]
           /\ AgesOK'
BY DEF AgesInv, TypeOK, AgesOK, Responses, EntryOK, ResponseOK, LifeTime, PublicBound

(* Of a task in the revalidation only its kind matters: it is one of the   *)
(* two feeds, and building it starts as any building does.                 *)
LEMMA StartedTask ==
    ASSUME NEW r \in Responses, ResponseOK(r), r.at = "lock"
    PROVE  LET q == [r EXCEPT !.at = FirstStage(r.kind)]
           IN  q \in Responses /\ ResponseOK(q)
BY Bounds DEF Responses, ResponseOK, FirstStage, Stages

(* A unit of time makes a response no older than it may get. *)
LEMMA Older ==
    ASSUME NEW r \in Responses, ResponseOK(r), r.life < MaxProduce
    PROVE  OlderWork(r) \in Responses /\ ResponseOK(OlderWork(r))
<1> DEFINE own == IF r.kind # "public" /\ r.at \notin {"lock", "own"} THEN r.own + 1 ELSE 0
           items == IF r.at \in {"inner", "write"} THEN r.items + 1 ELSE 0
           p == [r EXCEPT !.life = r.life + 1]
           q == [p EXCEPT !.own = own]
           s == [q EXCEPT !.items = items]
<1>1. own \in Nat /\ items \in Nat /\ own <= r.life + 1 /\ r.life + 1 \in Nat
  BY DEF Responses, ResponseOK
<1>2. OlderWork(r) = s
  BY DEF OlderWork
<1> HIDE DEF own, items
<1>3. p \in Responses /\ p.life = r.life + 1 /\ p.at = r.at /\ p.kind = r.kind
      /\ p.nested = r.nested
  BY <1>1 DEF Responses
<1> HIDE DEF p
<1>4. q \in Responses /\ q.own = own /\ q.life = p.life /\ q.at = p.at
      /\ q.kind = p.kind /\ q.nested = p.nested
  BY <1>1, <1>3 DEF Responses
<1> HIDE DEF q
<1>5. s \in Responses /\ s.items = items /\ s.own = q.own /\ s.life = q.life
      /\ s.at = q.at /\ s.kind = q.kind /\ s.nested = q.nested
  BY <1>1, <1>4 DEF Responses
<1> HIDE DEF s
<1>6. r.life \in Nat /\ r.items \in Nat
  BY DEF Responses
<1>7. ResponseOK(s)
  BY <1>1, <1>3, <1>4, <1>5, <1>6, Bounds DEF ResponseOK, items
<1> QED  BY <1>2, <1>5, <1>7

LEMMA InitOK == Init => AgesInv
<1> SUFFICES ASSUME Init PROVE AgesInv
  OBVIOUS
<1>1. Idle \in Responses /\ ResponseOK(Idle)
  BY FirstResponse DEF Idle, Stages, Kinds, Keys
<1>2. TypeOK
  BY <1>1, TtlAssumption DEF Init, TypeOK, NoEntry
<1>3. AgesOK
  BY <1>1 DEF Init, AgesOK
<1> QED  BY <1>2, <1>3 DEF AgesInv

LEMMA NextOK == AgesInv /\ [Next]_vars => AgesInv'
<1> SUFFICES ASSUME AgesInv, [Next]_vars PROVE AgesInv'
  OBVIOUS
<1> USE DEF AgesInv
<1>t. TypeOK /\ AgesOK
  OBVIOUS
<1>i. Idle \in Responses /\ ResponseOK(Idle)
  BY FirstResponse DEF Idle, Stages, Kinds, Keys
<1>p. ASSUME NEW kind \in Kinds
      PROVE  Producing(kind) \in Responses /\ ResponseOK(Producing(kind))
  BY FirstResponse DEF Producing, FirstStage, Stages
<1>r. ASSUME NEW k \in Keys
      PROVE  Revalidating(k) \in Responses /\ ResponseOK(Revalidating(k))
  BY FirstResponse DEF Revalidating, Stages, Kinds
<1>w. Calls \subseteq Workers /\ Tasks \subseteq Workers
      /\ \A k \in Keys : TasksOf(k) \subseteq Tasks
  BY DEF Workers, Tasks, TasksOf
<1>k. Keys \subseteq Kinds
  BY DEF Kinds
<1>g. (\A k \in cached' : EntryOK(k, entry'[k]))
      /\ (\A w \in Workers : ResponseOK(work'[w])) => AgesOK'
  BY DEF AgesOK, EntryOK, ResponseOK, LifeTime, PublicBound
<1>1. ASSUME NEW k \in Keys, NEW t \in Tasks, AnswerStale(k, t) PROVE AgesInv'
  <2>1. work' \in [Workers -> Responses] /\ AgesOK'
    BY <1>1, <1>r, <1>w, OneResponse DEF AnswerStale
  <2>2. renewal' \in [Keys -> {"none", "due", "failed"}]
    BY <1>1, <1>t DEF AnswerStale, Promised, TypeOK
  <2> QED  BY <1>1, <1>t, <2>1, <2>2 DEF AnswerStale, TypeOK
<1>2. ASSUME NEW c \in Calls, NEW k \in Keys, AskMiss(c, k) PROVE AgesInv'
  <2>1. work' \in [Workers -> Responses] /\ AgesOK'
    BY <1>2, <1>p, <1>w, <1>k, OneResponse DEF AskMiss
  <2> QED  BY <1>2, <1>t, <2>1 DEF AskMiss, TypeOK
<1>3. ASSUME NEW c \in Calls, AskDebug(c) PROVE AgesInv'
  <2>1. work' \in [Workers -> Responses] /\ AgesOK'
    BY <1>3, <1>p, <1>w, OneResponse DEF AskDebug, Kinds
  <2> QED  BY <1>3, <1>t, <2>1 DEF AskDebug, TypeOK
<1>4. ASSUME NEW c \in Calls, AnswerDebug(c) PROVE AgesInv'
  <2>1. work' \in [Workers -> Responses] /\ AgesOK'
    BY <1>4, <1>i, <1>w, OneResponse DEF AnswerDebug
  <2> QED  BY <1>4, <1>t, <2>1 DEF AnswerDebug, TypeOK
<1>5. ASSUME NEW t \in Tasks, TakeLock(t) PROVE AgesInv'
  <2> DEFINE r == [work[t] EXCEPT !.at = FirstStage(work[t].kind)]
  <2>1. r \in Responses /\ ResponseOK(r)
    BY <1>5, <1>t, <1>w, StartedTask DEF TakeLock, TypeOK, AgesOK
  <2>2. work' = [work EXCEPT ![t] = r]
    BY <1>5 DEF TakeLock
  <2>3. work' \in [Workers -> Responses] /\ AgesOK'
    BY <1>5, <1>w, <2>1, <2>2, OneResponse DEF TakeLock
  <2>4. lock' \in [Keys -> 0..LockTtl]
    <3>1. LockTtl \in 0..LockTtl
      BY TtlAssumption
    <3> QED  BY <1>5, <1>t, <3>1 DEF TakeLock, TypeOK
  <2> QED  BY <1>5, <1>t, <2>3, <2>4 DEF TakeLock, TypeOK
<1>6. ASSUME NEW t \in Tasks, LoseLock(t) PROVE AgesInv'
  <2>1. work' \in [Workers -> Responses] /\ AgesOK'
    BY <1>6, <1>i, <1>w, OneResponse DEF LoseLock
  <2> QED  BY <1>6, <1>t, <2>1 DEF LoseLock, TypeOK
<1>7. ASSUME NEW t \in Tasks, LockFails(t) PROVE AgesInv'
  <2>1. work' \in [Workers -> Responses] /\ AgesOK'
    BY <1>7, <1>i, <1>w, OneResponse DEF LockFails
  <2>2. lock' \in [Keys -> 0..LockTtl]
    BY <1>7, <1>t, TtlAssumption DEF LockFails, TypeOK
  <2>3. renewal' \in [Keys -> {"none", "due", "failed"}]
    BY <1>7, <1>t DEF LockFails, TypeOK
  <2> QED  BY <1>7, <1>t, <2>1, <2>2, <2>3 DEF LockFails, TypeOK
<1>8. ASSUME NEW w \in Workers, ReadOwn(w) PROVE AgesInv'
  <2> PICK at \in {"items", "fallback"} :
         work' = [work EXCEPT ![w].at = at, ![w].own = 0]
    BY <1>8 DEF ReadOwn
  <2> DEFINE r == WithOwn(work[w], at, 0)
  <2>1. r \in Responses /\ ResponseOK(r)
    <3>1. work[w] \in Responses /\ ResponseOK(work[w]) /\ work[w].at = "own"
      BY <1>8, <1>t DEF ReadOwn, TypeOK, AgesOK
    <3>2. work[w].life \in Nat /\ at \in Stages
      BY <3>1 DEF Responses, Stages
    <3>3. /\ r \in Responses /\ r.at = at /\ r.own = 0 /\ r.items = work[w].items
          /\ r.life = work[w].life /\ r.kind = work[w].kind /\ r.nested = work[w].nested
      BY <3>1, <3>2, NextWithOwn
    <3> HIDE DEF r
    <3> QED  BY <3>1, <3>2, <3>3, Bounds DEF ResponseOK
  <2>2. work' = [work EXCEPT ![w] = r]
    BY DEF WithOwn
  <2>3. work' \in [Workers -> Responses] /\ AgesOK'
    BY <1>8, <2>1, <2>2, OneResponse DEF ReadOwn
  <2> QED  BY <1>8, <1>t, <2>3 DEF ReadOwn, TypeOK
<1>f. ASSUME NEW w \in Workers, work[w].at = "fallback", "public" \in cached,
             NEW r, r = WithItems(work[w], "write", entry["public"].items)
      PROVE  r \in Responses /\ ResponseOK(r)
  <2>1. entry["public"].items \in Nat /\ entry["public"].items <= PublicBound
    BY <1>f, <1>t, Bounds DEF TypeOK, AgesOK, EntryOK, Keys
  <2>2. work[w] \in Responses /\ ResponseOK(work[w])
    BY <1>t DEF TypeOK, AgesOK
  <2>3. work[w].life \in Nat /\ "write" \in Stages
    BY <2>2 DEF Responses, Stages
  <2>4. /\ r \in Responses /\ r.at = "write" /\ r.items = entry["public"].items
        /\ r.own = work[w].own /\ r.life = work[w].life
        /\ r.kind = work[w].kind /\ r.nested = work[w].nested
    BY <1>f, <2>1, <2>2, <2>3, NextWithItems
  <2>5. work[w].kind # "public"
    BY <1>f, <2>2 DEF ResponseOK
  <2> QED  BY <2>1, <2>2, <2>3, <2>4, <2>5, Bounds DEF ResponseOK
<1>9. ASSUME NEW w \in Workers, FallbackFresh(w) PROVE AgesInv'
  <2> DEFINE r == WithItems(work[w], "write", entry["public"].items)
  <2>1. r \in Responses /\ ResponseOK(r)
    BY <1>9, <1>f DEF FallbackFresh, Fresh
  <2>2. work' = [work EXCEPT ![w] = r]
    BY <1>9 DEF FallbackFresh, WithItems
  <2>3. work' \in [Workers -> Responses] /\ AgesOK'
    BY <1>9, <2>1, <2>2, OneResponse DEF FallbackFresh
  <2> QED  BY <1>9, <1>t, <2>3 DEF FallbackFresh, TypeOK
<1>10. ASSUME NEW w \in Workers, NEW t \in Tasks, FallbackStale(w, t) PROVE AgesInv'
  <2> DEFINE r == WithItems(work[w], "write", entry["public"].items)
  <2>1. r \in Responses /\ ResponseOK(r)
    BY <1>10, <1>f DEF FallbackStale, Stale
  <2>2. /\ Revalidating("public") \in Responses
        /\ ResponseOK(Revalidating("public"))
    BY <1>r DEF Keys
  <2>3. w # t /\ t \in Workers
    BY <1>10, <1>w DEF FallbackStale
  <2>4. work' = [[work EXCEPT ![w] = r] EXCEPT ![t] = Revalidating("public")]
    BY <1>10, <2>3 DEF FallbackStale, WithItems
  <2>5. work' \in [Workers -> Responses] /\ \A v \in Workers : ResponseOK(work'[v])
    BY <1>t, <2>1, <2>2, <2>3, <2>4 DEF TypeOK, AgesOK
  <2>6. AgesOK'
    BY <1>10, <1>t, <2>5 DEF FallbackStale, AgesOK, ResponseOK, EntryOK, LifeTime, PublicBound
  <2>7. renewal' \in [Keys -> {"none", "due", "failed"}]
    BY <1>10, <1>t DEF FallbackStale, Promised, TypeOK
  <2> QED  BY <1>10, <1>t, <2>5, <2>6, <2>7 DEF FallbackStale, TypeOK
<1>11. ASSUME NEW w \in Workers, FallbackMiss(w) PROVE AgesInv'
  <2> DEFINE r == [work[w] EXCEPT !.at = "items", !.nested = TRUE]
  <2>1. r \in Responses /\ ResponseOK(r)
    BY <1>11, <1>t DEF FallbackMiss, TypeOK, AgesOK, Responses, ResponseOK, Stages
  <2>2. work' = [work EXCEPT ![w] = r]
    BY <1>11 DEF FallbackMiss
  <2>3. work' \in [Workers -> Responses] /\ AgesOK'
    BY <1>11, <2>1, <2>2, OneResponse DEF FallbackMiss
  <2> QED  BY <1>11, <1>t, <2>3 DEF FallbackMiss, TypeOK
<1>12. ASSUME NEW w \in Workers, ReadItems(w) PROVE AgesInv'
  <2> DEFINE r == WithItems(work[w], IF work[w].nested THEN "inner" ELSE "write", 0)
  <2>1. r \in Responses /\ ResponseOK(r)
    <3>1. work[w] \in Responses /\ ResponseOK(work[w]) /\ work[w].at = "items"
      BY <1>12, <1>t DEF ReadItems, TypeOK, AgesOK
    <3>2. /\ work[w].life \in Nat /\ work[w].own \in Nat
          /\ (IF work[w].nested THEN "inner" ELSE "write") \in Stages
      BY <3>1 DEF Responses, Stages
    <3>3. /\ r \in Responses /\ r.at = IF work[w].nested THEN "inner" ELSE "write"
          /\ r.items = 0 /\ r.own = work[w].own /\ r.life = work[w].life
          /\ r.kind = work[w].kind /\ r.nested = work[w].nested
      BY <3>1, <3>2, NextWithItems
    <3> HIDE DEF r
    <3> QED  BY <3>1, <3>2, <3>3, Bounds DEF ResponseOK
  <2>2. work' = [work EXCEPT ![w] = r]
    BY <1>12 DEF ReadItems, WithItems
  <2>3. work' \in [Workers -> Responses] /\ AgesOK'
    BY <1>12, <2>1, <2>2, OneResponse DEF ReadItems
  <2> QED  BY <1>12, <1>t, <2>3 DEF ReadItems, TypeOK
<1>13. ASSUME NEW w \in Workers, ProduceFails(w) PROVE AgesInv'
  <2>1. work' \in [Workers -> Responses] /\ AgesOK'
    BY <1>13, <1>i, OneResponse DEF ProduceFails
  <2>2. renewal' \in [Keys -> {"none", "due", "failed"}]
    BY <1>13, <1>t DEF ProduceFails, TypeOK
  <2> QED  BY <1>13, <1>t, <2>1, <2>2 DEF ProduceFails, TypeOK
<1>s. ASSUME NEW k \in Keys, NEW e \in [own : Nat, items : Nat], Store(k, e),
             e.own <= MaxProduce,
             e.items <= MaxProduce + (IF k = "public" THEN 0 ELSE PublicBound)
      PROVE  /\ cached' \subseteq Keys
             /\ entry' \in [Keys -> [age : Nat, own : Nat, items : Nat]]
             /\ renewal' \in [Keys -> {"none", "due", "failed"}]
             /\ \A j \in cached' : EntryOK(j, entry'[j])
  <2> DEFINE new == [age |-> 0, own |-> e.own, items |-> e.items]
  <2>1. new \in [age : Nat, own : Nat, items : Nat] /\ EntryOK(k, new)
    BY <1>s, Bounds DEF EntryOK
  <2>2. CASE cached' = cached \cup {k} /\ entry' = [entry EXCEPT ![k] = new]
             /\ renewal' = [renewal EXCEPT ![k] = "none"]
    BY <1>t, <2>1, <2>2 DEF TypeOK, AgesOK
  <2>3. CASE renewal' = [renewal EXCEPT ![k] = "failed"] /\ UNCHANGED <<cached, entry>>
    BY <1>t, <2>3 DEF TypeOK, AgesOK
  <2> QED  BY <1>s, <2>2, <2>3 DEF Store
<1>14. ASSUME NEW w \in Workers, InnerWrite(w) PROVE AgesInv'
  <2> DEFINE r == [work[w] EXCEPT !.at = "write"]
             e == [own |-> 0, items |-> work[w].items]
  <2>1. work[w] \in Responses /\ ResponseOK(work[w]) /\ work[w].at = "inner"
    BY <1>14, <1>t DEF InnerWrite, TypeOK, AgesOK
  <2>2. work[w].items \in Nat /\ work[w].life \in Nat
    BY <2>1 DEF Responses
  <2>3. r \in Responses /\ ResponseOK(r)
    BY <2>1, <2>2, Bounds DEF Responses, ResponseOK, Stages
  <2>4. work' = [work EXCEPT ![w] = r]
    BY <1>14 DEF InnerWrite
  <2>5. work' \in [Workers -> Responses] /\ \A v \in Workers : ResponseOK(work'[v])
    BY <1>t, <2>3, <2>4 DEF TypeOK, AgesOK
  <2>6. e.own <= MaxProduce /\ e.items <= MaxProduce
    BY <2>1, <2>2, Bounds DEF ResponseOK
  <2>7. /\ cached' \subseteq Keys
        /\ entry' \in [Keys -> [age : Nat, own : Nat, items : Nat]]
        /\ renewal' \in [Keys -> {"none", "due", "failed"}]
        /\ \A j \in cached' : EntryOK(j, entry'[j])
    BY <1>14, <1>s, <2>2, <2>6, Bounds DEF InnerWrite, Keys
  <2> QED  BY <1>14, <1>t, <1>g, <2>5, <2>7 DEF InnerWrite, TypeOK
<1>15. ASSUME NEW w \in Workers, Write(w) PROVE AgesInv'
  <2> DEFINE r == work[w]
             k == work[w].kind
             e == [own |-> r.own, items |-> r.items]
  <2>1. work[w] \in Responses /\ ResponseOK(work[w]) /\ work[w].at = "write"
    BY <1>15, <1>t DEF Write, TypeOK, AgesOK
  <2>2. /\ work[w].items \in Nat /\ work[w].own \in Nat
        /\ work[w].life \in Nat /\ k \in Keys
    BY <1>15, <2>1 DEF Responses, Write
  <2>3. work' \in [Workers -> Responses] /\ \A v \in Workers : ResponseOK(work'[v])
    BY <1>15, <1>t, <1>i DEF TypeOK, AgesOK, Write
  <2>4. Store(k, e)
    BY <1>15 DEF Write, Store
  <2>5. /\ e.own <= MaxProduce
        /\ e.items <= MaxProduce + (IF k = "public" THEN 0 ELSE PublicBound)
    BY <2>1, <2>2, Bounds DEF ResponseOK
  <2>6. /\ cached' \subseteq Keys
        /\ entry' \in [Keys -> [age : Nat, own : Nat, items : Nat]]
        /\ renewal' \in [Keys -> {"none", "due", "failed"}]
        /\ \A j \in cached' : EntryOK(j, entry'[j])
    BY <1>s, <2>2, <2>4, <2>5
  <2> QED  BY <1>15, <1>t, <1>g, <2>3, <2>6 DEF Write, TypeOK
<1>16. ASSUME Tick PROVE AgesInv'
  <2>1. cached' \subseteq cached /\ \A k \in cached' : entry[k].age < LifeTime(k)
    BY <1>16 DEF Tick
  <2>2. ASSUME NEW k \in Keys
        PROVE  entry'[k] \in [age : Nat, own : Nat, items : Nat]
    BY <1>16, <1>t DEF Tick, TypeOK, OlderEntry, NoEntry
  <2>3. ASSUME NEW k \in cached' PROVE EntryOK(k, entry'[k])
    <3>1. /\ k \in Keys /\ EntryOK(k, entry[k]) /\ entry[k].age < LifeTime(k)
          /\ entry[k] \in [age : Nat, own : Nat, items : Nat]
      BY <1>t, <2>1 DEF TypeOK, AgesOK
    <3>2. entry'[k] = OlderEntry(k)
      BY <1>16, <3>1 DEF Tick
    <3> QED  BY <3>1, <3>2, Bounds DEF EntryOK, OlderEntry
  <2>4. ASSUME NEW w \in Workers
        PROVE  work'[w] \in Responses /\ ResponseOK(work'[w])
    <3>1. CASE work[w].at = "idle"
      BY <1>16, <1>i, <3>1 DEF Tick
    <3>2. CASE work[w].at # "idle"
      <4>1. /\ work[w] \in Responses /\ ResponseOK(work[w])
            /\ work[w].life < MaxProduce /\ work'[w] = OlderWork(work[w])
        BY <1>16, <1>t, <3>2 DEF Tick, TypeOK, AgesOK
      <4> QED  BY <4>1, Older
    <3> QED  BY <3>1, <3>2
  <2>5. lock' \in [Keys -> 0..LockTtl]
    BY <1>16, <1>t, TtlAssumption DEF Tick, TypeOK
  <2>6. renewal' \in [Keys -> {"none", "due", "failed"}]
    BY <1>16, <1>t DEF Tick, TypeOK
  <2>7. TypeOK'
    BY <1>16, <1>t, <2>1, <2>2, <2>4, <2>5, <2>6 DEF Tick, TypeOK
  <2> QED  BY <1>g, <2>3, <2>4, <2>7
<1>17. CASE UNCHANGED vars
  BY <1>17, <1>t, <1>g DEF vars, TypeOK, AgesOK
<1> QED
  BY <1>1, <1>2, <1>3, <1>4, <1>5, <1>6, <1>7, <1>8, <1>9, <1>10, <1>11, <1>12,
     <1>13, <1>14, <1>15, <1>16, <1>17 DEF Next

-----------------------------------------------------------------------------
(* The cache and the responses are well typed in every reachable state of  *)
(* getExplore, getForYou and revalidateCacheInBackground.                  *)
THEOREM TypeCorrect == Spec => []TypeOK
<1>1. AgesInv => TypeOK
  BY DEF AgesInv
<1> QED  BY <1>1, InitOK, NextOK, PTL DEF Spec

(* Whatever requests and revalidations do, and whatever fails, an answer   *)
(* of the explore feeds is built from data that is no older than its TTLs, *)
(* the public feed's where it comes from there, and the productions allow. *)
THEOREM AnswersAreBounded == Spec => []StaleBounded
<1>1. AgesInv => StaleBounded
  <2> SUFFICES ASSUME AgesInv PROVE StaleBounded
    OBVIOUS
  <2>1. ASSUME NEW k \in cached PROVE Bounded(k, entry[k])
    <3>1. /\ k \in Keys /\ EntryOK(k, entry[k])
          /\ entry[k] \in [age : Nat, own : Nat, items : Nat]
      BY <2>1 DEF AgesInv, TypeOK, AgesOK
    <3> QED
      BY <3>1, Bounds DEF EntryOK, Bounded, OwnBound, ItemsBound, ForYouBound, Keys
  <2>2. ASSUME NEW w \in Workers, work[w].at = "write"
        PROVE  Bounded(work[w].kind, work[w])
    <3>1. work[w] \in Responses /\ ResponseOK(work[w])
      BY DEF AgesInv, TypeOK, AgesOK
    <3> QED
      BY <2>2, <3>1, Bounds DEF Responses, Kinds, Keys, ResponseOK, Bounded, OwnBound,
         ItemsBound, ForYouBound
  <2> QED  BY <2>1, <2>2 DEF StaleBounded
<1> QED  BY <1>1, InitOK, NextOK, PTL DEF Spec

-----------------------------------------------------------------------------
(* OverlapOnlyWhenSlow.  A task that builds a feed has taken the lock of   *)
(* that feed when it was no older than now, so the lock lives until the    *)
(* task has lived for LockTtl.                                             *)
Building(t) == work[t].at \notin {"idle", "lock"}

TaskInv ==
    /\ \A k \in Keys : \A t \in TasksOf(k) :
         /\ work[t].at # "idle" => work[t].kind = k
         /\ Building(t) => lock[k] + work[t].life >= LockTtl
    /\ OverlapOnlyWhenSlow

(* A step that starts no building, takes no time and shortens no lock.     *)
LEMMA NothingBegins ==
    ASSUME TypeOK, TypeOK', TaskInv,
           \A k \in Keys : lock'[k] >= lock[k],
           \A k \in Keys : \A t \in TasksOf(k) :
             \/ work'[t] = work[t]
             \/ work'[t].at = "idle"
             \/ work'[t].at = "lock" /\ work'[t].kind = k
             \/ Building(t) /\ work'[t].kind = work[t].kind /\ work'[t].life = work[t].life
    PROVE  TaskInv'
<1>l. ASSUME NEW k \in Keys, NEW t \in TasksOf(k)
      PROVE  /\ t \in Workers /\ work[t].life \in Nat /\ work'[t].life \in Nat
             /\ lock[k] \in Nat /\ lock'[k] \in Nat
             /\ TasksOf(k)' = TasksOf(k) /\ LockTtl \in Nat
  <2>1. t \in Workers
    BY DEF TasksOf, Workers, Tasks
  <2> QED  BY <2>1, TtlAssumption DEF TypeOK, Responses, TasksOf
<1>1. ASSUME NEW k \in Keys, NEW t \in TasksOf(k)
      PROVE  /\ work'[t].at # "idle" => work'[t].kind = k
             /\ Building(t)' => lock'[k] + work'[t].life >= LockTtl
             /\ Building(t)' => Building(t) /\ work'[t].life = work[t].life
  BY <1>l DEF TaskInv, Building
<1>2. OverlapOnlyWhenSlow'
  <2> SUFFICES ASSUME NEW k \in Keys, NEW t \in TasksOf(k), NEW u \in TasksOf(k),
                      t # u, Building(t)', Building(u)'
               PROVE  work'[t].life >= LockTtl \/ work'[u].life >= LockTtl
    BY DEF OverlapOnlyWhenSlow, Building, TasksOf
  <2> QED  BY <1>1 DEF TaskInv, OverlapOnlyWhenSlow, Building
<1> QED  BY <1>1, <1>2 DEF TaskInv, TasksOf

(* Building goes on: the feed and the age of the response stay.            *)
LEMMA BuildingGoesOn ==
    ASSUME NEW w \in Workers, work \in [Workers -> Responses],
           \/ ReadOwn(w) \/ FallbackFresh(w) \/ FallbackMiss(w)
           \/ ReadItems(w) \/ InnerWrite(w)
           \/ \E t \in Tasks : t # w /\ FallbackStale(w, t)
    PROVE  work'[w].kind = work[w].kind /\ work'[w].life = work[w].life
<1>1. work[w] \in Responses
  OBVIOUS
<1>2. CASE ReadOwn(w)
  BY <1>1, <1>2 DEF ReadOwn, Responses
<1>3. CASE FallbackFresh(w)
  BY <1>1, <1>3 DEF FallbackFresh, Responses
<1>4. CASE FallbackMiss(w)
  BY <1>1, <1>4 DEF FallbackMiss, Responses
<1>5. CASE ReadItems(w)
  BY <1>1, <1>5 DEF ReadItems, Responses
<1>6. CASE InnerWrite(w)
  BY <1>1, <1>6 DEF InnerWrite, Responses
<1>7. CASE \E t \in Tasks : t # w /\ FallbackStale(w, t)
  BY <1>1, <1>7 DEF FallbackStale, Responses
<1> QED  BY <1>2, <1>3, <1>4, <1>5, <1>6, <1>7

LEMMA OlderFields ==
    ASSUME NEW r \in Responses
    PROVE  /\ OlderWork(r).life = r.life + 1
           /\ OlderWork(r).at = r.at /\ OlderWork(r).kind = r.kind
BY DEF OlderWork, Responses

LEMMA TasksOK == TypeOK /\ TaskInv /\ TypeOK' /\ [Next]_vars => TaskInv'
<1> SUFFICES ASSUME TypeOK, TaskInv, TypeOK', [Next]_vars PROVE TaskInv'
  OBVIOUS
<1>n. \A k \in Keys : lock[k] \in Nat /\ lock[k] >= lock[k] /\ LockTtl >= lock[k]
  BY TtlAssumption DEF TypeOK
<1>d. /\ \A t \in Tasks : t \in Workers
      /\ \A c \in Calls : c \notin Tasks
      /\ \A k \in Keys : \A t \in TasksOf(k) :
           t \in Tasks /\ \A j \in Keys : t \in TasksOf(j) => j = k
  BY WorkerAssumption DEF Workers, Tasks, TasksOf, Keys
<1>r. /\ Idle.at = "idle"
      /\ \A k \in Keys : Revalidating(k).at = "lock" /\ Revalidating(k).kind = k
  BY DEF Idle, Revalidating, Response
<1>1. ASSUME NEW k \in Keys, NEW t \in Tasks, AnswerStale(k, t) PROVE TaskInv'
  BY <1>1, <1>n, <1>d, <1>r, NothingBegins DEF AnswerStale, TypeOK
<1>2. ASSUME NEW c \in Calls, NEW k \in Keys, AskMiss(c, k) PROVE TaskInv'
  BY <1>2, <1>n, <1>d, NothingBegins DEF AskMiss, TypeOK
<1>3. ASSUME NEW c \in Calls, AskDebug(c) \/ AnswerDebug(c) PROVE TaskInv'
  BY <1>3, <1>n, <1>d, NothingBegins DEF AskDebug, AnswerDebug, TypeOK
<1>4. ASSUME NEW t \in Tasks, LoseLock(t) \/ LockFails(t) PROVE TaskInv'
  <2>1. \A k \in Keys : lock'[k] >= lock[k]
    BY <1>4, <1>n DEF LoseLock, LockFails, TypeOK
  <2>2. \A u \in Workers : work'[u] = work[u] \/ work'[u].at = "idle"
    BY <1>4, <1>r DEF LoseLock, LockFails, TypeOK
  <2> QED  BY <1>d, <2>1, <2>2, NothingBegins
<1>5. ASSUME NEW w \in Workers,
             \/ ReadOwn(w) \/ FallbackFresh(w) \/ FallbackMiss(w)
             \/ ReadItems(w) \/ InnerWrite(w)
      PROVE  TaskInv'
  <2>1. UNCHANGED lock
    BY <1>5 DEF ReadOwn, FallbackFresh, FallbackMiss, ReadItems, InnerWrite
  <2>2. /\ Building(w)
        /\ \A u \in Workers : u # w => work'[u] = work[u]
    BY <1>5 DEF ReadOwn, FallbackFresh, FallbackMiss, ReadItems, InnerWrite,
       Building, TypeOK
  <2>3. work'[w].kind = work[w].kind /\ work'[w].life = work[w].life
    BY <1>5, BuildingGoesOn DEF TypeOK
  <2> QED  BY <1>n, <1>d, <2>1, <2>2, <2>3, NothingBegins
<1>6. ASSUME NEW w \in Workers, Write(w) \/ ProduceFails(w) PROVE TaskInv'
  <2>1. UNCHANGED lock /\ \A u \in Workers : work'[u] = work[u] \/ work'[u].at = "idle"
    BY <1>6, <1>r DEF Write, ProduceFails, TypeOK
  <2> QED  BY <1>n, <1>d, <2>1, NothingBegins
<1>7. ASSUME NEW w \in Workers, NEW t \in Tasks, FallbackStale(w, t) PROVE TaskInv'
  <2>1. /\ UNCHANGED lock /\ Building(w) /\ w # t /\ t \in PublicTasks
        /\ work'[t] = Revalidating("public")
        /\ \A u \in Workers \ {w, t} : work'[u] = work[u]
    BY <1>7, <1>d DEF FallbackStale, Building, TypeOK
  <2>2. work'[w].kind = work[w].kind /\ work'[w].life = work[w].life
    BY <1>7, <2>1, BuildingGoesOn DEF TypeOK
  <2>3. "public" \in Keys /\ TasksOf("public") = PublicTasks
    BY DEF Keys, TasksOf
  <2> QED  BY <1>n, <1>d, <1>r, <2>1, <2>2, <2>3, NothingBegins
<1>8. ASSUME NEW t \in Tasks, TakeLock(t) PROVE TaskInv'
  <2> DEFINE k == work[t].kind
  <2>1. PICK j \in Keys : t \in TasksOf(j)
    BY DEF Tasks, TasksOf, Keys
  <2>2. /\ k = j /\ lock[j] = 0 /\ lock' = [lock EXCEPT ![j] = LockTtl]
        /\ work'[t].kind = j /\ work'[t].life = work[t].life
        /\ \A u \in Workers : u # t => work'[u] = work[u]
    BY <1>8, <1>d, <2>1 DEF TakeLock, TaskInv, TypeOK, Responses
  <2>3. \A i \in Keys : lock[i] \in Nat /\ lock'[i] \in Nat /\ lock'[i] >= lock[i]
    BY <1>n, <2>2, TtlAssumption DEF TypeOK
  <2>4. ASSUME NEW i \in Keys, NEW u \in TasksOf(i)
        PROVE  /\ work[u].life \in Nat /\ work'[u].life = work[u].life
               /\ work'[u].at # "idle" => work'[u].kind = i
               /\ Building(u)' => lock'[i] + work'[u].life >= LockTtl
               /\ u # t /\ i = j /\ Building(u)' => work'[u].life >= LockTtl
    <3>1. u \in Workers /\ u \in Tasks /\ work[u].life \in Nat /\ LockTtl \in Nat
      BY <1>d, TtlAssumption DEF TypeOK, Responses
    <3>2. CASE u = t
      BY <1>d, <2>1, <2>2, <2>3, <3>1, <3>2 DEF TypeOK
    <3>3. CASE u # t
      BY <2>2, <2>3, <3>1, <3>3 DEF TaskInv, Building
    <3> QED  BY <3>2, <3>3
  <2>5. OverlapOnlyWhenSlow'
    <3> SUFFICES ASSUME NEW i \in Keys, NEW u \in TasksOf(i), NEW v \in TasksOf(i),
                        u # v, Building(u)', Building(v)'
                 PROVE  work'[u].life >= LockTtl \/ work'[v].life >= LockTtl
      BY DEF OverlapOnlyWhenSlow, Building, TasksOf
    <3>1. CASE u = t \/ v = t
      BY <1>d, <2>1, <2>4, <3>1
    <3>2. CASE u # t /\ v # t
      BY <1>d, <2>2, <3>2 DEF TaskInv, OverlapOnlyWhenSlow, Building
    <3> QED  BY <3>1, <3>2
  <2> QED  BY <2>4, <2>5 DEF TaskInv, TasksOf
<1>9. ASSUME Tick PROVE TaskInv'
  <2>1. ASSUME NEW k \in Keys, NEW t \in TasksOf(k)
        PROVE  /\ work'[t].at = work[t].at
               /\ work'[t].at # "idle" => work'[t].kind = k
               /\ work[t].life \in Nat
               /\ work[t].at # "idle" => work'[t].life = work[t].life + 1
    <3>1. t \in Workers /\ work[t] \in Responses
      BY <1>d DEF TypeOK
    <3>2. CASE work[t].at = "idle"
      BY <1>9, <1>r, <3>1, <3>2 DEF Tick, Responses
    <3>3. CASE work[t].at # "idle"
      BY <1>9, <3>1, <3>3, OlderFields DEF Tick, TaskInv, Responses
    <3> QED  BY <3>2, <3>3
  <2>2. ASSUME NEW k \in Keys
        PROVE  lock[k] \in Nat /\ lock'[k] \in Nat /\ lock'[k] + 1 >= lock[k]
    BY <1>9, <1>n DEF Tick
  <2>3. ASSUME NEW k \in Keys, NEW t \in TasksOf(k), Building(t)'
        PROVE  /\ Building(t) /\ work'[t].life >= work[t].life /\ work'[t].life \in Nat
               /\ lock'[k] + work'[t].life >= LockTtl
    BY <2>1, <2>2, <2>3, TtlAssumption DEF TaskInv, Building
  <2>4. OverlapOnlyWhenSlow'
    <3> SUFFICES ASSUME NEW k \in Keys, NEW t \in TasksOf(k), NEW u \in TasksOf(k),
                        t # u, Building(t)', Building(u)'
                 PROVE  work'[t].life >= LockTtl \/ work'[u].life >= LockTtl
      BY DEF OverlapOnlyWhenSlow, Building, TasksOf
    <3>1. work[t].life >= LockTtl \/ work[u].life >= LockTtl
      BY <2>3 DEF TaskInv, OverlapOnlyWhenSlow, Building
    <3> QED  BY <2>1, <2>3, <3>1, TtlAssumption
  <2> QED  BY <2>1, <2>3, <2>4 DEF TaskInv, TasksOf
<1>10. CASE UNCHANGED vars
  BY <1>10, <1>n, NothingBegins DEF vars
<1> QED
  BY <1>1, <1>2, <1>3, <1>4, <1>5, <1>6, <1>7, <1>8, <1>9, <1>10 DEF Next

(* The lock of revalidateCacheInBackground does what it is there for: two  *)
(* revalidations build the same feed at once only if one of them has lived *)
(* for as long as the lock.                                                *)
THEOREM OneRevalidation == Spec => []OverlapOnlyWhenSlow
<1>1. Init => TaskInv
  <2> SUFFICES ASSUME Init PROVE TaskInv
    OBVIOUS
  <2>1. \A k \in Keys : \A t \in TasksOf(k) : work[t].at = "idle"
    BY DEF Init, Idle, Response, TasksOf, Workers, Tasks
  <2> QED  BY <2>1 DEF TaskInv, Building, OverlapOnlyWhenSlow
<1>2. AgesInv /\ TaskInv /\ [Next]_vars => (AgesInv /\ TaskInv)'
  BY NextOK, TasksOK DEF AgesInv
<1>3. TaskInv => OverlapOnlyWhenSlow
  BY DEF TaskInv
<1> QED  BY <1>1, <1>2, <1>3, InitOK, PTL DEF Spec
-----------------------------------------------------------------------------
(* Renewed.  While a renewal is due some revalidation will end in time: it   *)
(* builds the feed already, or asks for the lock early enough for whoever    *)
(* has it.  A lock that is held is one of a revalidation under way, or is    *)
(* older than the entry, and then it expires before the entry is stale.      *)
Renews(t, k) ==
    \/ work[t].at = "lock" /\ entry[k].age + 2 * MaxProduce <= LifeTime(k) + work[t].life
    \/ Building(t) /\ entry[k].age + MaxProduce <= LifeTime(k) + work[t].life

LockAccounted(k) ==
    k \in cached /\ lock[k] > 0 =>
      \/ lock[k] + entry[k].age <= LockTtl
      \/ renewal[k] = "failed"
      \/ \E t \in TasksOf(k) : Building(t)

DueOK(k) ==
    renewal[k] = "due" =>
      /\ k \in cached /\ entry[k].age > FreshTtl[k]
      /\ \E t \in TasksOf(k) : Renews(t, k)

RenewOK(k) == DueOK(k) /\ LockAccounted(k)
RenewInv == \A k \in Keys : RenewOK(k)

(* A step that leaves the entry and the lock of k alone, and every task of k *)
(* that was renewing it where it is or building.                             *)
LEMMA RenewingGoesOn ==
    ASSUME NEW k \in Keys, RenewOK(k),
           (k \in cached') <=> (k \in cached), entry'[k] = entry[k], lock'[k] = lock[k],
           renewal'[k] = renewal[k],
           \A t \in TasksOf(k) :
             \/ work'[t] = work[t]
             \/ work[t].at = "idle"
             \/ Building(t) /\ Building(t)' /\ work'[t].life = work[t].life
    PROVE  RenewOK(k)'
<1>1. TasksOf(k)' = TasksOf(k) /\ LifeTime(k)' = LifeTime(k)
  BY DEF TasksOf, LifeTime
<1>2. ASSUME NEW t \in TasksOf(k), Building(t) PROVE Building(t)'
  BY <1>2 DEF Building
<1>3. ASSUME NEW t \in TasksOf(k), Renews(t, k) PROVE Renews(t, k)'
  BY <1>1, <1>3 DEF Renews, Building
<1>4. DueOK(k)'
  BY <1>1, <1>3 DEF RenewOK, DueOK
<1>5. LockAccounted(k)'
  BY <1>1, <1>2 DEF RenewOK, LockAccounted
<1> QED BY <1>4, <1>5 DEF RenewOK

(* A step that fails a renewal, and one that writes the entry.              *)
LEMMA RenewalFailed ==
    ASSUME NEW k \in Keys, renewal'[k] = "failed" PROVE RenewOK(k)'
BY DEF RenewOK, DueOK, LockAccounted

LEMMA EntryWritten ==
    ASSUME NEW k \in Keys, TypeOK', renewal'[k] = "none", entry'[k].age = 0
    PROVE  RenewOK(k)'
<1>1. lock'[k] + entry'[k].age <= LockTtl
  BY TtlAssumption DEF TypeOK
<1> QED BY <1>1 DEF RenewOK, DueOK, LockAccounted

LEMMA Stored ==
    ASSUME TypeOK, TypeOK', NEW j \in Keys, NEW r, Store(j, r)
    PROVE  /\ RenewOK(j)'
           /\ \A k \in Keys : k # j => /\ (k \in cached') <=> (k \in cached)
                                       /\ entry'[k] = entry[k] /\ renewal'[k] = renewal[k]
           /\ cached \subseteq cached'
<1>1. CASE renewal' = [renewal EXCEPT ![j] = "failed"] /\ UNCHANGED <<cached, entry>>
  <2>1. renewal'[j] = "failed"
    BY <1>1 DEF TypeOK
  <2> QED BY <1>1, <2>1, RenewalFailed DEF TypeOK
<1>2. CASE /\ cached' = cached \cup {j}
           /\ entry' = [entry EXCEPT ![j] = [age |-> 0, own |-> r.own, items |-> r.items]]
           /\ renewal' = [renewal EXCEPT ![j] = "none"]
  <2>1. renewal'[j] = "none" /\ entry'[j].age = 0
    BY <1>2 DEF TypeOK
  <2> QED BY <1>2, <2>1, EntryWritten DEF TypeOK
<1> QED BY <1>1, <1>2 DEF Store

(* A stale answer starts a task that will renew the entry.                  *)
LEMMA RenewalStarted ==
    ASSUME TypeOK, RenewInv, NEW k \in Keys, NEW j \in Keys, NEW t \in TasksOf(j),
           Stale(j), work[t].at = "idle",
           work'[t] = Revalidating(j), renewal' = Promised(j),
           UNCHANGED <<cached, entry, lock>>,
           \A u \in TasksOf(k) :
             \/ work'[u] = work[u]
             \/ work[u].at = "idle"
             \/ Building(u) /\ Building(u)' /\ work'[u].life = work[u].life
    PROVE  RenewOK(k)'
<1>0. RenewOK(k)
  BY DEF RenewInv
<1>1. CASE renewal'[k] = renewal[k]
  BY <1>0, <1>1, RenewingGoesOn
<1>2. CASE renewal'[k] # renewal[k]
  <2>1. /\ k = j /\ renewal'[k] = "due"
        /\ entry[k].age + 2 * MaxProduce <= LifeTime(k)
    BY <1>2 DEF Promised, TypeOK
  <2>2. work'[t].at = "lock" /\ work'[t].life = 0
    BY DEF Revalidating, Response
  <2>3. entry[k].age \in Nat /\ LifeTime(k) \in Nat /\ MaxProduce \in Nat
    BY Bounds DEF TypeOK
  <2>4. Renews(t, k)' /\ t \in TasksOf(k)'
    BY <2>1, <2>2, <2>3 DEF Renews, LifeTime, TasksOf
  <2>5. DueOK(k)'
    BY <2>1, <2>4 DEF DueOK, Stale
  <2>6. LockAccounted(k)'
    <3>1. \A u \in TasksOf(k) : Building(u) => Building(u)'
      BY DEF Building
    <3> QED BY <1>0, <2>1, <3>1 DEF RenewOK, LockAccounted, TasksOf, Promised, TypeOK
  <2> QED BY <2>5, <2>6 DEF RenewOK
<1> QED BY <1>1, <1>2

LEMMA RenewalKept ==
    ASSUME AgesInv, TaskInv, RenewInv, TypeOK', [Next]_vars, NEW k \in Keys
    PROVE  RenewOK(k)'
<1>0. TypeOK /\ RenewOK(k)
  BY DEF AgesInv, RenewInv
<1>d. /\ \A t \in Tasks : t \in Workers
      /\ \A c \in Calls : c \notin Tasks
      /\ \A i \in Keys : \A t \in TasksOf(i) :
           t \in Tasks /\ \A j \in Keys : t \in TasksOf(j) => j = i
  BY WorkerAssumption DEF Workers, Tasks, TasksOf, Keys
<1>t. ASSUME NEW t \in TasksOf(k)
      PROVE  /\ t \in Workers /\ work[t] \in Responses
             /\ work[t].life \in Nat /\ work[t].life <= MaxProduce
             /\ work[t].at # "idle" => work[t].kind = k
  BY <1>0, <1>d DEF TypeOK, AgesInv, AgesOK, ResponseOK, TaskInv, Responses
<1>n. /\ MaxProduce \in Nat /\ LifeTime(k) \in Nat /\ entry[k].age \in Nat /\ lock[k] \in Nat
      /\ LockTtl \in Nat /\ FreshTtl[k] \in Nat /\ LockTtl <= FreshTtl[k]
  BY <1>0, Bounds, TtlAssumption DEF TypeOK
<1>1. ASSUME NEW j \in Keys, NEW t \in Tasks, AnswerStale(j, t) PROVE RenewOK(k)'
  <2>1. /\ \A u \in Workers : u # t => work'[u] = work[u]
        /\ work'[t] = Revalidating(j)
    BY <1>0, <1>1, <1>d DEF AnswerStale, TypeOK
  <2> QED BY <1>0, <1>1, <1>t, <2>1, RenewalStarted DEF AnswerStale
<1>2. ASSUME NEW c \in Calls, NEW j \in Keys, AskMiss(c, j) PROVE RenewOK(k)'
  BY <1>0, <1>2, <1>d, RenewingGoesOn DEF AskMiss, TypeOK
<1>3. ASSUME NEW c \in Calls, AskDebug(c) \/ AnswerDebug(c) PROVE RenewOK(k)'
  BY <1>0, <1>3, <1>d, RenewingGoesOn DEF AskDebug, AnswerDebug, TypeOK
<1>4. ASSUME NEW t \in Tasks, LoseLock(t) PROVE RenewOK(k)'
  <2>1. /\ UNCHANGED <<cached, entry, lock, renewal>>
        /\ work[t].at = "lock" /\ lock[work[t].kind] > 0
        /\ \A u \in TasksOf(k) : u # t => work'[u] = work[u]
    BY <1>0, <1>4, <1>d DEF LoseLock, TypeOK
  <2>2. \A u \in TasksOf(k) : Building(u) => Building(u)' /\ work'[u] = work[u]
    BY <2>1 DEF Building
  <2>3. LockAccounted(k)'
    BY <1>0, <2>1, <2>2 DEF RenewOK, LockAccounted, TasksOf
  <2>4. ASSUME renewal[k] = "due" PROVE \E u \in TasksOf(k) : Renews(u, k)'
    <3>1. PICK u \in TasksOf(k) : Renews(u, k)
      BY <1>0, <2>4 DEF RenewOK, DueOK
    <3>2. CASE u # t
      <4>1. Renews(u, k)'
        BY <2>1, <3>1, <3>2 DEF Renews, Building, LifeTime
      <4> QED BY <4>1
    <3>3. CASE u = t
      <4>1. work[t].kind = k /\ entry[k].age + 2 * MaxProduce <= LifeTime(k) + work[t].life
        BY <1>t, <2>1, <3>1, <3>3 DEF Renews, Building
      <4>2. k \in cached /\ entry[k].age > FreshTtl[k]
        BY <1>0, <2>4 DEF RenewOK, DueOK
      <4>3. ~(lock[k] + entry[k].age <= LockTtl)
        BY <1>n, <2>1, <4>1, <4>2
      <4>4. PICK v \in TasksOf(k) : Building(v)
        BY <1>0, <2>1, <2>4, <4>1, <4>2, <4>3 DEF RenewOK, LockAccounted
      <4>5. entry[k].age + MaxProduce <= LifeTime(k) + work[v].life
        BY <1>n, <1>t, <3>3, <4>1
      <4>6. Renews(v, k)'
        BY <2>1, <2>2, <4>4, <4>5 DEF Renews, LifeTime
      <4> QED BY <4>6
    <3> QED BY <3>2, <3>3
  <2>5. DueOK(k)'
    BY <1>0, <2>1, <2>4 DEF RenewOK, DueOK, TasksOf
  <2> QED BY <2>3, <2>5 DEF RenewOK
<1>5. ASSUME NEW t \in Tasks, LockFails(t) PROVE RenewOK(k)'
  <2>1. CASE work[t].kind = k
    <3>1. renewal'[k] = "failed"
      BY <1>0, <1>5, <2>1 DEF LockFails, TypeOK
    <3> QED BY <3>1, RenewalFailed
  <2>2. CASE work[t].kind # k
    <3>1. t \notin TasksOf(k)
      BY <1>5, <1>t, <2>2 DEF LockFails
    <3> QED BY <1>0, <1>5, <1>t, <2>2, <3>1, RenewingGoesOn DEF LockFails, TypeOK
  <2> QED BY <2>1, <2>2
<1>6. ASSUME NEW t \in Tasks, TakeLock(t) PROVE RenewOK(k)'
  <2>1. /\ UNCHANGED <<cached, entry, renewal>> /\ work[t].at = "lock"
        /\ \A u \in TasksOf(k) : u # t => work'[u] = work[u]
        /\ work'[t].life = work[t].life /\ work'[t].at = FirstStage(work[t].kind)
    BY <1>0, <1>6, <1>d DEF TakeLock, TypeOK, Responses
  <2>2. Building(t)'
    BY <2>1 DEF Building, FirstStage
  <2>3. ASSUME NEW u \in TasksOf(k), Renews(u, k) PROVE Renews(u, k)'
    <3>1. CASE u # t
      BY <2>1, <2>3, <3>1 DEF Renews, Building, LifeTime
    <3>2. CASE u = t
      <4>1. entry[k].age + MaxProduce <= LifeTime(k) + work[t].life
        BY <1>n, <1>t, <2>1, <2>3, <3>2 DEF Renews, Building
      <4> QED BY <2>1, <2>2, <3>2, <4>1 DEF Renews, LifeTime
    <3> QED BY <3>1, <3>2
  <2>4. DueOK(k)'
    BY <1>0, <2>1, <2>3 DEF RenewOK, DueOK, TasksOf
  <2>5. LockAccounted(k)'
    <3>1. CASE t \in TasksOf(k)
      BY <2>2, <3>1 DEF LockAccounted, TasksOf
    <3>2. CASE t \notin TasksOf(k)
      <4>1. PICK i \in Keys : t \in TasksOf(i)
        BY DEF Tasks, TasksOf, Keys
      <4>2. work[t].kind = i
        BY <2>1, <4>1 DEF TaskInv
      <4>3. lock'[k] = lock[k]
        BY <1>0, <1>6, <3>2, <4>1, <4>2 DEF TakeLock, TypeOK
      <4>4. \A u \in TasksOf(k) : Building(u) => Building(u)'
        BY <2>1, <3>2 DEF Building
      <4> QED BY <1>0, <2>1, <4>3, <4>4 DEF RenewOK, LockAccounted, TasksOf
    <3> QED BY <3>1, <3>2
  <2> QED BY <2>4, <2>5 DEF RenewOK
<1>7. ASSUME NEW w \in Workers, ReadOwn(w) \/ FallbackFresh(w) \/ FallbackMiss(w) \/ ReadItems(w)
      PROVE  RenewOK(k)'
  <2>1. /\ UNCHANGED <<cached, entry, lock, renewal>>
        /\ \A u \in Workers : u # w => work'[u] = work[u]
        /\ Building(w) /\ Building(w)'
    BY <1>0, <1>7 DEF ReadOwn, FallbackFresh, FallbackMiss, ReadItems, Building, TypeOK, Responses
  <2>2. work'[w].life = work[w].life
    BY <1>0, <1>7, BuildingGoesOn DEF TypeOK
  <2> QED BY <1>0, <1>t, <2>1, <2>2, RenewingGoesOn
<1>8. ASSUME NEW w \in Workers, InnerWrite(w) PROVE RenewOK(k)'
  <2>1. /\ lock' = lock /\ \A u \in Workers : u # w => work'[u] = work[u]
        /\ Building(w) /\ Building(w)'
        /\ Store("public", [own |-> 0, items |-> work[w].items])
    BY <1>0, <1>8 DEF InnerWrite, Building, TypeOK, Responses
  <2>2. work'[w].life = work[w].life
    BY <1>0, <1>8, BuildingGoesOn DEF TypeOK
  <2>3. "public" \in Keys
    BY DEF Keys
  <2> QED BY <1>0, <1>t, <2>1, <2>2, <2>3, Stored, RenewingGoesOn
<1>9. ASSUME NEW w \in Workers, Write(w) PROVE RenewOK(k)'
  <2>. PICK j \in Keys : j = work[w].kind
    BY <1>9 DEF Write
  <2>1. /\ lock' = lock /\ \A u \in Workers : u # w => work'[u] = work[u]
        /\ Store(j, work[w]) /\ work[w].at = "write"
    BY <1>0, <1>9 DEF Write, TypeOK
  <2>2. CASE k = j
    BY <1>0, <2>1, <2>2, Stored
  <2>3. CASE k # j
    <3>1. w \notin TasksOf(k)
      BY <1>t, <2>1, <2>3
    <3> QED BY <1>0, <1>t, <2>1, <2>3, <3>1, Stored, RenewingGoesOn
  <2> QED BY <2>2, <2>3
<1>10. ASSUME NEW w \in Workers, ProduceFails(w) PROVE RenewOK(k)'
  <2>1. /\ UNCHANGED <<cached, entry, lock>> /\ work[w].at # "idle"
        /\ \A u \in Workers : u # w => work'[u] = work[u]
        /\ renewal' = IF w \in Tasks THEN [renewal EXCEPT ![work[w].kind] = "failed"]
                                     ELSE renewal
    BY <1>0, <1>10 DEF ProduceFails, TypeOK
  <2>2. CASE w \in TasksOf(k)
    <3>1. renewal'[k] = "failed"
      BY <1>0, <1>d, <1>t, <2>1, <2>2 DEF TypeOK
    <3> QED BY <3>1, RenewalFailed
  <2>3. CASE w \notin TasksOf(k)
    <3>1. w \in Tasks => work[w].kind # k
      <4>1. ASSUME w \in Tasks PROVE work[w].kind # k
        <5>1. PICK i \in Keys : w \in TasksOf(i)
          BY <4>1 DEF Tasks, TasksOf, Keys
        <5>2. work[w].kind = i
          BY <2>1, <5>1 DEF TaskInv
        <5> QED BY <2>3, <5>1, <5>2
      <4> QED BY <4>1
    <3>2. renewal'[k] = renewal[k]
      BY <1>0, <2>1, <3>1 DEF TypeOK
    <3> QED BY <1>0, <1>t, <2>1, <2>3, <3>2, RenewingGoesOn
  <2> QED BY <2>2, <2>3
<1>11. ASSUME NEW w \in Workers, NEW t \in Tasks, FallbackStale(w, t) PROVE RenewOK(k)'
  <2>1. /\ UNCHANGED <<cached, entry, lock>> /\ w # t /\ t \in PublicTasks
        /\ Stale("public") /\ work[t].at = "idle" /\ renewal' = Promised("public")
        /\ work'[t] = Revalidating("public")
        /\ \A u \in Workers \ {w, t} : work'[u] = work[u]
        /\ Building(w) /\ Building(w)'
    BY <1>0, <1>11, <1>d DEF FallbackStale, Building, TypeOK, Responses
  <2>2. work'[w].life = work[w].life
    BY <1>0, <1>11, <2>1, BuildingGoesOn DEF TypeOK
  <2>3. "public" \in Keys /\ t \in TasksOf("public")
    BY <2>1 DEF Keys, TasksOf
  <2>4. \A u \in TasksOf(k) : \/ work'[u] = work[u] \/ work[u].at = "idle"
                              \/ Building(u) /\ Building(u)' /\ work'[u].life = work[u].life
    BY <1>t, <2>1, <2>2
  <2> QED BY <1>0, <2>1, <2>3, <2>4, RenewalStarted
<1>12. CASE Tick
  <2>1. ASSUME NEW t \in TasksOf(k), work[t].at # "idle"
        PROVE  /\ work[t].life < MaxProduce
               /\ work'[t].life = work[t].life + 1 /\ work'[t].at = work[t].at
    BY <1>12, <1>t, <2>1, OlderFields DEF Tick
  <2>2. \A t \in TasksOf(k) : Building(t) => Building(t)'
    BY <2>1 DEF Building
  <2>3. /\ (k \in cached') <=> (k \in cached /\ entry[k].age < LifeTime(k))
        /\ k \in cached' => entry'[k].age = entry[k].age + 1
        /\ lock'[k] = IF lock[k] > 0 THEN lock[k] - 1 ELSE 0
        /\ renewal'[k] = IF k \in cached' THEN renewal[k] ELSE "none"
    BY <1>12 DEF Tick, OlderEntry
  <2>4. DueOK(k)'
    <3>1. CASE k \in cached' /\ renewal[k] = "due"
      <4>1. PICK t \in TasksOf(k) : Renews(t, k)
        BY <1>0, <3>1 DEF RenewOK, DueOK
      <4>2. Renews(t, k)'
        BY <1>n, <1>t, <2>1, <2>3, <3>1, <4>1 DEF Renews, Building, LifeTime
      <4> QED BY <1>0, <1>n, <2>3, <3>1, <4>2 DEF RenewOK, DueOK, TasksOf
    <3>2. CASE ~(k \in cached' /\ renewal[k] = "due")
      BY <2>3, <3>2 DEF DueOK
    <3> QED BY <3>1, <3>2
  <2>5. LockAccounted(k)'
    BY <1>0, <1>n, <2>2, <2>3 DEF RenewOK, LockAccounted, TasksOf
  <2> QED BY <2>4, <2>5 DEF RenewOK
<1>13. CASE UNCHANGED vars
  BY <1>0, <1>13, RenewingGoesOn DEF vars
<1> QED
  BY <1>1, <1>2, <1>3, <1>4, <1>5, <1>6, <1>7, <1>8, <1>9, <1>10, <1>11, <1>12, <1>13
     DEF Next

(* An entry whose renewal is due outlives the step, since time passes only  *)
(* while no response has used up its time.                                  *)
LEMMA DueIsKept ==
    ASSUME AgesInv, RenewInv, [Next]_vars, NEW k \in cached, renewal[k] = "due"
    PROVE  k \in cached'
<1>0. TypeOK /\ k \in Keys /\ RenewOK(k)
  BY DEF AgesInv, TypeOK, RenewInv
<1>1. CASE Tick
  <2>1. PICK t \in TasksOf(k) : Renews(t, k)
    BY <1>0 DEF RenewOK, DueOK
  <2>2. t \in Workers /\ work[t].at # "idle" /\ work[t].life \in Nat
    BY <1>0, <2>1 DEF Renews, Building, TasksOf, Workers, Tasks, TypeOK, Responses
  <2>3. work[t].life < MaxProduce
    BY <1>1, <2>2 DEF Tick
  <2>4. entry[k].age \in Nat /\ LifeTime(k) \in Nat /\ MaxProduce \in Nat
    BY <1>0, Bounds DEF TypeOK
  <2>5. entry[k].age < LifeTime(k)
    BY <2>1, <2>2, <2>3, <2>4 DEF Renews
  <2> QED BY <1>1, <2>5 DEF Tick
<1>2. CASE ~Tick
  BY <1>2 DEF Next, vars, AnswerStale, AskMiss, AskDebug, AnswerDebug, TakeLock, LoseLock,
              LockFails, ReadOwn, FallbackFresh, FallbackMiss, ReadItems, InnerWrite, Write,
              Store, ProduceFails, FallbackStale
<1> QED BY <1>1, <1>2

(* An entry that is asked for while stale, early enough for a renewal to end *)
(* in time, does not expire unless a step of the renewal failed, for any    *)
(* requests, revalidations, TTLs and faults.                                *)
THEOREM StaleFeedsAreRenewed == Spec => Renewed
<1>1. Init => RenewInv
  BY DEF Init, RenewInv, RenewOK, DueOK, LockAccounted
<1>2. Init => TaskInv
  <2> SUFFICES ASSUME Init PROVE TaskInv
    OBVIOUS
  <2>1. \A k \in Keys : \A t \in TasksOf(k) : work[t].at = "idle"
    BY DEF Init, Idle, Response, TasksOf, Workers, Tasks
  <2> QED  BY <2>1 DEF TaskInv, Building, OverlapOnlyWhenSlow
<1> DEFINE Inv == AgesInv /\ TaskInv /\ RenewInv
<1>3. Inv /\ [Next]_vars => Inv'
  <2> SUFFICES ASSUME Inv, [Next]_vars PROVE Inv'
    OBVIOUS
  <2>1. AgesInv'
    BY NextOK DEF AgesInv
  <2>2. TaskInv'
    BY <2>1, TasksOK DEF AgesInv
  <2>3. RenewInv'
    BY <2>1, RenewalKept DEF RenewInv, AgesInv
  <2> QED BY <2>1, <2>2, <2>3
<1> DEFINE Kept == \A k \in cached : renewal[k] = "due" => k \in cached'
<1>4. Inv /\ [Next]_vars => [Kept]_vars
  BY DueIsKept
<1> QED BY <1>1, <1>2, <1>3, <1>4, InitOK, PTL DEF Spec, Renewed

-----------------------------------------------------------------------------
(* The for-you feed.                                                         *)

(* before is a strict order in which any two items of S can be compared. *)
Orders(before, S) ==
    /\ \A p \in S : ~before[p][p]
    /\ \A p, q \in S : p # q => before[p][q] \/ before[q][p]
    /\ \A p, q, r \in S : before[p][q] /\ before[q][r] => before[p][r]

Listing(list, S, before) ==
    /\ list \in [1..Cardinality(S) -> S]
    /\ \A i, j \in DOMAIN list : i < j => before[list[i]][list[j]]

(* The items of S before p: one more than before any of them. *)
LEMMA EarlierHaveFewer ==
    ASSUME NEW S, IsFiniteSet(S), NEW before, Orders(before, S),
           NEW p \in S, NEW q \in S, before[p][q]
    PROVE  Cardinality({r \in S : before[r][p]}) < Cardinality({r \in S : before[r][q]})
<1> DEFINE A == {r \in S : before[r][p]}
           B == {r \in S : before[r][q]}
<1>1. A \subseteq S /\ B \subseteq S /\ p \notin A
  BY DEF Orders
<1>2. A \cup {p} \subseteq B
  BY DEF Orders
<1>3. IsFiniteSet(A) /\ IsFiniteSet(B)
  BY <1>1, FS_Subset
<1> HIDE DEF A, B
<1>4. Cardinality(A \cup {p}) = Cardinality(A) + 1 /\ Cardinality(A) \in Nat /\ Cardinality(B) \in Nat
  BY <1>1, <1>3, FS_AddElement, FS_CardinalityType
<1>5. Cardinality(A \cup {p}) <= Cardinality(B)
  BY <1>2, <1>3, FS_Subset
<1> QED BY <1>4, <1>5 DEF A, B

LEMMA ListingExists ==
    ASSUME NEW S, IsFiniteSet(S), NEW before, Orders(before, S)
    PROVE  \E list : Listing(list, S, before)
<1> DEFINE n == Cardinality(S)
           rank == [p \in S |-> Cardinality({r \in S : before[r][p]}) + 1]
<1>1. n \in Nat
  BY FS_CardinalityType
<1>2. ASSUME NEW p \in S PROVE rank[p] \in 1..n
  <2> DEFINE A == {r \in S : before[r][p]}
  <2>1. A \subseteq S /\ p \in S \ A
    BY DEF Orders
  <2> HIDE DEF A
  <2>2. IsFiniteSet(A) /\ Cardinality(A) \in Nat /\ Cardinality(A) <= n /\ Cardinality(A) # n
    BY <2>1, FS_Subset, FS_CardinalityType
  <2>3. Cardinality(A) + 1 \in 1..n
    BY <1>1, <2>2
  <2> QED BY <2>3 DEF A
<1>3. ASSUME NEW p \in S, NEW q \in S, before[p][q] PROVE rank[p] < rank[q]
  <2> DEFINE a == Cardinality({r \in S : before[r][p]})
             b == Cardinality({r \in S : before[r][q]})
  <2>1. a < b
    BY <1>3, EarlierHaveFewer
  <2>2. rank[p] = a + 1 /\ rank[q] = b + 1
    OBVIOUS
  <2>3. a \in Nat /\ b \in Nat
    <3>1. {r \in S : before[r][p]} \subseteq S /\ {r \in S : before[r][q]} \subseteq S
      OBVIOUS
    <3> QED BY <3>1, FS_Subset, FS_CardinalityType
  <2> HIDE DEF a, b, rank
  <2> QED BY <2>1, <2>2, <2>3
<1>4. rank \in [S -> 1..n]
  BY <1>2
<1> HIDE DEF rank
<1>5. ASSUME NEW p \in S, NEW q \in S, rank[p] = rank[q] PROVE p = q
  <2>1. CASE before[p][q] \/ before[q][p]
    BY <1>1, <1>3, <1>4, <1>5, <2>1
  <2> QED BY <2>1 DEF Orders
<1>6. rank \in Injection(S, 1..n)
  BY <1>4, <1>5 DEF Injection, IsInjective
<1>7. IsFiniteSet(1..n) /\ Cardinality(1..n) = n
  BY <1>1, FS_Interval
<1>8. rank \in Surjection(S, 1..n)
  BY <1>6, <1>7, FS_Injection
<1>9. \A i \in 1..n : \E p \in S : rank[p] = i
  BY <1>8 DEF Surjection
<1> DEFINE list == [i \in 1..n |-> CHOOSE p \in S : rank[p] = i]
<1>10. ASSUME NEW i \in 1..n PROVE list[i] \in S /\ rank[list[i]] = i
  BY <1>9
<1>11. list \in [1..n -> S]
  BY <1>10
<1>12. ASSUME NEW i \in 1..n, NEW j \in 1..n, i < j PROVE before[list[i]][list[j]]
  <2> DEFINE p == list[i]
             q == list[j]
  <2>1. p \in S /\ q \in S /\ rank[p] = i /\ rank[q] = j
    BY <1>10
  <2> HIDE DEF list, p, q
  <2>2. p # q /\ ~ before[q][p]
    BY <1>1, <1>3, <1>12, <2>1
  <2>3. before[p][q]
    BY <2>1, <2>2 DEF Orders
  <2> QED BY <2>3 DEF p, q
<1> HIDE DEF list
<1>13. Listing(list, S, before)
  BY <1>11, <1>12 DEF Listing
<1> QED BY <1>13

(* Ordered(S, before) has every item of S, once, in that order. *)
LEMMA OrderedLists ==
    ASSUME NEW S, IsFiniteSet(S), NEW before, Orders(before, S), NEW list,
           list = Ordered(S, before)
    PROVE  /\ Listing(list, S, before) /\ list \in Seq(S) /\ Len(list) = Cardinality(S)
           /\ \A i, j \in DOMAIN list : list[i] = list[j] => i = j
           /\ Range(list) = S
<1> DEFINE n == Cardinality(S)
<1>1. n \in Nat
  BY FS_CardinalityType
<1>2. Listing(list, S, before)
  BY ListingExists DEF Ordered, Listing
<1>3. list \in [1..n -> S]
  BY <1>2 DEF Listing
<1>4. list \in Seq(S) /\ Len(list) = n /\ DOMAIN list = 1..n
  BY <1>1, <1>3
<1>5. ASSUME NEW i \in 1..n, NEW j \in 1..n, list[i] = list[j] PROVE i = j
  <2>1. CASE i < j
    BY <1>2, <1>3, <1>4, <1>5, <2>1 DEF Listing, Orders
  <2>2. CASE j < i
    BY <1>2, <1>3, <1>4, <1>5, <2>2 DEF Listing, Orders
  <2> QED BY <1>1, <2>1, <2>2
<1>6. list \in Injection(1..n, S)
  BY <1>3, <1>5 DEF Injection, IsInjective
<1>7. IsFiniteSet(1..n) /\ Cardinality(1..n) = n
  BY <1>1, FS_Interval
<1>8. list \in Surjection(1..n, S)
  BY <1>6, <1>7, FS_Injection
<1>9. Range(list) = S
  BY <1>4, <1>8 DEF Surjection, Range
<1> QED BY <1>2, <1>4, <1>5, <1>9

-----------------------------------------------------------------------------
(* The feeds. *)
Scores == [Posts -> Int]
Profiles == [Topics -> Int \cup {None}]

LEMMA ScoreOrders ==
    ASSUME NEW sc \in Scores, NEW S \in SUBSET Posts
    PROVE  Orders(ByScore(sc), S) /\ Orders(ByAge, S)
<1> DEFINE score1 == ByScore(sc)
           age == ByAge
<1>1. ASSUME NEW p \in Posts, NEW q \in Posts
      PROVE  /\ score1[p][q] <=> (sc[p] > sc[q] \/ (sc[p] = sc[q] /\ CreatedAt[p] > CreatedAt[q]))
             /\ age[p][q] <=> CreatedAt[p] > CreatedAt[q]
  BY DEF ByScore, Precedes, ByAge
<1>2. ASSUME NEW p \in Posts PROVE sc[p] \in Int /\ CreatedAt[p] \in Int
  BY PostAssumption DEF Scores
<1>3. \A p, q \in Posts : p # q => CreatedAt[p] # CreatedAt[q]
  BY PostAssumption
<1> HIDE DEF score1, age
<1>4. Orders(score1, S)
  <2>1. \A p \in S : ~score1[p][p]
    BY <1>1, <1>2
  <2>2. \A p, q \in S : p # q => score1[p][q] \/ score1[q][p]
    BY <1>1, <1>2, <1>3
  <2>3. \A p, q, r \in S : score1[p][q] /\ score1[q][r] => score1[p][r]
    BY <1>1, <1>2
  <2> QED BY <2>1, <2>2, <2>3 DEF Orders
<1>5. Orders(age, S)
  <2>1. \A p \in S : ~age[p][p]
    BY <1>1, <1>2
  <2>2. \A p, q \in S : p # q => age[p][q] \/ age[q][p]
    BY <1>1, <1>2, <1>3
  <2>3. \A p, q, r \in S : age[p][q] /\ age[q][r] => age[p][r]
    BY <1>1, <1>2
  <2> QED BY <2>1, <2>2, <2>3 DEF Orders
<1> QED BY <1>4, <1>5 DEF score1, age

(* What a list is that is made by Ordered, from items of Posts. *)
LEMMA RankedLists ==
    ASSUME NEW sc \in Scores, NEW S \in SUBSET Posts, NEW list,
           list \in {RankedBy(S, sc), Newest(S)}
    PROVE  /\ list \in Seq(S) /\ list \in Seq(Posts) /\ Range(list) = S
           /\ \A i, j \in DOMAIN list : list[i] = list[j] => i = j
           /\ Take(list) \subseteq S
<1>1. IsFiniteSet(S)
  BY PostAssumption, FS_Subset
<1>2. /\ list \in Seq(S) /\ Range(list) = S
      /\ \A i, j \in DOMAIN list : list[i] = list[j] => i = j
  <2>1. CASE list = RankedBy(S, sc)
    <3> DEFINE before == ByScore(sc)
    <3>1. Orders(before, S) /\ list = Ordered(S, before)
      BY <2>1, ScoreOrders DEF RankedBy
    <3> HIDE DEF before
    <3> QED BY <1>1, <3>1, OrderedLists
  <2>2. CASE list = Newest(S)
    <3> DEFINE before == ByAge
    <3>1. Orders(before, S) /\ list = Ordered(S, before)
      BY <2>2, ScoreOrders DEF Newest
    <3> HIDE DEF before
    <3> QED BY <1>1, <3>1, OrderedLists
  <2> QED BY <2>1, <2>2
<1>3. list \in Seq(Posts)
  BY <1>2
<1>4. Take(list) \subseteq S
  BY <1>2, PostAssumption DEF Take
<1> QED BY <1>2, <1>3, <1>4

LEMMA FinalScores ==
    ASSUME NEW sc \in Scores, NEW S \in SUBSET Posts
    PROVE  \E fs \in Scores : Diversified(S, sc) = RankedBy(S, fs)
<1> DEFINE better(p) == {q \in S : AuthorOf[q] = AuthorOf[p] /\ Precedes(sc, q, p)}
           fs == [p \in Posts |-> sc[p] - 125 * Cardinality(better(p))]
<1>1. ASSUME NEW p \in Posts PROVE fs[p] \in Int
  <2>1. better(p) \subseteq Posts
    OBVIOUS
  <2>2. Cardinality(better(p)) \in Nat
    BY <2>1, PostAssumption, FS_Subset, FS_CardinalityType
  <2>3. fs[p] = sc[p] - 125 * Cardinality(better(p)) /\ sc[p] \in Int
    BY DEF Scores
  <2> HIDE DEF fs, better
  <2> QED BY <2>2, <2>3
<1>2. fs \in Scores
  BY <1>1 DEF Scores
<1>3. Diversified(S, sc) = RankedBy(S, fs)
  BY DEF Diversified
<1> HIDE DEF fs
<1> QED BY <1>2, <1>3

LEMMA PersonalScores ==
    ASSUME score \in Scores, NEW w, w.profiles \in Profiles
    PROVE  Personal(w) \in Scores
<1> DEFINE liked(p) == IF w.profiles[TopicOf[p]] = None THEN 0 ELSE 8 * w.profiles[TopicOf[p]]
           value(p) == score[p] + (IF liked(p) > 1000 THEN 1000 ELSE liked(p))
                       + (IF AuthorOf[p] \in w.follows THEN 350 ELSE 0)
<1>1. ASSUME NEW p \in Posts PROVE value(p) \in Int
  <2>1. w.profiles[TopicOf[p]] \in Int \cup {None} /\ score[p] \in Int
    BY PostAssumption DEF Profiles, Scores
  <2>2. liked(p) \in Int
    BY <2>1
  <2> HIDE DEF liked
  <2> QED BY <2>1, <2>2
<1>2. Personal(w) = [p \in Posts |-> value(p)]
  BY DEF Personal
<1> HIDE DEF value
<1> QED BY <1>1, <1>2 DEF Scores

(* A for-you feed shows none of the posts that its request has read as      *)
(* hidden; both feeds show only listed posts, and none twice.               *)
LEMMA FeedLists ==
    ASSUME score \in Scores, NEW w, w.profiles \in Profiles
    PROVE  LET feed == Feed(w)
           IN  /\ feed \in Seq(Posts) /\ Range(feed) \subseteq Listed
               /\ \A i, j \in DOMAIN feed : feed[i] = feed[j] => i = j
               /\ ~IsFallback(w) => Range(feed) \cap w.hidden = {}
<1>1. CASE IsFallback(w)
  <2> DEFINE S == Listed \cap Trending
  <2>1. S \in SUBSET Posts
    BY DEF Listed
  <2>2. Feed(w) = RankedBy(S, score)
    BY <1>1 DEF Feed
  <2>3. S \subseteq Listed
    OBVIOUS
  <2> HIDE DEF S
  <2>4. /\ Feed(w) \in Seq(Posts) /\ Range(Feed(w)) = S
        /\ \A i, j \in DOMAIN Feed(w) : Feed(w)[i] = Feed(w)[j] => i = j
    BY <2>1, <2>2, RankedLists
  <2> QED BY <1>1, <2>3, <2>4
<1>2. CASE ~IsFallback(w)
  <2> DEFINE S == Candidates(w)
             seen == Listed \ w.hidden
  <2>1. S \subseteq seen
    <3> DEFINE liked == {p \in seen : w.profiles[TopicOf[p]] # None /\ w.profiles[TopicOf[p]] > 0}
               authored == {p \in seen : AuthorOf[p] \in w.follows}
    <3>1. seen \in SUBSET Posts /\ liked \in SUBSET Posts /\ authored \in SUBSET Posts
          /\ seen \cap Trending \in SUBSET Posts
      BY DEF Listed
    <3>2. /\ Take(RankedBy(liked, score)) \subseteq liked
          /\ Take(Newest(authored)) \subseteq authored
          /\ Take(RankedBy(seen \cap Trending, score)) \subseteq seen
          /\ Take(Newest(seen)) \subseteq seen
      <4> HIDE DEF liked, authored, seen
      <4> QED BY <3>1, RankedLists
    <3>3. S = Take(RankedBy(liked, score)) \cup Take(Newest(authored))
              \cup Take(RankedBy(seen \cap Trending, score)) \cup Take(Newest(seen))
      BY DEF Candidates
    <3>4. liked \subseteq seen /\ authored \subseteq seen
      OBVIOUS
    <3> HIDE DEF liked, authored, seen, S
    <3> QED BY <3>2, <3>3, <3>4
  <2>2. S \in SUBSET Posts /\ Feed(w) = Diversified(S, Personal(w))
    BY <1>2, <2>1 DEF Listed, Feed
  <2>3. PICK fs \in Scores : Feed(w) = RankedBy(S, fs)
    BY <2>2, PersonalScores, FinalScores
  <2> HIDE DEF S
  <2>4. /\ Feed(w) \in Seq(Posts) /\ Range(Feed(w)) = S
        /\ \A i, j \in DOMAIN Feed(w) : Feed(w)[i] = Feed(w)[j] => i = j
    BY <2>2, <2>3, RankedLists
  <2> QED BY <1>2, <2>1, <2>4
<1> QED BY <1>1, <1>2
-----------------------------------------------------------------------------
(* The states. *)
Events == [post : Posts, type : EventTypes]
CallStages == {"new", "resolve", "insert", "upsert", "source", "done", "failed"}
SignalStages == {"source", "resolve", "insert", "upsert"}
CallStates ==
    [at : CallStages, events : SUBSET Events,
     todo : SUBSET Rows, row : Profiles, creator : Creators \cup {None}]

Maybe(S) == S \cup {None}
Walks ==
    [at : {"rest", "reading", "end"}, profiles : Maybe(Profiles),
     follows : Maybe(SUBSET Creators), hidden : Maybe(SUBSET Posts),
     before : SUBSET Posts, page : Seq(Posts), shown : Seq(Posts),
     cursor : Maybe(Posts), calm : BOOLEAN]

ForYouTypeOK ==
    /\ posts \in [Posts -> {"listed", "private", "gone"}]
    /\ score \in Scores /\ profile \in Profiles
    /\ hidden \subseteq Posts /\ follows \subseteq Creators
    /\ rowLock \in [Rows -> UserCalls \cup {None}]
    /\ call \in [UserCalls -> CallStates]
    /\ walk \in Walks
    /\ given \in [Topics -> Int] /\ signals \in Int

(* A score that is written and not committed is still the right one: it    *)
(* counts the points that are there, because its row is locked.            *)
WrittenOK ==
    \A c \in UserCalls : \A t \in Topics : call[c].row[t] # None =>
      /\ call[c].at = "upsert" /\ rowLock[t] = c
      /\ call[c].row[t] = Points(t) + TotalWeight(call[c].events, t)

(* No event of a batch is forgotten. *)
PlannedOK ==
    \A c \in UserCalls : call[c].at \in {"insert", "upsert"} =>
      \A e \in call[c].events :
        TopicOf[e.post] \in call[c].todo \/ call[c].row[TopicOf[e.post]] # None

Signalling == {c \in UserCalls : call[c].creator # None /\ call[c].at \in SignalStages}

SignalsOK ==
    /\ signals >= Cardinality(Signalling)
    /\ \A c \in UserCalls : call[c].at = "new" => call[c] = Unused

(* A hidden post has a profile, and a page being read will know of both.   *)
HiddenOK ==
    /\ \A p \in hidden : profile[TopicOf[p]] # None
    /\ walk.at = "reading" => \A p \in walk.before :
         /\ profile[TopicOf[p]] # None
         /\ walk.profiles # None => walk.profiles[TopicOf[p]] # None
         /\ p \in hidden \/ posts[p] = "gone"
         /\ walk.hidden # None => p \in walk.hidden \/ posts[p] = "gone"

(* What a request reads that is not disturbed, and the feed it makes. *)
Now == [profiles |-> profile, follows |-> follows, hidden |-> hidden]

(* The pages so far are the first items of the feed, and the next page     *)
(* starts after them.                                                      *)
PagesOK ==
    walk.calm =>
      /\ walk.profiles \in {None, profile} /\ walk.follows \in {None, follows}
      /\ walk.hidden \in {None, hidden}
      /\ Len(walk.shown) <= Len(Feed(Now))
      /\ \A i \in 1..Len(walk.shown) : walk.shown[i] = Feed(Now)[i]
      /\ walk.at # "end" =>
           /\ walk.cursor = IF walk.shown = <<>> THEN None ELSE walk.shown[Len(walk.shown)]
           /\ walk.shown # <<>> => Len(walk.shown) < Len(Feed(Now))
      /\ walk.at = "end" =>
           /\ None \notin {walk.profiles, walk.follows, walk.hidden}
           /\ Len(walk.shown) = Len(Feed(Now))

-----------------------------------------------------------------------------
(* The events of a batch and their weight. *)

LEMMA EventsFinite == ASSUME NEW S \in SUBSET Events PROVE IsFiniteSet(S)
<1>1. IsFiniteSet(EventTypes)
  <2> DEFINE A == {"IMPRESSION", "OPEN_POST", "WATCH_3S", "WATCH_50"}
             B == {"LIKE", "COMMENT", "HIDE", "FOLLOW_CREATOR"}
  <2>1. A = (({"IMPRESSION"} \cup {"OPEN_POST"}) \cup {"WATCH_3S"}) \cup {"WATCH_50"}
        /\ B = (({"LIKE"} \cup {"COMMENT"}) \cup {"HIDE"}) \cup {"FOLLOW_CREATOR"}
        /\ EventTypes = A \cup B
    BY DEF EventTypes
  <2> HIDE DEF A, B
  <2>2. IsFiniteSet(A) /\ IsFiniteSet(B)
    BY <2>1, FS_Singleton, FS_Union
  <2> QED BY <2>1, <2>2, FS_Union
<1>2. IsFiniteSet(Posts \X EventTypes)
  BY <1>1, PostAssumption, FS_Product
<1> DEFINE event == [x \in Posts \X EventTypes |-> [post |-> x[1], type |-> x[2]]]
<1>3. ASSUME NEW e \in Events PROVE \E x \in Posts \X EventTypes : event[x] = e
  <2>1. <<e.post, e.type>> \in Posts \X EventTypes /\ e = [post |-> e.post, type |-> e.type]
    BY DEF Events
  <2>2. event[<<e.post, e.type>>] = [post |-> e.post, type |-> e.type]
    BY <2>1
  <2> QED BY <2>1, <2>2
<1>4. event \in [Posts \X EventTypes -> Events]
  BY DEF Events
<1> HIDE DEF event
<1>5. event \in Surjection(Posts \X EventTypes, Events)
  BY <1>3, <1>4 DEF Surjection
<1>6. IsFiniteSet(Events)
  BY <1>2, <1>5, FS_Surjection
<1> QED BY <1>6, FS_Subset

LEMMA TotalWeightType ==
    ASSUME NEW events \in SUBSET Events, NEW t \in Topics
    PROVE  /\ TotalWeight(events, t) \in Int
           /\ EventsOf(events, t) = {} => TotalWeight(events, t) = 0
<1> DEFINE S == EventsOf(events, t)
           f == [e \in events |-> Weight(e.type)]
<1>1. S \subseteq events
  BY DEF EventsOf
<1>2. IsFiniteSet(S)
  BY <1>1, EventsFinite
<1>3. ASSUME NEW e \in S PROVE f[e] \in Int
  <2>1. e \in events /\ e.type \in EventTypes
    BY <1>1 DEF Events
  <2>2. Weight(e.type) \in Int
    BY <2>1 DEF Weight, EventTypes
  <2> QED BY <2>1, <2>2
<1>4. TotalWeight(events, t) = SumFunctionOnSet(f, S)
  BY DEF TotalWeight
<1> HIDE DEF f
<1>5. SumFunctionOnSet(f, S) \in Int
  <2> HIDE DEF S
  <2> QED BY <1>2, <1>3, SumType
<1>6. S = {} => SumFunctionOnSet(f, S) = 0
  BY SumEmpty
<1> QED BY <1>4, <1>5, <1>6

(* Where a page starts. *)
LEMMA StartType ==
    ASSUME NEW w, NEW feed \in Seq(Posts)
    PROVE  Start(w, feed) \in 1..(Len(feed) + 1)
<1> DEFINE at == {i \in DOMAIN feed : feed[i] = w.cursor}
           upTo == {i \in DOMAIN feed :
                      feed[i] = w.cursor \/ Precedes(score, feed[i], w.cursor)}
           n == Len(feed)
<1>1. n \in Nat /\ DOMAIN feed = 1..n
  OBVIOUS
<1>2. upTo \subseteq 1..n /\ at \subseteq 1..n
  BY <1>1
<1>3. Cardinality(upTo) \in 0..n
  <2>1. IsFiniteSet(1..n) /\ Cardinality(1..n) = n
    BY <1>1, FS_Interval
  <2> HIDE DEF upTo, n
  <2>2. IsFiniteSet(upTo) /\ Cardinality(upTo) \in Nat /\ Cardinality(upTo) <= n
    BY <1>2, <2>1, FS_Subset, FS_CardinalityType
  <2> QED BY <1>1, <2>2
<1>4. at # {} => (CHOOSE i \in at : TRUE) \in at
  OBVIOUS
<1>5. Start(w, feed) = IF w.cursor = None THEN 1
        ELSE IF ~IsFallback(w)
          THEN IF at = {} THEN 1 ELSE 1 + (CHOOSE i \in at : TRUE)
        ELSE IF w.cursor \notin Listed THEN n + 1
        ELSE 1 + Cardinality(upTo)
  BY DEF Start
<1> DEFINE place == CHOOSE i \in at : TRUE
           k == Cardinality(upTo)
<1> HIDE DEF at, upTo, place, k
<1>6. at # {} => place \in 1..n
  BY <1>2, <1>4 DEF place
<1>7. k \in 0..n
  BY <1>3 DEF k
<1>8. Start(w, feed) \in {1, 1 + place, n + 1, 1 + k}
      /\ (Start(w, feed) = 1 + place => at # {} \/ Start(w, feed) \in {1, n + 1, 1 + k})
  BY <1>5 DEF place, k
<1> HIDE DEF n
<1>9. Start(w, feed) \in 1..(n + 1)
  BY <1>1, <1>6, <1>7, <1>8
<1> QED BY <1>9 DEF n

(* What AnswerPage does: it cuts the page start..last from the feed. *)
Cut(feed, start, last, page, more) ==
    /\ feed \in Seq(Posts) /\ page \in Seq(Posts) /\ start \in Nat /\ last \in Nat
    /\ start = Start(walk, feed) /\ start \in 1..(Len(feed) + 1)
    /\ more = (start + Limit <= Len(feed))
    /\ last = IF more THEN start + Limit - 1 ELSE Len(feed)
    /\ Len(page) = last - start + 1 /\ Range(page) \subseteq Range(feed)
    /\ \A i \in 1..Len(page) : page[i] = feed[start - 1 + i]
    /\ walk' = [walk EXCEPT !.at = IF more THEN "rest" ELSE "end",
                            !.page = page,
                            !.shown = IF walk.calm THEN @ \o page ELSE @,
                            !.cursor = IF more THEN page[Len(page)] ELSE None]

LEMMA Answered ==
    ASSUME ForYouTypeOK, AnswerPage
    PROVE  \E start, last, page, more : Cut(Feed(walk), start, last, page, more)
<1> DEFINE feed == Feed(walk)
           start == Start(walk, feed)
           more == start + Limit <= Len(feed)
           last == IF more THEN start + Limit - 1 ELSE Len(feed)
           page == SubSeq(feed, start, last)
<1>1. score \in Scores /\ walk.profiles \in Profiles
  BY DEF ForYouTypeOK, Walks, Maybe, AnswerPage
<1>2. feed \in Seq(Posts)
  BY <1>1, FeedLists
<1>3. start \in 1..(Len(feed) + 1)
  <2> HIDE DEF feed
  <2> QED BY <1>2, StartType
<1>4. walk' = [walk EXCEPT !.at = IF more THEN "rest" ELSE "end",
                           !.page = page,
                           !.shown = IF walk.calm THEN @ \o page ELSE @,
                           !.cursor = IF more THEN page[Len(page)] ELSE None]
  BY DEF AnswerPage
<1> HIDE DEF feed, start
<1>5. more \in BOOLEAN /\ start \in Nat /\ last \in Nat /\ last - start + 1 \in Nat /\ last <= Len(feed)
  BY <1>2, <1>3, PostAssumption
<1> HIDE DEF last
<1>6. /\ page \in Seq(Posts) /\ Len(page) = last - start + 1
      /\ \A i \in 1..Len(page) : page[i] = feed[start - 1 + i]
  BY <1>2, <1>3, <1>5, SubSeqProperties
<1>7. Range(page) \subseteq Range(feed)
  BY <1>2, <1>3, <1>5, <1>6 DEF Range
<1>8. start = Start(walk, feed)
  BY DEF start
<1>9. last = IF more THEN start + Limit - 1 ELSE Len(feed)
  BY DEF last
<1>10. more = (start + Limit <= Len(feed))
  OBVIOUS
<1> HIDE DEF page, more
<1>11. Cut(feed, start, last, page, more)
  BY <1>2, <1>3, <1>4, <1>5, <1>6, <1>7, <1>8, <1>9, <1>10 DEF Cut
<1> QED BY <1>11 DEF feed

-----------------------------------------------------------------------------
LEMMA Maybes == ASSUME NEW S PROVE None \in Maybe(S) /\ \A x \in S : x \in Maybe(S)
BY DEF Maybe

(* Every step leaves the walk alone, disturbs it or goes on with it. *)
LEMMA WalkTypes ==
    ASSUME ForYouTypeOK
    PROVE  Disturbed \in Walks /\ NewWalk \in Walks
<1>1. walk \in Walks
  BY DEF ForYouTypeOK
<1>2. <<>> \in Seq(Posts)
  OBVIOUS
<1> DEFINE none == <<>>
           nobody == {}
<1>3. none \in Seq(Posts) /\ nobody \in SUBSET Posts
  BY <1>2
<1> HIDE DEF none, nobody
<1>4. [walk EXCEPT !.calm = FALSE, !.shown = none] \in Walks
  BY <1>1, <1>3 DEF Walks
<1>5. [at |-> "rest", profiles |-> None, follows |-> None, hidden |-> None, before |-> nobody,
       page |-> none, shown |-> none, cursor |-> None, calm |-> TRUE] \in Walks
  BY <1>3, Maybes DEF Walks
<1> QED BY <1>4, <1>5 DEF none, nobody, Disturbed, NewWalk

LEMMA CallTypes ==
    ASSUME NEW s \in CallStates
    PROVE  /\ \A at \in CallStages : [s EXCEPT !.at = at] \in CallStates
           /\ \A at \in CallStages, events \in SUBSET Events :
                [s EXCEPT !.at = at, !.events = events] \in CallStates
           /\ \A at \in CallStages, events \in SUBSET Events, todo \in SUBSET Rows :
                [s EXCEPT !.at = at, !.events = events, !.todo = todo] \in CallStates
           /\ \A row \in Profiles, todo \in SUBSET Rows :
                [s EXCEPT !.todo = todo, !.row = row] \in CallStates
BY DEF CallStates

LEMMA UnusedType == Unused \in CallStates
BY DEF Unused, CallStates, CallStages, NoRows, Profiles

LEMMA TypesKept == ForYouTypeOK /\ [ForYouNext]_forYouVars => ForYouTypeOK'
<1> SUFFICES ASSUME ForYouTypeOK, [ForYouNext]_forYouVars PROVE ForYouTypeOK'
  OBVIOUS
<1> USE DEF ForYouTypeOK
<1>1. CASE UNCHANGED forYouVars
  BY <1>1 DEF forYouVars, tables
<1>2. ASSUME NEW c \in UserCalls, SendBatch(c) PROVE ForYouTypeOK'
  <2>1. PICK list \in Batches :
          call' = [call EXCEPT ![c].at = "resolve", ![c].events = Normalized(list)]
    BY <1>2 DEF SendBatch
  <2>2. Normalized(list) \in SUBSET Events /\ call[c].todo \in SUBSET Rows
    BY UserAssumption DEF Normalized, Events, CallStates
  <2> DEFINE events == Normalized(list)
  <2>3. call' = [call EXCEPT ![c] = [@ EXCEPT !.at = "resolve", !.events = events]]
    BY <2>1
  <2>4. "resolve" \in CallStages /\ events \in SUBSET Events
    BY <2>2 DEF CallStages
  <2> HIDE DEF events
  <2>5. call' \in [UserCalls -> CallStates]
    BY <2>3, <2>4, CallTypes
  <2> QED BY <1>2, <2>5 DEF SendBatch, tables
<1>3. ASSUME NEW c \in UserCalls, Resolve(c) PROVE ForYouTypeOK'
  <2> DEFINE kept == {e \in call[c].events : e.post \in Listed}
             rows == TopicsIn(kept) \cup HidesIn(kept)
             at == IF kept = {} THEN "done" ELSE "insert"
  <2>1. kept \in SUBSET Events
    BY DEF CallStates
  <2>2. rows \in SUBSET Rows
    BY <2>1, PostAssumption DEF TopicsIn, HidesIn, Events, Rows
  <2>3. call' = [call EXCEPT ![c].at = at, ![c].events = kept, ![c].todo = rows]
    BY <1>3 DEF Resolve
  <2>4. at \in CallStages
    BY DEF CallStages
  <2> HIDE DEF kept, rows, at
  <2>5. call' = [call EXCEPT ![c] = [@ EXCEPT !.at = at, !.events = kept, !.todo = rows]]
    BY <2>3
  <2>6. call' \in [UserCalls -> CallStates]
    BY <2>1, <2>2, <2>4, <2>5, CallTypes
  <2> QED BY <1>3, <2>6 DEF Resolve, tables
<1>4. ASSUME NEW c \in UserCalls, Insert(c) PROVE ForYouTypeOK'
  <2>1. call' \in [UserCalls -> CallStates]
    BY <1>4, CallTypes DEF Insert, CallStages
  <2> QED BY <1>4, <2>1 DEF Insert, tables
<1>5. ASSUME NEW c \in UserCalls, NEW r \in Rows, UpsertRow(c, r) PROVE ForYouTypeOK'
  <2> DEFINE todo == call[c].todo \ {r}
             row == IF r \in Topics
                      THEN [call[c].row EXCEPT ![r] = Points(r) + TotalWeight(call[c].events, r)]
                      ELSE call[c].row
  <2>1. call[c] \in CallStates
    OBVIOUS
  <2>2. todo \in SUBSET Rows
    BY <2>1 DEF CallStates
  <2>3. row \in Profiles
    <3>1. CASE r \in Topics
      <4>1. Points(r) \in Int /\ TotalWeight(call[c].events, r) \in Int
        BY <2>1, <3>1, TotalWeightType DEF Points, Profiles, CallStates
      <4> QED BY <2>1, <3>1, <4>1 DEF Profiles, CallStates
    <3> QED BY <2>1, <3>1 DEF CallStates
  <2>4. call' = [call EXCEPT ![c].todo = todo, ![c].row = row]
    BY <1>5 DEF UpsertRow
  <2> HIDE DEF todo, row
  <2>5. call' = [call EXCEPT ![c] = [@ EXCEPT !.todo = todo, !.row = row]]
    BY <2>4
  <2>6. call' \in [UserCalls -> CallStates]
    BY <2>1, <2>2, <2>3, <2>5, CallTypes
  <2>7. rowLock' \in [Rows -> UserCalls \cup {None}]
    BY <1>5 DEF UpsertRow
  <2> QED BY <1>5, <2>6, <2>7 DEF UpsertRow, tables
<1>6. ASSUME NEW c \in UserCalls, Commit(c) PROVE ForYouTypeOK'
  <2>1. call[c] \in CallStates
    OBVIOUS
  <2>2. profile' \in Profiles
    BY <1>6, <2>1 DEF Commit, Profiles, CallStates
  <2>3. hidden' \subseteq Posts
    BY <1>6, <2>1 DEF Commit, HidesIn, CallStates, Events
  <2>4. given' \in [Topics -> Int]
    <3>1. ASSUME NEW t \in Topics PROVE given[t] + TotalWeight(call[c].events, t) \in Int
      BY <2>1, TotalWeightType DEF CallStates
    <3> QED BY <1>6, <3>1 DEF Commit
  <2>5. signals' \in Int
    BY <1>6 DEF Commit
  <2>6. rowLock' \in [Rows -> UserCalls \cup {None}]
    BY <1>6 DEF Commit, Released
  <2>7. call' \in [UserCalls -> CallStates]
    BY <1>6, UnusedType, CallTypes DEF Commit, CallStages
  <2>8. walk' \in Walks
    BY <1>6, WalkTypes DEF Commit
  <2> QED BY <1>6, <2>2, <2>3, <2>4, <2>5, <2>6, <2>7, <2>8 DEF Commit
<1>7. ASSUME NEW c \in UserCalls, Abort(c) PROVE ForYouTypeOK'
  <2>1. rowLock' \in [Rows -> UserCalls \cup {None}]
    BY <1>7 DEF Abort, Released
  <2>2. call' \in [UserCalls -> CallStates]
    BY <1>7, UnusedType, CallTypes DEF Abort, CallStages
  <2> QED BY <1>7, <2>1, <2>2 DEF Abort, tables
<1>8. ASSUME NEW c \in UserCalls, ReadSource(c) PROVE ForYouTypeOK'
  <2>1. PICK at \in {"resolve", "done"} : call' = [call EXCEPT ![c] = [@ EXCEPT !.at = at]]
    BY <1>8 DEF ReadSource
  <2>2. at \in CallStages
    BY DEF CallStages
  <2>3. call' \in [UserCalls -> CallStates]
    BY <2>1, <2>2, CallTypes
  <2> QED BY <1>8, <2>3 DEF ReadSource, tables
<1>9. ASSUME NEW c \in UserCalls, NEW creator \in Creators, Follow(c, creator) PROVE ForYouTypeOK'
  <2>1. CASE creator \in follows
    <3>1. "failed" \in CallStages /\ call' = [call EXCEPT ![c] = [@ EXCEPT !.at = "failed"]]
      BY <1>9, <2>1 DEF Follow, CallStages
    <3>2. call' \in [UserCalls -> CallStates]
      BY <3>1, CallTypes
    <3> QED BY <1>9, <2>1, <3>2 DEF Follow, tables
  <2>2. CASE creator \notin follows
    <3>1. PICK source \in Sources \cup {None} : call' = [call EXCEPT ![c] = Followed(creator, source)]
      BY <1>9, <2>2 DEF Follow
    <3>2. Followed(creator, source) \in CallStates
      <4> DEFINE at == IF source = None THEN "done" ELSE "source"
                 events == IF source = None THEN {}
                           ELSE {[post |-> source, type |-> "FOLLOW_CREATOR"]}
      <4>1. at \in CallStages /\ events \in SUBSET Events
        BY UserAssumption DEF CallStages, Events, EventTypes
      <4>2. Followed(creator, source) = [Unused EXCEPT !.creator = creator, !.at = at, !.events = events]
        BY DEF Followed
      <4> HIDE DEF at, events
      <4> QED BY <4>1, <4>2, UnusedType DEF CallStates
    <3>3. call' \in [UserCalls -> CallStates] /\ walk' \in Walks
      BY <1>9, <2>2, <3>1, <3>2, WalkTypes DEF Follow
    <3> QED BY <1>9, <2>2, <3>3 DEF Follow
  <2> QED BY <2>1, <2>2
<1>10. ASSUME NEW c \in UserCalls, NEW creator \in Creators, Unfollow(c, creator) PROVE ForYouTypeOK'
  <2>1. call' \in [UserCalls -> CallStates] /\ walk' \in Walks
    BY <1>10, CallTypes, WalkTypes DEF Unfollow, CallStages
  <2> QED BY <1>10, <2>1 DEF Unfollow
<1>11. ASSUME NEW p \in Posts, Unlist(p) \/ RemovePost(p) PROVE ForYouTypeOK'
  BY <1>11, WalkTypes DEF Unlist, RemovePost
<1>12. CASE Rescore
  BY <1>12, WalkTypes, PostAssumption DEF Rescore, Scores
<1>13. CASE AskPage \/ ReadProfiles \/ ReadFollows \/ ReadHidden \/ StartAgain
  <2>1. walk' \in Walks
    <3>1. CASE StartAgain
      BY <3>1, WalkTypes DEF StartAgain
    <3>2. CASE AskPage
      <4> DEFINE w == [walk EXCEPT !.at = "reading", !.before = hidden]
                 v == [w EXCEPT !.profiles = None, !.follows = None]
      <4>1. w \in Walks
        BY DEF Walks
      <4>2. walk' = [v EXCEPT !.hidden = None]
        BY <3>2 DEF AskPage
      <4> HIDE DEF w
      <4>3. v \in Walks
        BY <4>1, Maybes DEF Walks
      <4> HIDE DEF v
      <4> QED BY <4>2, <4>3, Maybes DEF Walks
    <3>3. CASE ReadProfiles
      BY <3>3 DEF ReadProfiles, Walks, Maybe
    <3>4. CASE ReadFollows
      <4>1. follows \in SUBSET Creators
        OBVIOUS
      <4> QED BY <3>4, <4>1 DEF ReadFollows, Walks, Maybe
    <3>5. CASE ReadHidden
      <4>1. hidden \in SUBSET Posts
        OBVIOUS
      <4> QED BY <3>5, <4>1 DEF ReadHidden, Walks, Maybe
    <3> QED BY <1>13, <3>1, <3>2, <3>3, <3>4, <3>5
  <2> QED BY <1>13, <2>1 DEF AskPage, ReadProfiles, ReadFollows, ReadHidden, StartAgain, tables
<1>14. CASE AnswerPage
  <2>1. PICK start, last, page, more : Cut(Feed(walk), start, last, page, more)
    BY <1>14, Answered
  <2> DEFINE at == IF more THEN "rest" ELSE "end"
             shown == IF walk.calm THEN walk.shown \o page ELSE walk.shown
             cursor == IF more THEN page[Len(page)] ELSE None
  <2>2. walk \in Walks /\ walk.shown \in Seq(Posts) /\ page \in Seq(Posts)
    BY <2>1 DEF Walks, Cut
  <2>3. at \in {"rest", "reading", "end"} /\ shown \in Seq(Posts)
    BY <2>2
  <2>4. cursor \in Maybe(Posts)
    <3>1. more => Len(page) = Limit
      BY <2>1, PostAssumption DEF Cut
    <3>2. more => Len(page) \in 1..Len(page)
      BY <3>1, PostAssumption
    <3> QED BY <2>2, <3>2 DEF Maybe
  <2>5. walk' = [walk EXCEPT !.at = at, !.page = page, !.shown = shown, !.cursor = cursor]
    BY <2>1 DEF Cut
  <2> HIDE DEF at, shown, cursor
  <2>6. walk' \in Walks
    BY <2>2, <2>3, <2>4, <2>5 DEF Walks
  <2> QED BY <1>14, <2>6 DEF AnswerPage, tables
<1> HIDE DEF ForYouTypeOK
<1> QED BY <1>1, <1>2, <1>3, <1>4, <1>5, <1>6, <1>7, <1>8, <1>9, <1>10, <1>11, <1>12, <1>13, <1>14
        DEF ForYouNext

LEMMA TypesInitially == ForYouInit => ForYouTypeOK
<1> SUFFICES ASSUME ForYouInit PROVE ForYouTypeOK
  OBVIOUS
<1> USE DEF ForYouInit
<1>1. score \in Scores
  BY PostAssumption DEF Scores
<1>2. call \in [UserCalls -> CallStates]
  BY UnusedType
<1>3. profile \in Profiles
  BY DEF NoRows, Profiles
<1>4. walk \in Walks
  <2>1. <<>> \in Seq(Posts)
    OBVIOUS
  <2> DEFINE none == <<>>
             nobody == {}
  <2>2. none \in Seq(Posts) /\ nobody \in SUBSET Posts
    BY <2>1
  <2> HIDE DEF none, nobody
  <2>3. [at |-> "rest", profiles |-> None, follows |-> None, hidden |-> None, before |-> nobody,
         page |-> none, shown |-> none, cursor |-> None, calm |-> TRUE] \in Walks
    BY <2>2, Maybes DEF Walks
  <2> QED BY <2>3 DEF none, nobody, NewWalk
<1> QED BY <1>1, <1>2, <1>3, <1>4 DEF ForYouTypeOK

(* Every variable keeps to its type, for every number of posts and calls.  *)
THEOREM ForYouTypes == ForYouSpec => []ForYouTypeOK
BY TypesInitially, TypesKept, PTL DEF ForYouSpec

-----------------------------------------------------------------------------
(* The steps of a call that say nothing new of the rows. *)
SumInv == ForYouTypeOK /\ WrittenOK /\ PlannedOK /\ ProfileIsSum

LEMMA SumKept == SumInv /\ [ForYouNext]_forYouVars => SumInv'
<1> SUFFICES ASSUME SumInv, [ForYouNext]_forYouVars PROVE SumInv'
  OBVIOUS
<1>0. ForYouTypeOK /\ ForYouTypeOK'
  BY TypesKept DEF SumInv
<1> DEFINE Rest == WrittenOK /\ PlannedOK /\ ProfileIsSum
<1> SUFFICES Rest'
  BY <1>0 DEF SumInv
<1>a. Rest /\ call \in [UserCalls -> CallStates]
  BY DEF SumInv, ForYouTypeOK
<1>b. ASSUME UNCHANGED <<profile, given, rowLock, call>> PROVE Rest'
  BY <1>a, <1>b DEF WrittenOK, PlannedOK, ProfileIsSum, Points
<1>c. ASSUME NEW c \in UserCalls, UNCHANGED <<profile, given, rowLock>>,
             \A d \in UserCalls \ {c} : call'[d] = call[d],
             \A t \in Topics : call'[c].row[t] = None,
             call'[c].at \notin {"insert", "upsert"}
      PROVE  Rest'
  BY <1>a, <1>c DEF WrittenOK, PlannedOK, ProfileIsSum, Points
<1>d. ASSUME NEW c \in UserCalls, call[c].at # "upsert"
      PROVE  \A t \in Topics : call[c].row[t] = None
  BY <1>a, <1>d DEF WrittenOK
<1>1. CASE UNCHANGED forYouVars
  BY <1>1, <1>b DEF forYouVars, tables
<1>2. ASSUME NEW c \in UserCalls, SendBatch(c) PROVE Rest'
  <2>1. /\ UNCHANGED <<profile, given, rowLock>> /\ call[c].at = "new"
        /\ \A d \in UserCalls \ {c} : call'[d] = call[d]
        /\ call'[c].at = "resolve" /\ call'[c].row = call[c].row
    BY <1>a, <1>2 DEF SendBatch, tables, CallStates
  <2> QED BY <2>1, <1>c, <1>d
<1>3. ASSUME NEW c \in UserCalls, Resolve(c) PROVE Rest'
  <2> DEFINE kept == {e \in call[c].events : e.post \in Listed}
             rows == TopicsIn(kept) \cup HidesIn(kept)
  <2>1. /\ UNCHANGED <<profile, given, rowLock>> /\ call[c].at = "resolve"
        /\ \A d \in UserCalls \ {c} : call'[d] = call[d]
        /\ call'[c].at \in {"done", "insert"} /\ call'[c].row = call[c].row
        /\ call'[c].events = kept /\ call'[c].todo = rows
    BY <1>a, <1>3 DEF Resolve, tables, CallStates
  <2>2. \A e \in kept : TopicOf[e.post] \in rows
    BY DEF TopicsIn
  <2> HIDE DEF kept, rows
  <2>3. WrittenOK'
    BY <1>a, <1>d, <2>1 DEF WrittenOK, Points
  <2>4. PlannedOK'
    BY <1>a, <2>1, <2>2 DEF PlannedOK
  <2>5. ProfileIsSum'
    BY <1>a, <2>1 DEF ProfileIsSum, Points
  <2> QED BY <2>3, <2>4, <2>5
<1>4. ASSUME NEW c \in UserCalls, Insert(c) PROVE Rest'
  <2>1. /\ UNCHANGED <<profile, given, rowLock>> /\ call[c].at = "insert"
        /\ \A d \in UserCalls \ {c} : call'[d] = call[d]
        /\ call'[c].at \in {"failed", "upsert"} /\ call'[c].row = call[c].row
        /\ call'[c].events = call[c].events /\ call'[c].todo = call[c].todo
    BY <1>a, <1>4 DEF Insert, tables, CallStates
  <2>2. WrittenOK'
    BY <1>a, <1>d, <2>1 DEF WrittenOK, Points
  <2>3. PlannedOK'
    BY <1>a, <2>1 DEF PlannedOK
  <2>4. ProfileIsSum'
    BY <1>a, <2>1 DEF ProfileIsSum, Points
  <2> QED BY <2>2, <2>3, <2>4
<1>5. ASSUME NEW c \in UserCalls, NEW r \in Rows, UpsertRow(c, r) PROVE Rest'
  <2> DEFINE sum == Points(r) + TotalWeight(call[c].events, r)
             row == IF r \in Topics THEN [call[c].row EXCEPT ![r] = sum] ELSE call[c].row
  <2>1. /\ UNCHANGED <<profile, given>> /\ call[c].at = "upsert"
        /\ \A d \in UserCalls \ {c} : call'[d] = call[d]
        /\ call'[c].at = "upsert" /\ call'[c].row = row
        /\ call'[c].events = call[c].events /\ call'[c].todo = call[c].todo \ {r}
        /\ rowLock[r] \in {None, c} /\ rowLock' = [rowLock EXCEPT ![r] = c]
    BY <1>a, <1>5 DEF UpsertRow, tables, CallStates
  <2>2. row \in [Topics -> Int \cup {None}] /\ call[c].row \in [Topics -> Int \cup {None}]
    <3>1. call'[c] \in CallStates /\ call[c] \in CallStates
      BY <1>0 DEF ForYouTypeOK
    <3> QED BY <2>1, <3>1 DEF CallStates, Profiles
  <2>3. /\ r \in Topics => row[r] = sum /\ sum # None
        /\ \A t \in Topics \ {r} : row[t] = call[c].row[t]
    <3>1. r \in Topics => sum \in Int
      <4>1. call[c].events \in SUBSET Events /\ profile \in Profiles
        BY <1>0 DEF ForYouTypeOK, CallStates
      <4> QED BY <4>1, TotalWeightType DEF Points, Profiles
    <3> QED BY <2>2, <3>1, UserAssumption
  <2>4. c # None /\ rowLock \in [Rows -> UserCalls \cup {None}]
    BY <1>0, UserAssumption DEF ForYouTypeOK
  <2>5. WrittenOK'
    <3> SUFFICES ASSUME NEW d \in UserCalls, NEW t \in Topics, call'[d].row[t] # None
                 PROVE  /\ call'[d].at = "upsert" /\ rowLock'[t] = d
                        /\ call'[d].row[t] = Points(t)' + TotalWeight(call'[d].events, t)
      BY DEF WrittenOK
    <3>1. t \in Rows /\ Points(t)' = Points(t)
      BY <2>1 DEF Rows, Points
    <3>2. CASE d = c /\ t = r
      BY <2>1, <2>3, <2>4, <3>1, <3>2
    <3>3. CASE d = c /\ t # r
      <4>1. call[c].row[t] # None /\ call'[c].row[t] = call[c].row[t]
        BY <2>1, <2>3, <3>3
      <4>2. rowLock[t] = c /\ call[c].row[t] = Points(t) + TotalWeight(call[c].events, t)
        BY <1>a, <4>1 DEF WrittenOK
      <4> HIDE DEF row
      <4> QED BY <2>1, <2>4, <3>1, <3>3, <4>1, <4>2
    <3>4. CASE d # c
      <4>1. rowLock[t] = d /\ d # None
        BY <1>a, <2>1, <3>4, UserAssumption DEF WrittenOK
      <4> QED BY <1>a, <2>1, <2>4, <3>1, <3>4, <4>1 DEF WrittenOK
    <3> QED BY <3>2, <3>3, <3>4
  <2>6. PlannedOK'
    <3> SUFFICES ASSUME NEW d \in UserCalls, call'[d].at \in {"insert", "upsert"},
                        NEW e \in call'[d].events
                 PROVE  \/ TopicOf[e.post] \in call'[d].todo
                        \/ call'[d].row[TopicOf[e.post]] # None
      BY DEF PlannedOK
    <3>1. CASE d # c
      BY <1>a, <2>1, <3>1 DEF PlannedOK
    <3>2. CASE d = c
      <4>1. e \in call[c].events /\ TopicOf[e.post] \in Topics
        BY <1>a, <2>1, <3>2, PostAssumption DEF CallStates, Events
      <4>2. TopicOf[e.post] \in call[c].todo \/ call[c].row[TopicOf[e.post]] # None
        BY <1>a, <2>1, <4>1 DEF PlannedOK
      <4> HIDE DEF row
      <4> QED BY <2>1, <2>3, <3>2, <4>1, <4>2
    <3> QED BY <3>1, <3>2
  <2>7. ProfileIsSum'
    BY <1>a, <2>1 DEF ProfileIsSum, Points
  <2> QED BY <2>5, <2>6, <2>7
<1>6. ASSUME NEW c \in UserCalls, Commit(c) PROVE Rest'
  <2> DEFINE events == call[c].events
             row == call[c].row
  <2>1. /\ call[c].at = "upsert" /\ call[c].todo = {}
        /\ profile' = [t \in Topics |-> IF row[t] = None THEN profile[t] ELSE row[t]]
        /\ given' = [t \in Topics |-> given[t] + TotalWeight(events, t)]
        /\ rowLock' = Released(c)
        /\ \A d \in UserCalls \ {c} : call'[d] = call[d]
        /\ call'[c] = [Unused EXCEPT !.at = "done"]
    BY <1>a, <1>6 DEF Commit
  <2>2. call'[c].at = "done" /\ \A t \in Topics : call'[c].row[t] = None
    BY <2>1 DEF Unused, NoRows
  <2>3. row \in Profiles /\ events \in SUBSET Events /\ profile \in Profiles
    BY <1>0 DEF ForYouTypeOK, CallStates
  <2>4. ASSUME NEW t \in Topics PROVE Points(t)' = Points(t) + TotalWeight(events, t)
    <3>1. CASE row[t] = None
      <4>1. \A e \in events : TopicOf[e.post] # t
        BY <1>a, <2>1, <3>1 DEF PlannedOK
      <4>2. TotalWeight(events, t) = 0
        BY <2>3, <4>1, TotalWeightType DEF EventsOf
      <4>3. Points(t)' = Points(t) /\ Points(t) \in Int
        BY <2>1, <2>3, <3>1 DEF Points, Profiles
      <4> QED BY <4>2, <4>3
    <3>2. CASE row[t] # None
      <4>1. row[t] = Points(t) + TotalWeight(events, t)
        BY <1>a, <3>2 DEF WrittenOK
      <4>2. Points(t)' = row[t]
        BY <2>1, <3>2 DEF Points
      <4> QED BY <4>1, <4>2
    <3> QED BY <3>1, <3>2
  <2>5. ProfileIsSum'
    BY <1>a, <2>1, <2>4 DEF ProfileIsSum
  <2>6. WrittenOK'
    <3> SUFFICES ASSUME NEW d \in UserCalls, NEW t \in Topics, call'[d].row[t] # None
                 PROVE  /\ call'[d].at = "upsert" /\ rowLock'[t] = d
                        /\ call'[d].row[t] = Points(t)' + TotalWeight(call'[d].events, t)
      BY DEF WrittenOK
    <3>1. d # c /\ call'[d] = call[d]
      BY <2>1, <2>2
    <3>2. rowLock[t] = d /\ call[d].at = "upsert"
          /\ call[d].row[t] = Points(t) + TotalWeight(call[d].events, t)
      BY <1>a, <3>1 DEF WrittenOK
    <3>3. row[t] = None
      BY <1>a, <3>1, <3>2 DEF WrittenOK
    <3>4. Points(t)' = Points(t)
      BY <2>1, <3>3 DEF Points
    <3>5. rowLock'[t] = d
      BY <2>1, <3>1, <3>2 DEF Released, Rows
    <3> QED BY <3>1, <3>2, <3>4, <3>5
  <2>7. PlannedOK'
    <3>1. call'[c].at \notin {"insert", "upsert"}
      BY <2>2
    <3>2. \A d \in UserCalls \ {c} : call'[d] = call[d]
      BY <2>1
    <3> QED BY <1>a, <3>1, <3>2 DEF PlannedOK
  <2> QED BY <2>5, <2>6, <2>7
<1>7. ASSUME NEW c \in UserCalls, Abort(c) PROVE Rest'
  <2>1. /\ UNCHANGED <<profile, given>> /\ rowLock' = Released(c)
        /\ \A d \in UserCalls \ {c} : call'[d] = call[d]
        /\ call'[c] = [Unused EXCEPT !.at = "failed"]
    BY <1>a, <1>7 DEF Abort, tables
  <2>2. call'[c].at = "failed" /\ \A t \in Topics : call'[c].row[t] = None
    BY <2>1 DEF Unused, NoRows
  <2>3. WrittenOK'
    <3> SUFFICES ASSUME NEW d \in UserCalls, NEW t \in Topics, call'[d].row[t] # None
                 PROVE  /\ call'[d].at = "upsert" /\ rowLock'[t] = d
                        /\ call'[d].row[t] = Points(t)' + TotalWeight(call'[d].events, t)
      BY DEF WrittenOK
    <3>0. profile' = profile
      BY <2>1
    <3>a. Points(t)' = Points(t)
      BY <3>0 DEF Points
    <3>b. d # c
      BY <2>2
    <3>1. d # c /\ call'[d] = call[d] /\ Points(t)' = Points(t)
      BY <2>1, <3>a, <3>b
    <3>2. rowLock[t] = d /\ call[d].at = "upsert"
          /\ call[d].row[t] = Points(t) + TotalWeight(call[d].events, t)
      BY <1>a, <3>1 DEF WrittenOK
    <3>3. rowLock'[t] = d
      BY <2>1, <3>1, <3>2 DEF Released, Rows
    <3> QED BY <3>1, <3>2, <3>3
  <2>4. PlannedOK' /\ ProfileIsSum'
    <3>1. call'[c].at \notin {"insert", "upsert"}
      BY <2>2
    <3>2. \A d \in UserCalls \ {c} : call'[d] = call[d]
      BY <2>1
    <3>3. PlannedOK'
      BY <1>a, <3>1, <3>2 DEF PlannedOK
    <3>4. profile' = profile /\ given' = given
      BY <2>1
    <3> QED BY <1>a, <3>3, <3>4 DEF ProfileIsSum, Points
  <2> QED BY <2>3, <2>4
<1>8. ASSUME NEW c \in UserCalls, ReadSource(c) PROVE Rest'
  <2>1. /\ UNCHANGED <<profile, given, rowLock>> /\ call[c].at = "source"
        /\ \A d \in UserCalls \ {c} : call'[d] = call[d]
        /\ call'[c].at \in {"resolve", "done"} /\ call'[c].row = call[c].row
    BY <1>a, <1>8 DEF ReadSource, tables, CallStates
  <2> QED BY <2>1, <1>c, <1>d
<1>9. ASSUME NEW c \in UserCalls, NEW creator \in Creators, Follow(c, creator) PROVE Rest'
  <2>1. /\ UNCHANGED <<profile, given, rowLock>> /\ call[c].at = "new"
        /\ \A d \in UserCalls \ {c} : call'[d] = call[d]
        /\ call'[c].at \in {"failed", "done", "source"} /\ call'[c].row \in {call[c].row, NoRows}
    <3>1. CASE creator \in follows
      BY <1>a, <1>9, <3>1 DEF Follow, tables, CallStates
    <3>2. CASE creator \notin follows
      <4>1. PICK source : call' = [call EXCEPT ![c] = Followed(creator, source)]
        BY <1>9, <3>2 DEF Follow
      <4>2. call'[c] = Followed(creator, source) /\ \A d \in UserCalls \ {c} : call'[d] = call[d]
        BY <1>a, <4>1
      <4>3. call'[c].at \in {"done", "source"} /\ call'[c].row = NoRows
        BY <4>2 DEF Followed, Unused
      <4> QED BY <1>9, <3>2, <4>2, <4>3 DEF Follow
    <3> QED BY <3>1, <3>2
  <2>2. \A t \in Topics : NoRows[t] = None
    BY DEF NoRows
  <2> QED BY <2>1, <2>2, <1>c, <1>d
<1>10. ASSUME NEW c \in UserCalls, NEW creator \in Creators, Unfollow(c, creator) PROVE Rest'
  <2>1. /\ UNCHANGED <<profile, given, rowLock>> /\ call[c].at = "new"
        /\ \A d \in UserCalls \ {c} : call'[d] = call[d]
        /\ call'[c].at \in {"failed", "done"} /\ call'[c].row = call[c].row
    BY <1>a, <1>10 DEF Unfollow, CallStates
  <2> QED BY <2>1, <1>c, <1>d
<1>11. ASSUME NEW p \in Posts, Unlist(p) \/ RemovePost(p) PROVE Rest'
  BY <1>11, <1>b DEF Unlist, RemovePost
<1>12. CASE \/ Rescore \/ AskPage \/ ReadProfiles \/ ReadFollows \/ ReadHidden \/ StartAgain
            \/ AnswerPage
  BY <1>12, <1>b DEF Rescore, AskPage, ReadProfiles, ReadFollows, ReadHidden, StartAgain,
                     AnswerPage, tables
<1> HIDE DEF Rest
<1> QED BY <1>1, <1>2, <1>3, <1>4, <1>5, <1>6, <1>7, <1>8, <1>9, <1>10, <1>11, <1>12
        DEF ForYouNext

LEMMA SumInitially == ForYouInit => SumInv
<1> SUFFICES ASSUME ForYouInit PROVE SumInv
  OBVIOUS
<1>1. \A c \in UserCalls : call[c].at = "new" /\ \A t \in Topics : call[c].row[t] = None
  BY DEF ForYouInit, Unused, NoRows
<1>2. \A t \in Topics : given[t] = 0 /\ profile[t] = None
  BY DEF ForYouInit, NoRows
<1> QED BY <1>1, <1>2, TypesInitially DEF SumInv, WrittenOK, PlannedOK, ProfileIsSum, Points

(* A user's score of a topic is the sum of the weights of the events that    *)
(* were recorded, for every number of batches that run at the same time.     *)
THEOREM ScoresAreSums == ForYouSpec => []ProfileIsSum
<1>1. SumInv => ProfileIsSum
  BY DEF SumInv
<1> QED BY <1>1, SumInitially, SumKept, PTL DEF ForYouSpec

-----------------------------------------------------------------------------
(* The follows that may still give a signal were paid for when their row    *)
(* was created.                                                             *)
SignalsInv == ForYouTypeOK /\ SignalsOK

LEMMA SignallingFinite == IsFiniteSet(Signalling) /\ Cardinality(Signalling) \in Nat
<1>1. Signalling \subseteq UserCalls
  BY DEF Signalling
<1> QED BY <1>1, UserAssumption, FS_Subset, FS_CardinalityType

LEMMA SignalsKept == SignalsInv /\ [ForYouNext]_forYouVars => SignalsInv'
<1> SUFFICES ASSUME SignalsInv, [ForYouNext]_forYouVars PROVE SignalsInv'
  OBVIOUS
<1>0. ForYouTypeOK /\ ForYouTypeOK'
  BY TypesKept DEF SignalsInv
<1> SUFFICES SignalsOK'
  BY <1>0 DEF SignalsInv
<1>a. SignalsOK /\ call \in [UserCalls -> CallStates] /\ signals \in Int /\ signals' \in Int
  BY <1>0 DEF SignalsInv, ForYouTypeOK
<1>b. IsFiniteSet(Signalling) /\ Cardinality(Signalling) \in Nat
  BY SignallingFinite
<1>c. ASSUME UNCHANGED <<call, signals>> PROVE SignalsOK'
  BY <1>a, <1>c DEF SignalsOK, Signalling
<1>d. ASSUME NEW c \in UserCalls, call'[c].at # "new",
             \A d \in UserCalls \ {c} : call'[d] = call[d]
      PROVE  \A d \in UserCalls : call'[d].at = "new" => call'[d] = Unused
  BY <1>a, <1>d DEF SignalsOK
<1>e. ASSUME NEW c \in UserCalls, call'[c].at # "new", signals' = signals,
             \A d \in UserCalls \ {c} : call'[d] = call[d],
             c \in Signalling' => c \in Signalling
      PROVE  SignalsOK'
  <2>1. Signalling' \subseteq Signalling
    BY <1>e DEF Signalling
  <2>2. Cardinality(Signalling') \in Nat /\ Cardinality(Signalling') <= Cardinality(Signalling)
    BY <1>b, <2>1, FS_Subset, FS_CardinalityType
  <2>3. signals >= Cardinality(Signalling)
    BY <1>a DEF SignalsOK
  <2>4. signals' >= Cardinality(Signalling')
    BY <1>a, <1>b, <1>e, <2>2, <2>3
  <2>5. (signals >= Cardinality(Signalling))'
    BY <2>4
  <2> QED BY <1>d, <1>e, <2>5 DEF SignalsOK
<1>1. CASE UNCHANGED forYouVars
  BY <1>1, <1>c DEF forYouVars, tables
<1>2. ASSUME NEW c \in UserCalls, SendBatch(c) PROVE SignalsOK'
  <2>1. /\ call[c].at = "new" /\ call'[c].creator = call[c].creator /\ call'[c].at = "resolve"
        /\ \A d \in UserCalls \ {c} : call'[d] = call[d]
        /\ signals' = signals
    BY <1>a, <1>2 DEF SendBatch, tables, CallStates
  <2>2. call'[c].creator = None
    BY <1>a, <2>1 DEF SignalsOK, Unused
  <2>3. c \notin Signalling'
    BY <2>2 DEF Signalling
  <2> QED BY <1>e, <2>1, <2>3
<1>3. ASSUME NEW c \in UserCalls, Resolve(c) \/ Insert(c) \/ ReadSource(c) PROVE SignalsOK'
  <2>1. /\ call[c].at \in SignalStages /\ call'[c].creator = call[c].creator
        /\ call'[c].at # "new"
        /\ \A d \in UserCalls \ {c} : call'[d] = call[d]
        /\ signals' = signals
    <3>1. CASE Resolve(c)
      BY <1>a, <3>1 DEF Resolve, tables, CallStates, SignalStages
    <3>2. CASE Insert(c)
      BY <1>a, <3>2 DEF Insert, tables, CallStates, SignalStages
    <3>3. CASE ReadSource(c)
      BY <1>a, <3>3 DEF ReadSource, tables, CallStates, SignalStages
    <3> QED BY <1>3, <3>1, <3>2, <3>3
  <2>2. c \in Signalling' => c \in Signalling
    BY <2>1 DEF Signalling
  <2> QED BY <1>e, <2>1, <2>2
<1>4. ASSUME NEW c \in UserCalls, NEW r \in Rows, UpsertRow(c, r) PROVE SignalsOK'
  <2>1. /\ call[c].at = "upsert" /\ call'[c].creator = call[c].creator /\ call'[c].at = "upsert"
        /\ \A d \in UserCalls \ {c} : call'[d] = call[d]
        /\ signals' = signals
    BY <1>a, <1>4 DEF UpsertRow, tables, CallStates
  <2>2. c \in Signalling' => c \in Signalling
    BY <2>1 DEF Signalling
  <2> QED BY <1>e, <2>1, <2>2
<1>5. ASSUME NEW c \in UserCalls, Abort(c) PROVE SignalsOK'
  <2>1. /\ call'[c] = [Unused EXCEPT !.at = "failed"]
        /\ \A d \in UserCalls \ {c} : call'[d] = call[d]
        /\ signals' = signals
    BY <1>a, <1>5 DEF Abort, tables
  <2>2. call'[c].at = "failed" /\ call'[c].creator = None
    BY <2>1 DEF Unused
  <2>3. c \notin Signalling'
    BY <2>2 DEF Signalling
  <2> QED BY <1>e, <2>1, <2>2, <2>3
<1>6. ASSUME NEW c \in UserCalls, Commit(c) PROVE SignalsOK'
  <2>1. /\ call'[c] = [Unused EXCEPT !.at = "done"] /\ call[c].at = "upsert"
        /\ \A d \in UserCalls \ {c} : call'[d] = call[d]
        /\ signals' = IF call[c].creator = None THEN signals ELSE signals - 1
    BY <1>a, <1>6 DEF Commit
  <2>2. call'[c].at = "done" /\ call'[c].creator = None
    BY <2>1 DEF Unused
  <2>3. c \notin Signalling'
    BY <2>2 DEF Signalling
  <2>4. CASE call[c].creator = None
    BY <1>e, <2>1, <2>2, <2>3, <2>4
  <2>5. CASE call[c].creator # None
    <3>1. c \in Signalling
      BY <2>1, <2>5 DEF Signalling, SignalStages
    <3>2. Signalling' = Signalling \ {c}
      BY <2>1, <2>3 DEF Signalling
    <3>3. Cardinality(Signalling') = Cardinality(Signalling) - 1
      BY <1>b, <3>1, <3>2, FS_RemoveElement
    <3>4. signals >= Cardinality(Signalling)
      BY <1>a DEF SignalsOK
    <3>5. signals' >= Cardinality(Signalling')
      BY <1>a, <1>b, <2>1, <2>5, <3>3, <3>4
    <3>6. (signals >= Cardinality(Signalling))'
      BY <3>5
    <3> QED BY <1>d, <2>1, <2>2, <3>6 DEF SignalsOK
  <2> QED BY <2>4, <2>5
<1>7. ASSUME NEW c \in UserCalls, NEW creator \in Creators, Follow(c, creator) PROVE SignalsOK'
  <2>1. CASE creator \in follows
    <3>1. /\ call[c].at = "new" /\ call'[c].creator = call[c].creator /\ call'[c].at = "failed"
          /\ \A d \in UserCalls \ {c} : call'[d] = call[d]
          /\ signals' = signals
      BY <1>a, <1>7, <2>1 DEF Follow, tables, CallStates
    <3>2. c \notin Signalling'
      BY <3>1 DEF Signalling, SignalStages
    <3> QED BY <1>e, <3>1, <3>2
  <2>2. CASE creator \notin follows
    <3>1. PICK source : call' = [call EXCEPT ![c] = Followed(creator, source)]
      BY <1>7, <2>2 DEF Follow
    <3>2. call'[c] = Followed(creator, source) /\ \A d \in UserCalls \ {c} : call'[d] = call[d]
      BY <1>a, <3>1
    <3>3. call'[c].at # "new"
      BY <3>2 DEF Followed, Unused
    <3>4. c \notin Signalling
      <4>1. call[c].at = "new"
        BY <1>7 DEF Follow
      <4> QED BY <4>1 DEF Signalling, SignalStages
    <3>5. Signalling' \subseteq Signalling \cup {c}
      BY <3>2 DEF Signalling
    <3>6. IsFiniteSet(Signalling \cup {c}) /\ Cardinality(Signalling \cup {c}) = Cardinality(Signalling) + 1
      BY <1>b, <3>4, FS_AddElement
    <3>7. Cardinality(Signalling') <= Cardinality(Signalling) + 1 /\ Cardinality(Signalling') \in Nat
      BY <3>5, <3>6, FS_Subset, FS_CardinalityType
    <3>8. signals' = signals + 1 /\ signals >= Cardinality(Signalling)
      BY <1>a, <1>7, <2>2 DEF Follow, SignalsOK
    <3>9. signals' >= Cardinality(Signalling')
      BY <1>a, <1>b, <3>7, <3>8
    <3>10. (signals >= Cardinality(Signalling))'
      BY <3>9
    <3> QED BY <1>d, <3>2, <3>3, <3>10 DEF SignalsOK
  <2> QED BY <2>1, <2>2
<1>8. ASSUME NEW c \in UserCalls, NEW creator \in Creators, Unfollow(c, creator) PROVE SignalsOK'
  <2>1. /\ call'[c].at \in {"failed", "done"}
        /\ \A d \in UserCalls \ {c} : call'[d] = call[d]
        /\ signals' = signals
    BY <1>a, <1>8 DEF Unfollow, CallStates
  <2>2. c \notin Signalling'
    BY <2>1 DEF Signalling, SignalStages
  <2> QED BY <1>e, <2>1, <2>2
<1>9. ASSUME NEW p \in Posts, Unlist(p) \/ RemovePost(p) PROVE SignalsOK'
  BY <1>9, <1>c DEF Unlist, RemovePost
<1>10. CASE \/ Rescore \/ AskPage \/ ReadProfiles \/ ReadFollows \/ ReadHidden \/ StartAgain
            \/ AnswerPage
  BY <1>10, <1>c DEF Rescore, AskPage, ReadProfiles, ReadFollows, ReadHidden, StartAgain,
                     AnswerPage, tables
<1> QED BY <1>1, <1>2, <1>3, <1>4, <1>5, <1>6, <1>7, <1>8, <1>9, <1>10 DEF ForYouNext

(* Requests that follow a creator at the same time give no more signals than *)
(* follows were created, for every number of requests.                       *)
THEOREM FollowsSignalOnce == ForYouSpec => []OneSignalPerFollow
<1>1. ForYouInit => SignalsInv
  <2> SUFFICES ASSUME ForYouInit PROVE SignalsInv
    OBVIOUS
  <2>1. \A c \in UserCalls : call[c] = Unused /\ call[c].at = "new"
    BY DEF ForYouInit, Unused
  <2>2. Signalling = {}
    BY <2>1 DEF Signalling, SignalStages
  <2>3. signals = 0 /\ Cardinality(Signalling) = 0
    BY <2>2, FS_EmptySet DEF ForYouInit
  <2> QED BY <2>1, <2>3, TypesInitially DEF SignalsInv, SignalsOK
<1>2. SignalsInv => OneSignalPerFollow
  BY SignallingFinite DEF SignalsInv, SignalsOK, OneSignalPerFollow, ForYouTypeOK
<1> QED BY <1>1, <1>2, SignalsKept, PTL DEF ForYouSpec

-----------------------------------------------------------------------------
(* The rows of a batch that hides a post include the post's topic, so the   *)
(* commit gives the topic a score: HiddenInv rests on PlannedOK.            *)
HiddenInv == SumInv /\ HiddenOK /\ HiddenStaysHidden

LEMMA HiddenKept == HiddenInv /\ [ForYouNext]_forYouVars => HiddenInv'
<1> SUFFICES ASSUME HiddenInv, [ForYouNext]_forYouVars PROVE HiddenInv'
  OBVIOUS
<1>0. SumInv /\ SumInv' /\ ForYouTypeOK
  BY SumKept DEF HiddenInv, SumInv
<1> DEFINE Rest == HiddenOK /\ HiddenStaysHidden
<1> SUFFICES Rest'
  BY <1>0 DEF HiddenInv
<1>a. Rest /\ hidden \subseteq Posts /\ walk \in Walks
  BY <1>0 DEF HiddenInv, ForYouTypeOK
<1>b. ASSUME UNCHANGED <<profile, hidden, posts, walk>> PROVE Rest'
  BY <1>a, <1>b DEF HiddenOK, HiddenStaysHidden
<1>c. ASSUME walk' = Disturbed,
             \A t \in Topics : profile[t] # None => profile'[t] # None,
             \A p \in hidden : p \in hidden' \/ posts'[p] = "gone",
             \A p \in Posts : posts[p] = "gone" => posts'[p] = "gone",
             \A p \in hidden' : profile'[TopicOf[p]] # None
      PROVE  Rest'
  <2>1. /\ walk'.at = walk.at /\ walk'.page = walk.page /\ walk'.before = walk.before
        /\ walk'.profiles = walk.profiles /\ walk'.hidden = walk.hidden
    BY <1>a, <1>c DEF Disturbed, Walks
  <2>2. HiddenStaysHidden'
    BY <1>a, <2>1 DEF HiddenStaysHidden
  <2>3. \A p \in walk.before : p \in Posts /\ TopicOf[p] \in Topics
    BY <1>a, PostAssumption DEF Walks
  <2>4. HiddenOK'
    BY <1>a, <1>c, <2>1, <2>3 DEF HiddenOK
  <2> QED BY <2>2, <2>4
<1>1. CASE UNCHANGED forYouVars
  BY <1>1, <1>b DEF forYouVars, tables
<1>2. ASSUME NEW c \in UserCalls,
             \/ SendBatch(c) \/ Resolve(c) \/ Insert(c) \/ ReadSource(c) \/ Abort(c)
             \/ \E r \in Rows : UpsertRow(c, r)
      PROVE  Rest'
  BY <1>2, <1>b DEF SendBatch, Resolve, Insert, ReadSource, UpsertRow, Abort, tables
<1>3. ASSUME NEW c \in UserCalls, Commit(c) PROVE Rest'
  <2> DEFINE events == call[c].events
             row == call[c].row
  <2>1. /\ call[c].at = "upsert" /\ call[c].todo = {} /\ posts' = posts /\ walk' = Disturbed
        /\ profile' = [t \in Topics |-> IF row[t] = None THEN profile[t] ELSE row[t]]
        /\ hidden' = hidden \cup {p \in HidesIn(events) : posts[p] # "gone"}
    BY <1>3 DEF Commit
  <2>2. \A t \in Topics : profile[t] # None => profile'[t] # None
    BY <2>1
  <2>3. events \in SUBSET Events
    BY <1>0 DEF ForYouTypeOK, CallStates
  <2>4. ASSUME NEW p \in hidden' PROVE profile'[TopicOf[p]] # None
    <3>1. CASE p \in hidden
      BY <1>a, <2>2, <3>1, PostAssumption DEF HiddenOK
    <3>2. CASE p \notin hidden
      <4>1. PICK e \in events : p = e.post
        BY <2>1, <2>4, <3>2 DEF HidesIn
      <4>2. row[TopicOf[p]] # None
        BY <1>0, <2>1, <4>1 DEF SumInv, PlannedOK
      <4>3. TopicOf[p] \in Topics
        BY <2>3, <4>1, PostAssumption DEF Events
      <4> QED BY <2>1, <4>2, <4>3
    <3> QED BY <3>1, <3>2
  <2>5. hidden \subseteq hidden'
    BY <2>1
  <2> HIDE DEF row, events
  <2> QED BY <1>c, <2>1, <2>2, <2>4, <2>5
<1>4. ASSUME NEW c \in UserCalls, NEW creator \in Creators, Follow(c, creator) \/ Unfollow(c, creator)
      PROVE  Rest'
  <2>1. UNCHANGED <<profile, hidden, posts>> /\ walk' \in {walk, Disturbed}
    BY <1>4 DEF Follow, Unfollow, tables
  <2>2. \A p \in hidden : profile[TopicOf[p]] # None
    BY <1>a DEF HiddenOK
  <2> QED BY <1>b, <1>c, <2>1, <2>2
<1>5. ASSUME NEW p \in Posts, Unlist(p) \/ RemovePost(p) PROVE Rest'
  <2>1. /\ profile' = profile /\ walk' = Disturbed
        /\ hidden' \subseteq hidden /\ \A q \in hidden : q \in hidden' \/ posts'[q] = "gone"
        /\ \A q \in Posts : posts[q] = "gone" => posts'[q] = "gone"
    BY <1>0, <1>a, <1>5 DEF Unlist, RemovePost, ForYouTypeOK
  <2>2. \A q \in hidden : profile[TopicOf[q]] # None
    BY <1>a DEF HiddenOK
  <2> QED BY <1>c, <2>1, <2>2
<1>6. CASE Rescore
  <2>1. UNCHANGED <<profile, hidden, posts>> /\ walk' = Disturbed
    BY <1>6 DEF Rescore
  <2>2. \A q \in hidden : profile[TopicOf[q]] # None
    BY <1>a DEF HiddenOK
  <2> QED BY <1>c, <2>1, <2>2
<1>7. CASE AskPage
  <2>1. /\ UNCHANGED <<profile, hidden, posts>>
        /\ walk'.at = "reading" /\ walk'.before = hidden
        /\ walk'.profiles = None /\ walk'.hidden = None
    BY <1>a, <1>7 DEF AskPage, Walks, tables
  <2>2. HiddenOK'
    BY <1>a, <2>1 DEF HiddenOK
  <2> QED BY <2>1, <2>2 DEF HiddenStaysHidden
<1>8. CASE ReadProfiles \/ ReadFollows \/ ReadHidden
  <2>1. /\ UNCHANGED <<profile, hidden, posts>>
        /\ walk.at = "reading" /\ walk'.at = "reading" /\ walk'.before = walk.before
        /\ walk'.profiles \in {walk.profiles, profile} /\ walk'.hidden \in {walk.hidden, hidden}
    BY <1>a, <1>8 DEF ReadProfiles, ReadFollows, ReadHidden, Walks, tables
  <2>2. HiddenOK'
    BY <1>a, <2>1 DEF HiddenOK
  <2> QED BY <2>1, <2>2 DEF HiddenStaysHidden
<1>9. CASE AnswerPage
  <2>1. PICK start, last, page, more : Cut(Feed(walk), start, last, page, more)
    BY <1>0, <1>9, Answered
  <2> DEFINE feed == Feed(walk)
  <2>2. /\ UNCHANGED <<profile, hidden, posts>>
        /\ walk'.at \in {"rest", "end"} /\ walk'.page = page /\ walk'.before = walk.before
    BY <1>a, <1>9, <2>1 DEF AnswerPage, Cut, Walks, tables
  <2>3. walk.at = "reading" /\ walk.profiles \in Profiles /\ walk.profiles # None /\ walk.hidden # None
    BY <1>a, <1>9 DEF AnswerPage, Walks, Maybe
  <2>4. Range(page) \subseteq Range(feed)
    BY <2>1 DEF Cut
  <2>5. Range(feed) \subseteq Listed /\ (~IsFallback(walk) => Range(feed) \cap walk.hidden = {})
    BY <1>0, <2>3, FeedLists DEF ForYouTypeOK
  <2> HIDE DEF feed
  <2>6. ASSUME NEW p \in Range(page), p \in walk.before PROVE FALSE
    <3>1. /\ walk.profiles[TopicOf[p]] # None
          /\ p \in walk.hidden \/ posts[p] = "gone"
      BY <1>a, <2>3, <2>6 DEF HiddenOK
    <3>2. p \in Posts /\ posts[p] = "listed"
      BY <2>4, <2>5 DEF Listed
    <3>3. ~IsFallback(walk)
      BY <3>1, <3>2, PostAssumption DEF IsFallback
    <3> QED BY <2>4, <2>5, <3>1, <3>2, <3>3
  <2>7. HiddenStaysHidden'
    BY <2>2, <2>6 DEF HiddenStaysHidden
  <2>8. HiddenOK'
    BY <1>a, <2>2 DEF HiddenOK
  <2> QED BY <2>7, <2>8
<1>10. CASE StartAgain
  <2>1. UNCHANGED <<profile, hidden, posts>> /\ walk' = NewWalk
    BY <1>10 DEF StartAgain, tables
  <2>2. HiddenOK'
    BY <1>a, <2>1 DEF HiddenOK, NewWalk
  <2>3. walk'.before = {}
    BY <2>1 DEF NewWalk
  <2> QED BY <2>2, <2>3 DEF HiddenStaysHidden
<1> HIDE DEF Rest
<1> QED BY <1>1, <1>2, <1>3, <1>4, <1>5, <1>6, <1>7, <1>8, <1>9, <1>10 DEF ForYouNext

(* A page never shows what was hidden before the page was asked for, for     *)
(* every number of batches and follows that run while the page is built.     *)
THEOREM HiddenPostsStayHidden == ForYouSpec => []HiddenStaysHidden
<1>1. ForYouInit => HiddenInv
  <2> SUFFICES ASSUME ForYouInit PROVE HiddenInv
    OBVIOUS
  <2>1. hidden = {} /\ walk.at = "rest" /\ walk.before = {}
    BY DEF ForYouInit, NewWalk
  <2> QED BY <2>1, SumInitially DEF HiddenInv, HiddenOK, HiddenStaysHidden
<1>2. HiddenInv => HiddenStaysHidden
  BY DEF HiddenInv
<1> QED BY <1>1, <1>2, HiddenKept, PTL DEF ForYouSpec

-----------------------------------------------------------------------------
(* The feed depends on what a request has read, the posts and their scores. *)
FeedOf(listed, sc, profiles, follow, hide) ==
    LET seen == listed \ hide
        liked == {p \in seen : profiles[TopicOf[p]] # None /\ profiles[TopicOf[p]] > 0}
        candidates == Take(RankedBy(liked, sc))
                      \cup Take(Newest({p \in seen : AuthorOf[p] \in follow}))
                      \cup Take(RankedBy(seen \cap Trending, sc))
                      \cup Take(Newest(seen))
        personal == [p \in Posts |->
           LET bonus == IF profiles[TopicOf[p]] = None THEN 0 ELSE 8 * profiles[TopicOf[p]]
           IN  sc[p] + (IF bonus > 1000 THEN 1000 ELSE bonus)
               + (IF AuthorOf[p] \in follow THEN 350 ELSE 0)]
    IN  IF (\A t \in Topics : profiles[t] = None) /\ follow = {}
          THEN RankedBy(listed \cap Trending, sc)
          ELSE Diversified(candidates, personal)

LEMMA FeedIs == ASSUME NEW w PROVE Feed(w) = FeedOf(Listed, score, w.profiles, w.follows, w.hidden)
BY Zenon DEF Feed, FeedOf, IsFallback, Candidates, Personal

LEMMA FeedNow == Feed(Now) = FeedOf(Listed, score, profile, follows, hidden)
BY FeedIs DEF Now

LEMMA FeedKept ==
    ASSUME UNCHANGED <<posts, score, profile, follows, hidden>>
    PROVE  Feed(Now)' = Feed(Now)
<1>1. Listed' = Listed
  BY DEF Listed
<1>2. (Feed(Now) = FeedOf(Listed, score, profile, follows, hidden))'
  BY FeedNow, PTL
<1>3. Feed(Now)' = FeedOf(Listed', score', profile', follows', hidden')
  BY <1>2
<1> QED BY <1>1, <1>3, FeedNow

LEMMA FallbackSorted ==
    ASSUME score \in Scores, NEW w, IsFallback(w), NEW feed, feed = Feed(w)
    PROVE  \A i, j \in DOMAIN feed : i < j => Precedes(score, feed[i], feed[j])
<1> DEFINE S == Listed \cap Trending
           before == ByScore(score)
<1>1. S \in SUBSET Posts /\ IsFiniteSet(S)
  BY PostAssumption, FS_Subset DEF Listed
<1>2. feed = Ordered(S, before)
  BY DEF Feed, RankedBy
<1>3. Orders(before, S)
  BY <1>1, ScoreOrders
<1> HIDE DEF S, before
<1>4. Listing(feed, S, before) /\ feed \in Seq(S)
  BY <1>1, <1>2, <1>3, OrderedLists
<1>5. ASSUME NEW i \in DOMAIN feed, NEW j \in DOMAIN feed, i < j
      PROVE  Precedes(score, feed[i], feed[j])
  <2>1. before[feed[i]][feed[j]]
    BY <1>4, <1>5 DEF Listing
  <2>2. feed[i] \in Posts /\ feed[j] \in Posts
    BY <1>1, <1>4
  <2> QED BY <2>1, <2>2 DEF before, ByScore
<1> QED BY <1>5

LEMMA NotBoth ==
    ASSUME NEW sc \in Scores, NEW p \in Posts, NEW q \in Posts, Precedes(sc, p, q)
    PROVE  ~Precedes(sc, q, p) /\ p # q
<1>1. sc[p] \in Int /\ sc[q] \in Int /\ CreatedAt[p] \in Int /\ CreatedAt[q] \in Int
  BY PostAssumption DEF Scores
<1> QED BY <1>1 DEF Precedes

(* The page after the n-th item of the feed starts at the next one.         *)
LEMMA StartAfter ==
    ASSUME score \in Scores, NEW w, w.profiles \in Profiles, NEW feed, feed = Feed(w),
           NEW n \in 1..Len(feed), w.cursor = feed[n]
    PROVE  Start(w, feed) = n + 1
<1>1. /\ feed \in Seq(Posts) /\ Range(feed) \subseteq Listed
      /\ \A i, j \in DOMAIN feed : feed[i] = feed[j] => i = j
  BY FeedLists
<1>2. Len(feed) \in Nat /\ DOMAIN feed = 1..Len(feed) /\ n \in DOMAIN feed
  BY <1>1
<1>3. w.cursor \in Posts /\ w.cursor \in Listed /\ w.cursor # None
  BY <1>1, <1>2, UserAssumption DEF Range
<1> DEFINE at == {i \in DOMAIN feed : feed[i] = w.cursor}
           upTo == {i \in DOMAIN feed :
                      feed[i] = w.cursor \/ Precedes(score, feed[i], w.cursor)}
<1>4. CASE ~IsFallback(w)
  <2>1. at = {n}
    BY <1>1, <1>2
  <2>2. Start(w, feed) = IF at = {} THEN 1 ELSE 1 + (CHOOSE i \in at : TRUE)
    BY <1>3, <1>4 DEF Start
  <2>3. (CHOOSE i \in at : TRUE) = n
    BY <2>1
  <2> HIDE DEF at
  <2>4. Start(w, feed) = 1 + n
    BY <2>1, <2>2, <2>3
  <2> QED BY <1>2, <2>4
<1>5. CASE IsFallback(w)
  <2>1. upTo = 1..n
    <3>1. ASSUME NEW i \in 1..Len(feed), i < n PROVE i \in upTo
      BY <1>2, <1>5, <3>1, FallbackSorted
    <3>2. ASSUME NEW i \in 1..Len(feed), i > n PROVE i \notin upTo
      <4>1. Precedes(score, feed[n], feed[i]) /\ feed[n] \in Posts /\ feed[i] \in Posts
        BY <1>1, <1>2, <1>5, <3>2, FallbackSorted
      <4>2. ~Precedes(score, feed[i], feed[n]) /\ feed[i] # feed[n]
        BY <4>1, NotBoth
      <4> QED BY <4>2
    <3>3. n \in upTo /\ upTo \subseteq 1..Len(feed)
      BY <1>2
    <3> HIDE DEF upTo
    <3>4. ASSUME NEW i \in 1..Len(feed) PROVE i \in upTo <=> i <= n
      <4>1. CASE i = n
        BY <3>3, <4>1
      <4> QED BY <1>2, <3>1, <3>2, <4>1
    <3>5. \A i : i \in upTo <=> i \in 1..n
      BY <1>2, <3>3, <3>4
    <3> QED BY <3>5
  <2>2. Cardinality(upTo) = n
    <3>1. Cardinality(1..n) = n
      BY <1>2, FS_Interval
    <3> QED BY <2>1, <3>1
  <2>3. Start(w, feed) = 1 + Cardinality(upTo)
    BY <1>3, <1>5 DEF Start
  <2> HIDE DEF upTo
  <2> QED BY <1>2, <2>2, <2>3
<1> QED BY <1>4, <1>5

LEMMA NowLists ==
    ASSUME ForYouTypeOK
    PROVE  /\ Feed(Now) \in Seq(Posts) /\ Len(Feed(Now)) \in Nat
           /\ \A i, j \in 1..Len(Feed(Now)) : Feed(Now)[i] = Feed(Now)[j] => i = j
<1>1. score \in Scores /\ Now.profiles \in Profiles
  BY DEF ForYouTypeOK, Now
<1>2. /\ Feed(Now) \in Seq(Posts)
      /\ \A i, j \in DOMAIN Feed(Now) : Feed(Now)[i] = Feed(Now)[j] => i = j
  BY <1>1, FeedLists
<1> QED BY <1>2

LEMMA FeedLength == ForYouTypeOK => Len(Feed(Now)) \in Nat
BY NowLists

PagesInv == ForYouTypeOK /\ PagesOK

LEMMA PagesKept == PagesInv /\ [ForYouNext]_forYouVars => PagesInv'
<1> SUFFICES ASSUME PagesInv, [ForYouNext]_forYouVars PROVE PagesInv'
  OBVIOUS
<1>0. ForYouTypeOK /\ ForYouTypeOK'
  BY TypesKept DEF PagesInv
<1> SUFFICES PagesOK'
  BY <1>0 DEF PagesInv
<1>a. PagesOK /\ walk \in Walks
  BY <1>0 DEF PagesInv, ForYouTypeOK
<1>b. ASSUME UNCHANGED <<posts, score, profile, follows, hidden, walk>> PROVE PagesOK'
  <2>1. Feed(Now)' = Feed(Now)
    BY <1>b, FeedKept
  <2> QED BY <1>a, <1>b, <2>1 DEF PagesOK
<1>c. ASSUME walk' = Disturbed PROVE PagesOK'
  <2>1. walk'.calm = FALSE
    BY <1>a, <1>c DEF Disturbed, Walks
  <2> QED BY <2>1 DEF PagesOK
<1>1. CASE UNCHANGED forYouVars
  BY <1>1, <1>b DEF forYouVars, tables
<1>2. ASSUME NEW c \in UserCalls,
             \/ SendBatch(c) \/ Resolve(c) \/ Insert(c) \/ ReadSource(c) \/ Abort(c)
             \/ \E r \in Rows : UpsertRow(c, r)
      PROVE  PagesOK'
  BY <1>2, <1>b DEF SendBatch, Resolve, Insert, ReadSource, UpsertRow, Abort, tables
<1>3. ASSUME NEW c \in UserCalls, Commit(c) PROVE PagesOK'
  BY <1>3, <1>c DEF Commit
<1>4. ASSUME NEW c \in UserCalls, NEW creator \in Creators, Follow(c, creator) \/ Unfollow(c, creator)
      PROVE  PagesOK'
  BY <1>4, <1>b, <1>c DEF Follow, Unfollow, tables
<1>5. ASSUME NEW p \in Posts, Unlist(p) \/ RemovePost(p) PROVE PagesOK'
  BY <1>5, <1>c DEF Unlist, RemovePost
<1>6. CASE Rescore
  BY <1>6, <1>c DEF Rescore
<1>7. CASE AskPage \/ ReadProfiles \/ ReadFollows \/ ReadHidden
  <2>1. /\ UNCHANGED <<posts, score, profile, follows, hidden>>
        /\ walk.at # "end" /\ walk'.at # "end" /\ walk'.calm = walk.calm
        /\ walk'.shown = walk.shown /\ walk'.cursor = walk.cursor
        /\ walk'.profiles \in {None, walk.profiles, profile}
        /\ walk'.follows \in {None, walk.follows, follows}
        /\ walk'.hidden \in {None, walk.hidden, hidden}
    BY <1>a, <1>7 DEF AskPage, ReadProfiles, ReadFollows, ReadHidden, tables, Walks
  <2>2. Feed(Now)' = Feed(Now)
    BY <2>1, FeedKept
  <2> QED BY <1>a, <2>1, <2>2 DEF PagesOK
<1>8. CASE AnswerPage
  <2>1. UNCHANGED <<posts, score, profile, follows, hidden>>
    BY <1>8 DEF AnswerPage, tables
  <2>2. Feed(Now)' = Feed(Now)
    BY <2>1, FeedKept
  <2>3. PICK start, last, page, more : Cut(Feed(walk), start, last, page, more)
    BY <1>0, <1>8, Answered
  <2>4. walk'.calm = walk.calm
    BY <1>a, <2>3 DEF Cut, Walks
  <2>5. SUFFICES ASSUME walk.calm PROVE PagesOK'
    BY <2>4 DEF PagesOK
  <2>6. walk.profiles = profile /\ walk.follows = follows /\ walk.hidden = hidden
        /\ None \notin {walk.profiles, walk.follows, walk.hidden} /\ walk.at = "reading"
    BY <1>a, <1>8, <2>5 DEF PagesOK, AnswerPage
  <2> DEFINE feed == Feed(Now)
             n == Len(walk.shown)
             shown == walk.shown \o page
             cursor == IF more THEN page[Len(page)] ELSE None
  <2>7. Feed(walk) = feed
    BY <2>6, FeedNow, FeedIs
  <2>8. /\ feed \in Seq(Posts) /\ Len(feed) \in Nat
        /\ walk.shown \in Seq(Posts) /\ n \in Nat /\ n <= Len(feed)
        /\ \A i \in 1..n : walk.shown[i] = feed[i]
    BY <1>0, <1>a, <2>5, NowLists DEF PagesOK, Walks
  <2>9. start = n + 1
    <3>1. start = Start(walk, feed)
      BY <2>3, <2>7 DEF Cut
    <3>2. CASE walk.shown = <<>>
      <4>1. walk.cursor = None /\ n = 0
        BY <1>a, <2>5, <2>6, <3>2 DEF PagesOK
      <4> QED BY <3>1, <4>1 DEF Start
    <3>3. CASE walk.shown # <<>>
      <4>1. n \in 1..Len(feed)
        BY <2>8, <3>3
      <4>2. walk.cursor = feed[n]
        BY <1>a, <2>5, <2>6, <2>8, <3>3, <4>1 DEF PagesOK
      <4>3. score \in Scores /\ walk.profiles \in Profiles
        BY <1>0, <2>6 DEF ForYouTypeOK
      <4> HIDE DEF feed, n
      <4> QED BY <2>7, <3>1, <4>1, <4>2, <4>3, StartAfter
    <3> QED BY <3>2, <3>3
  <2>10. /\ page \in Seq(Posts) /\ last \in Nat /\ last <= Len(feed) /\ n <= last
         /\ Len(page) = last - n /\ more = (n + 1 + Limit <= Len(feed))
         /\ last = IF more THEN n + Limit ELSE Len(feed)
         /\ \A i \in 1..Len(page) : page[i] = feed[n + i]
    <3> HIDE DEF feed, n
    <3>1. Cut(feed, start, last, page, more)
      BY <2>3, <2>7
    <3>2. /\ page \in Seq(Posts) /\ last \in Nat /\ Len(page) = last - start + 1
          /\ more = (start + Limit <= Len(feed))
          /\ last = IF more THEN start + Limit - 1 ELSE Len(feed)
          /\ \A i \in 1..Len(page) : page[i] = feed[start - 1 + i]
      BY <3>1 DEF Cut
    <3>3. more = (n + 1 + Limit <= Len(feed)) /\ last = (IF more THEN n + Limit ELSE Len(feed))
          /\ Len(page) = last - n
      BY <2>8, <2>9, <3>2, PostAssumption
    <3>4. last <= Len(feed) /\ n <= last
      <4>1. CASE more
        <5>1. n + 1 + Limit <= Len(feed) /\ last = n + Limit
          BY <3>3, <4>1
        <5> QED BY <2>8, <5>1, PostAssumption
      <4>2. CASE ~more
        BY <2>8, <3>3, <4>2
      <4> QED BY <4>1, <4>2
    <3>5. \A i \in 1..Len(page) : page[i] = feed[n + i]
      <4>1. \A i \in 1..Len(page) : start - 1 + i = n + i
        BY <2>8, <2>9
      <4> QED BY <3>2, <4>1
    <3> QED BY <3>2, <3>3, <3>4, <3>5
  <2>11. /\ walk'.at = IF more THEN "rest" ELSE "end"
         /\ walk'.shown = shown /\ walk'.cursor = cursor
         /\ walk'.profiles = walk.profiles /\ walk'.follows = walk.follows
         /\ walk'.hidden = walk.hidden
    BY <1>a, <2>3, <2>5 DEF Cut, Walks
  <2> HIDE DEF feed, n
  <2>12. /\ shown \in Seq(Posts) /\ Len(shown) = last
         /\ \A i \in 1..last : shown[i] = feed[i]
    <3>1. n = Len(walk.shown)
      BY DEF n
    <3>2. shown \in Seq(Posts) /\ Len(shown) = last
      <4>1. shown \in Seq(Posts) /\ Len(shown) = Len(walk.shown) + Len(page)
        BY <2>8, <2>10, ConcatProperties
      <4> QED BY <2>8, <2>10, <3>1, <4>1
    <3>3. ASSUME NEW i \in 1..last PROVE shown[i] = feed[i]
      <4>1. CASE i <= n
        BY <2>8, <2>10, <3>1, <4>1
      <4>2. CASE i > n
        <5>1. shown[i] = page[i - n] /\ i - n \in 1..Len(page)
          BY <2>8, <2>10, <3>1, <4>2
        <5>2. n + (i - n) = i
          BY <2>8, <2>10
        <5> QED BY <2>10, <5>1, <5>2
      <4>3. i <= n \/ i > n
        BY <2>8, <2>10
      <4> QED BY <4>1, <4>2, <4>3
    <3> QED BY <3>2, <3>3
  <2>13. more => /\ last < Len(feed) /\ shown # <<>> /\ cursor = shown[Len(shown)]
    <3> SUFFICES ASSUME more PROVE last < Len(feed) /\ shown # <<>> /\ cursor = shown[Len(shown)]
      OBVIOUS
    <3>1. Limit \in Nat /\ Limit > 0 /\ last = n + Limit /\ Len(page) = Limit
      BY <2>8, <2>10, PostAssumption
    <3>2. last \in 1..last /\ Limit \in 1..Len(page) /\ last < Len(feed)
      <4>1. n + 1 + Limit <= Len(feed)
        BY <2>10
      <4> QED BY <2>8, <3>1, <4>1
    <3>3. cursor = page[Limit] /\ page[Limit] = feed[last]
      BY <2>10, <3>1, <3>2
    <3>4. shown[last] = feed[last] /\ Len(shown) = last
      BY <2>12, <3>2
    <3>5. shown # <<>>
      BY <3>2, <3>4
    <3> HIDE DEF shown, cursor
    <3> QED BY <3>2, <3>3, <3>4, <3>5
  <2>14. Feed(Now)' = feed
    BY <2>2 DEF feed
  <2> HIDE DEF shown, cursor
  <2>15. CASE more
    BY <2>1, <2>6, <2>10, <2>11, <2>12, <2>13, <2>14, <2>15 DEF PagesOK
  <2>16. CASE ~more
    BY <2>1, <2>6, <2>10, <2>11, <2>12, <2>14, <2>16 DEF PagesOK
  <2> QED BY <2>15, <2>16
<1>9. CASE StartAgain
  <2>1. /\ walk'.profiles = None /\ walk'.follows = None /\ walk'.hidden = None
        /\ walk'.at = "rest" /\ walk'.shown = <<>> /\ walk'.cursor = None
    BY <1>9 DEF StartAgain, NewWalk
  <2>2. Len(Feed(Now)') \in Nat
    <3>1. (ForYouTypeOK => Len(Feed(Now)) \in Nat)'
      BY FeedLength, PTL
    <3> QED BY <1>0, <3>1
  <2> QED BY <2>1, <2>2 DEF PagesOK
<1> QED BY <1>1, <1>2, <1>3, <1>4, <1>5, <1>6, <1>7, <1>8, <1>9 DEF ForYouNext

(* Reading to the end shows the whole feed, and nothing twice, for every     *)
(* page size and whatever the scores are.                                    *)
THEOREM PagesCoverTheFeed == ForYouSpec => []PagesCover
<1>1. ForYouInit => PagesInv
  <2> SUFFICES ASSUME ForYouInit PROVE PagesInv
    OBVIOUS
  <2>1. /\ walk.profiles = None /\ walk.follows = None /\ walk.hidden = None
        /\ walk.at = "rest" /\ walk.shown = <<>> /\ walk.cursor = None
    BY DEF ForYouInit, NewWalk
  <2>2. Len(Feed(Now)) \in Nat
    BY TypesInitially, NowLists
  <2> QED BY <2>1, <2>2, TypesInitially DEF PagesInv, PagesOK
<1>2. PagesInv => PagesCover
  <2> SUFFICES ASSUME PagesInv, walk.at = "end", walk.calm
               PROVE  /\ Range(walk.shown) = Range(Feed(walk))
                      /\ Len(walk.shown) = Cardinality(Range(walk.shown))
    BY DEF PagesCover
  <2> DEFINE feed == Feed(Now)
             shown == walk.shown
             n == Len(feed)
  <2>1. /\ walk.profiles = profile /\ walk.follows = follows /\ walk.hidden = hidden
        /\ Len(shown) = n /\ \A i \in 1..Len(shown) : shown[i] = feed[i]
    BY DEF PagesInv, PagesOK
  <2>2. Feed(walk) = feed
    BY <2>1, FeedNow, FeedIs
  <2>3. /\ feed \in Seq(Posts) /\ n \in Nat /\ shown \in Seq(Posts)
        /\ \A i, j \in 1..n : feed[i] = feed[j] => i = j
    BY NowLists DEF PagesInv, ForYouTypeOK, Walks
  <2> HIDE DEF feed, shown
  <2>4. DOMAIN shown = 1..n /\ DOMAIN feed = 1..n
    BY <2>1, <2>3
  <2>5. Range(shown) = Range(feed)
    BY <2>1, <2>4 DEF Range
  <2> DEFINE R == Range(shown)
  <2>6. shown \in [1..n -> R] /\ \A r \in R : \E i \in 1..n : shown[i] = r
    BY <2>3, <2>4 DEF Range
  <2>7. \A i, j \in 1..n : shown[i] = shown[j] => i = j
    BY <2>1, <2>3
  <2> HIDE DEF R, n
  <2>8. shown \in Bijection(1..n, R)
    BY <2>6, <2>7 DEF Bijection, Injection, Surjection, IsInjective
  <2>9. IsFiniteSet(1..n) /\ Cardinality(1..n) = n
    BY <2>3, FS_Interval
  <2>10. Cardinality(R) = n
    BY <2>8, <2>9, FS_Bijection DEF ExistsBijection
  <2> QED BY <2>1, <2>2, <2>5, <2>10 DEF R, shown, n
<1> QED BY <1>1, <1>2, PagesKept, PTL DEF ForYouSpec
=============================================================================
