------------------------------ MODULE FeedCache ------------------------------
(***************************************************************************)
(* The stale-while-revalidate cache of the explore feeds                   *)
(* (src/src/modules/explore/explore.service.ts, getExplore and getForYou)  *)
(* and the Redis keys it keeps.  One public feed (the trending one) and    *)
(* one user's for-you feed stand for all cache keys: for-you is the only   *)
(* feed whose producer reads another one through the cache, when the user  *)
(* has no profile and follows nobody.  A payload is abstracted to the age  *)
(* of what it was built from: `own', the user's profiles, follows and      *)
(* hidden posts, and `items', the explore items.                           *)
(***************************************************************************)
EXTENDS Integers

CONSTANTS
    Calls,          \* HTTP requests that may be building a response at once
    PublicTasks,    \* background revalidations of the public feed
    ForYouTasks,    \* background revalidations of the for-you feed
    FreshTtl,       \* [Keys -> Nat], EXPLORE_*_CACHE_TTL_SECONDS
    StaleTtl,       \* [Keys -> Nat], EXPLORE_*_CACHE_STALE_TTL_SECONDS
    LockTtl,        \* CACHE_REVALIDATE_LOCK_TTL_SECONDS
    MaxProduce,     \* bound: the longest a response takes to build
    Faults          \* which of "get", "set", "lock" and "produce" may fail

Keys == {"public", "forYou"}
Tasks == PublicTasks \cup ForYouTasks
Workers == Calls \cup Tasks
TasksOf(k) == IF k = "public" THEN PublicTasks ELSE ForYouTasks

(* The TTLs are rounded down to whole seconds.  LockTtl is a constant of   *)
(* the class, smaller than both default fresh TTLs.                        *)
ASSUME TtlAssumption ==
    /\ FreshTtl \in [Keys -> Nat] /\ StaleTtl \in [Keys -> Nat]
    /\ LockTtl \in Nat \ {0} /\ MaxProduce \in Nat
    /\ \A k \in Keys : LockTtl <= FreshTtl[k]

ASSUME WorkerAssumption ==
    /\ Calls \cap Tasks = {} /\ PublicTasks \cap ForYouTasks = {}

VARIABLES
    cached,  \* the keys that Redis holds
    entry,   \* entry[k]: time since k was written, and the ages it carries
    lock,    \* lock[k]: what is left of the revalidate-lock key, 0 if none
    work,    \* work[w]: where worker w is in building a response
    renewal  \* ghost: "due" from a stale answer given early enough until the
             \* next write, "failed" if a step of a renewal failed before that

vars == <<cached, entry, lock, work, renewal>>

LifeTime(k) == FreshTtl[k] + StaleTtl[k]

(* A response for a feed, with nothing read yet. *)
Response(at, kind) ==
    [at |-> at, kind |-> kind, nested |-> FALSE, own |-> 0, items |-> 0, life |-> 0]

Idle == Response("idle", "public")
FirstStage(kind) == IF kind = "public" THEN "items" ELSE "own"
Producing(kind) == Response(FirstStage(kind), kind)
Revalidating(k) == Response("lock", k)

NoEntry == [age |-> 0, own |-> 0, items |-> 0]

Init ==
    /\ cached = {}
    /\ entry = [k \in Keys |-> NoEntry]
    /\ lock = [k \in Keys |-> 0]
    /\ renewal = [k \in Keys |-> "none"]
    /\ work = [w \in Workers |-> Idle]

(***************************************************************************)
(* getCacheEnvelope.  Redis drops an entry after LifeTime(k) (EX); a read  *)
(* that fails is a miss.                                                   *)
(***************************************************************************)
Fresh(k) == k \in cached /\ entry[k].age <= FreshTtl[k]
Stale(k) == k \in cached /\ entry[k].age > FreshTtl[k]
Missed(k) == k \notin cached \/ "get" \in Faults

(* A stale answer starts a renewal.  It is due if it must finish before    *)
(* the entry expires: within two productions, since the lock may go to     *)
(* another task that started up to one production later.                   *)
Promised(k) ==
    IF renewal[k] = "none" /\ entry[k].age + 2 * MaxProduce <= LifeTime(k)
      THEN [renewal EXCEPT ![k] = "due"] ELSE renewal

(***************************************************************************)
(* getExplore and getForYou.  An answer from a fresh entry changes nothing *)
(* and is no step; a stale one leaves a revalidation behind that nobody    *)
(* waits for.                                                              *)
(***************************************************************************)
AnswerStale(k, t) ==
    /\ Stale(k) /\ t \in TasksOf(k) /\ work[t].at = "idle"
    /\ work' = [work EXCEPT ![t] = Revalidating(k)]
    /\ renewal' = Promised(k)
    /\ UNCHANGED <<cached, entry, lock>>

AskMiss(c, k) ==
    /\ work[c].at = "idle" /\ Missed(k)
    /\ work' = [work EXCEPT ![c] = Producing(k)]
    /\ UNCHANGED <<cached, entry, lock, renewal>>

(* A for-you request with debug=true goes round the cache.                 *)
AskDebug(c) ==
    /\ work[c].at = "idle"
    /\ work' = [work EXCEPT ![c] = Producing("debug")]
    /\ UNCHANGED <<cached, entry, lock, renewal>>

(***************************************************************************)
(* revalidateCacheInBackground: SET NX EX, which nobody deletes.           *)
(***************************************************************************)
(* Mutant: the lock is set without NX.                                     *)
TakeLockMutant(t) ==
    LET k == work[t].kind IN
    /\ work[t].at = "lock"
    /\ lock' = [lock EXCEPT ![k] = LockTtl]
    /\ work' = [work EXCEPT ![t].at = FirstStage(k)]
    /\ UNCHANGED <<cached, entry, renewal>>

TakeLock(t) ==
    LET k == work[t].kind IN
    /\ work[t].at = "lock" /\ lock[k] = 0
    /\ lock' = [lock EXCEPT ![k] = LockTtl]
    /\ work' = [work EXCEPT ![t].at = FirstStage(k)]
    /\ UNCHANGED <<cached, entry, renewal>>

LoseLock(t) ==
    /\ work[t].at = "lock" /\ lock[work[t].kind] > 0
    /\ work' = [work EXCEPT ![t] = Idle]
    /\ UNCHANGED <<cached, entry, lock, renewal>>

(* The command fails, before Redis did it or after.                        *)
LockFails(t) ==
    LET k == work[t].kind IN
    /\ "lock" \in Faults /\ work[t].at = "lock"
    /\ \/ UNCHANGED lock
       \/ lock[k] = 0 /\ lock' = [lock EXCEPT ![k] = LockTtl]
    /\ work' = [work EXCEPT ![t] = Idle]
    /\ renewal' = [renewal EXCEPT ![k] = "failed"]
    /\ UNCHANGED <<cached, entry>>

(***************************************************************************)
(* The producers.  buildForYouResponse reads profiles, follows and hidden  *)
(* posts; it goes on with the items, or, with neither profiles nor         *)
(* follows, calls getExplore for the trending feed, which has a cache      *)
(* entry, a revalidation and a write of its own.                           *)
(***************************************************************************)
ReadOwn(w) ==
    /\ work[w].at = "own"
    /\ \E at \in {"items", "fallback"} :
         work' = [work EXCEPT ![w].at = at, ![w].own = 0]
    /\ UNCHANGED <<cached, entry, lock, renewal>>

FallbackFresh(w) ==
    /\ work[w].at = "fallback" /\ Fresh("public")
    /\ work' = [work EXCEPT ![w].at = "write", ![w].items = entry["public"].items]
    /\ UNCHANGED <<cached, entry, lock, renewal>>

FallbackStale(w, t) ==
    /\ work[w].at = "fallback" /\ Stale("public")
    /\ t \in PublicTasks /\ work[t].at = "idle"
    /\ work' = [work EXCEPT ![w].at = "write", ![w].items = entry["public"].items,
                            ![t] = Revalidating("public")]
    /\ renewal' = Promised("public")
    /\ UNCHANGED <<cached, entry, lock>>

FallbackMiss(w) ==
    /\ work[w].at = "fallback" /\ Missed("public")
    /\ work' = [work EXCEPT ![w].at = "items", ![w].nested = TRUE]
    /\ UNCHANGED <<cached, entry, lock, renewal>>

ReadItems(w) ==
    /\ work[w].at = "items"
    /\ work' = [work EXCEPT ![w].at = IF work[w].nested THEN "inner" ELSE "write",
                            ![w].items = 0]
    /\ UNCHANGED <<cached, entry, lock, renewal>>

(***************************************************************************)
(* setCacheEnvelope: a write that fails is only logged.                    *)
(***************************************************************************)
Store(k, r) ==
    \/ /\ cached' = cached \cup {k}
       /\ entry' = [entry EXCEPT ![k] = [age |-> 0, own |-> r.own, items |-> r.items]]
       /\ renewal' = [renewal EXCEPT ![k] = "none"]
    \/ /\ "set" \in Faults
       /\ renewal' = [renewal EXCEPT ![k] = "failed"]
       /\ UNCHANGED <<cached, entry>>

InnerWrite(w) ==
    /\ work[w].at = "inner"
    /\ Store("public", [own |-> 0, items |-> work[w].items])
    /\ work' = [work EXCEPT ![w].at = "write"]
    /\ UNCHANGED lock

Write(w) ==
    /\ work[w].at = "write" /\ work[w].kind \in Keys
    /\ Store(work[w].kind, work[w])
    /\ work' = [work EXCEPT ![w] = Idle]
    /\ UNCHANGED lock

AnswerDebug(c) ==
    /\ work[c].at = "write" /\ work[c].kind = "debug"
    /\ work' = [work EXCEPT ![c] = Idle]
    /\ UNCHANGED <<cached, entry, lock, renewal>>

(* Mutant: a revalidation that fails writes the old entry back.            *)
ProduceFailsMutant(w) ==
    /\ "produce" \in Faults /\ work[w].at \notin {"idle", "lock"}
    /\ work' = [work EXCEPT ![w] = Idle]
    /\ renewal' = IF w \in Tasks THEN [renewal EXCEPT ![work[w].kind] = "failed"]
                               ELSE renewal
    /\ entry' = [k \in Keys |-> IF w \in Tasks /\ k = work[w].kind /\ k \in cached
                                  THEN [entry[k] EXCEPT !.age = 0] ELSE entry[k]]
    /\ UNCHANGED <<cached, lock>>

(* A database read throws, or the process ends: a call is an error, a task *)
(* is logged.  The lock of a task stays until it expires.                  *)
ProduceFails(w) ==
    /\ "produce" \in Faults /\ work[w].at \notin {"idle", "lock"}
    /\ work' = [work EXCEPT ![w] = Idle]
    /\ renewal' = IF w \in Tasks THEN [renewal EXCEPT ![work[w].kind] = "failed"]
                               ELSE renewal
    /\ UNCHANGED <<cached, entry, lock>>

(***************************************************************************)
(* One unit of time.  No response takes longer than MaxProduce to build.   *)
(* Only what was read ages; a public response reads nothing of a user's.   *)
(***************************************************************************)
OlderEntry(k) ==
    [age |-> entry[k].age + 1, items |-> entry[k].items + 1,
     own |-> IF k = "forYou" THEN entry[k].own + 1 ELSE 0]

OlderWork(r) ==
    [r EXCEPT !.life = r.life + 1,
              !.own = IF r.kind # "public" /\ r.at \notin {"lock", "own"} THEN r.own + 1 ELSE 0,
              !.items = IF r.at \in {"inner", "write"} THEN r.items + 1 ELSE 0]

(* Mutant: the lock is set without EX.                                     *)
TickMutant ==
    /\ \A w \in Workers : work[w].at # "idle" => work[w].life < MaxProduce
    /\ cached' = {k \in cached : entry[k].age < LifeTime(k)}
    /\ entry' = [k \in Keys |-> IF k \in cached' THEN OlderEntry(k) ELSE NoEntry]
    /\ work' = [w \in Workers |->
         IF work[w].at = "idle" THEN Idle ELSE OlderWork(work[w])]
    /\ renewal' = [k \in Keys |-> IF k \in cached' THEN renewal[k] ELSE "none"]
    /\ UNCHANGED lock

Tick ==
    /\ \A w \in Workers : work[w].at # "idle" => work[w].life < MaxProduce
    /\ cached' = {k \in cached : entry[k].age < LifeTime(k)}
    /\ entry' = [k \in Keys |->
         IF k \in cached' THEN OlderEntry(k) ELSE NoEntry]
    /\ lock' = [k \in Keys |-> IF lock[k] > 0 THEN lock[k] - 1 ELSE 0]
    /\ work' = [w \in Workers |->
         IF work[w].at = "idle" THEN Idle ELSE OlderWork(work[w])]
    /\ renewal' = [k \in Keys |-> IF k \in cached' THEN renewal[k] ELSE "none"]

Next ==
    \/ \E k \in Keys, t \in Tasks : AnswerStale(k, t)
    \/ \E c \in Calls, k \in Keys : AskMiss(c, k)
    \/ \E c \in Calls : AskDebug(c) \/ AnswerDebug(c)
    \/ \E t \in Tasks : TakeLock(t) \/ LoseLock(t) \/ LockFails(t)
    \/ \E w \in Workers :
         \/ ReadOwn(w) \/ FallbackFresh(w) \/ FallbackMiss(w)
         \/ ReadItems(w) \/ InnerWrite(w) \/ Write(w) \/ ProduceFails(w)
    \/ \E w \in Workers, t \in Tasks : FallbackStale(w, t)
    \/ Tick

Spec == Init /\ [][Next]_vars

-----------------------------------------------------------------------------
Stages == {"idle", "lock", "own", "items", "fallback", "inner", "write"}
Kinds == Keys \cup {"debug"}

Responses == [at : Stages, kind : Kinds, nested : BOOLEAN,
              own : Nat, items : Nat, life : Nat]

(* Type invariant.                                                         *)
TypeOK ==
    /\ cached \subseteq Keys
    /\ renewal \in [Keys -> {"none", "due", "failed"}]
    /\ entry \in [Keys -> [age : Nat, own : Nat, items : Nat]]
    /\ lock \in [Keys -> 0..LockTtl]
    /\ work \in [Workers -> Responses]

(***************************************************************************)
(* How old what a user sees can be.  A public feed shows items read at     *)
(* most fresh + stale TTL and one production ago.  A for-you feed shows    *)
(* hidden posts, follows and profiles no older than that with its own      *)
(* TTLs; its items may come from the public feed's entry, and so be older  *)
(* by all that a public feed may be.  A debug response reads its profiles  *)
(* itself, but its items too may come from the public entry.  Answers come *)
(* from an entry or from a response about to be written.                   *)
(***************************************************************************)
PublicBound == LifeTime("public") + MaxProduce
ForYouBound == LifeTime("forYou") + MaxProduce

OwnBound(kind) ==
    CASE kind = "public" -> PublicBound
      [] kind = "forYou" -> ForYouBound
      [] OTHER -> MaxProduce

ItemsBound(kind) ==
    IF kind = "public" THEN PublicBound ELSE PublicBound + OwnBound(kind)

Bounded(kind, r) == r.own <= OwnBound(kind) /\ r.items <= ItemsBound(kind)

StaleBounded ==
    /\ \A k \in cached : Bounded(k, entry[k])
    /\ \A w \in Workers : work[w].at = "write" => Bounded(work[w].kind, work[w])

(* Two revalidations of one feed build it at the same time only if one of  *)
(* them has outlived the lock.                                             *)
OverlapOnlyWhenSlow ==
    \A k \in Keys : \A t, u \in TasksOf(k) :
      t # u /\ work[t].at \notin {"idle", "lock"} /\ work[u].at \notin {"idle", "lock"}
      => work[t].life >= LockTtl \/ work[u].life >= LockTtl

(* An entry that was asked for while stale, early enough for a renewal to  *)
(* end in time, does not expire unless a step of the renewal failed: a     *)
(* lock left behind by an earlier revalidation never keeps a feed from     *)
(* being renewed.                                                          *)
Renewed == [][\A k \in cached : renewal[k] = "due" => k \in cached']_vars

=============================================================================
