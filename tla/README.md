# Verification of neura_gen

TLA+ models of the NestJS backend in `src/` (the API process, the video worker
and their PostgreSQL, Redis and BullMQ), TLC configurations that check them on
small instances, and theorems that TLAPS proves for every instance. Paths below
are relative to the repository; `jobs.service.ts` and the like stand for the file
of that name under `src/modules/`.

To repeat a run: `tlc -workers 2 -config JobRequests.cfg MCJobLifecycle`. To
repeat the proofs: `tlapm JobLifecycleProofs.tla`.

## 1. The system

The backend turns images into videos for credits, sells credits and a PRO
subscription, and publishes the results in a small social network.

| Component | State it keeps | Operations that change it | Interacts with | Model |
|---|---|---|---|---|
| Video jobs, API side (`jobs.service.ts`) | `GenerateJob` rows and status, credit ledger | `createVideoJob`, `cancelJob` | wallet and quota (one transaction), BullMQ (`add`, `remove`), job events | JobLifecycle, CreditCharge |
| Video jobs, worker (`workers/video.worker.ts`) | job status, assets and versions, objects in S3, refunds | `handle`: checks, provider call, uploads, rows, completion, catch block | BullMQ, providers, storage, job events | JobLifecycle |
| Provider plan and breaker (`video.worker.ts:659-1002`) | breaker fields of the process | `executeProviderPlan`, record success or failure | Vast and Modal clients | ProviderPlan |
| Credits (`jobs.service.ts`, `users.service.ts`) | `UserCredit`, `CreditTransaction`, `UserDailyUsage` | charge, free quota, refund, `topUpMyCredits` | jobs, billing | CreditCharge |
| Billing (`billing.service.ts`) | `PaymentOrder`, wallet, role and `proExpiresAt` | `createOrder`, notices, lookups, `markOrderPaid` | gateways, jobs (wallet), JWT strategy (role) | Billing, OrderSettlement |
| PRO downgrade (`jwt.strategy.ts`, `jobs.service.ts:123`) | role, `proExpiresAt` | `validate`, first statements of `createVideoJob` | billing | Billing |
| Job events (`job-events.service.ts`, `jobs.controller.ts`) | channels, counts and subscriptions of a process | `emit*`, `streamJobEvents`, subscribe and release | Redis Pub/Sub, worker | JobEvents |
| Credentials (`auth.service.ts`) | password, `RefreshSession`, `PasswordResetToken` | login, refresh, logout(s), forgot, reset, change | mail | AuthSessions |
| Accounts and Google sign-in (`auth.service.ts`, `auth.controller.ts`, strategies) | `User` with its unique keys, one-time code in Redis | register, Google login and registration, link, exchange | credentials | Accounts |
| Posts, likes, comments, views (`posts`, `post-likes`, `comments`) | rows, counters, view buffer and locks in Redis | create, update, remove, like, unlike, comment, uncomment, `trackView`, `syncViewsToDb` | explore | PostEngagement |
| Explore items (`explore.service.ts:526-607`) | `ExploreItem` | `syncPost`, `refreshExploreScores` | every call on posts | PostEngagement |
| Explore feed, cache (`explore.service.ts:1090-1297`) | feed entries and revalidation locks in Redis | `getExplore`, `getForYou`, background revalidation | its own producers | FeedCache |
| Explore feed, personalisation (`explore.service.ts`, `follows.service.ts`) | `UserTopicProfile`, `HiddenPost`, `ExploreInteraction`, `Follow` | `recordEventsBatch`, follow, unfollow; `buildForYouResponse` reads | posts, follows | ForYouFeed |
| Gallery, assets, users | their rows | single statements | storage | not modelled |
| Guards, throttling, health, metrics, logging, mail | none of their own | none | all | not modelled |
| GPU service (`modal_app`, Python) | none | one video per request | Modal and Vast clients | not modelled |

What is hard about it:

* **Interleaving.** The API and the workers write the same job row without
  comparing its old status. Several handlers, requests and gateway notices of a
  user meet in the wallet, the usage row and the user row. `async` code reads,
  awaits and writes.
* **Crashes.** A process may die between any two statements, between a commit and
  `add`, between FAILED and the refund. BullMQ runs a stalled job again, up to a
  limit, and a handler that lost its lock may still be running.
* **Delivery.** Gateways repeat notices and send them in any order. Redis
  Pub/Sub delivers only to who is subscribed at that moment. The reply to
  `add` may be lost after the job was accepted.
* **Retries and time.** BullMQ's attempts, the retries of a provider, the
  breaker's cooldown, the expiry of PRO, of links and of sessions, the change of
  day of the free quota, the expiry of cached feeds and of their locks.

`PROJECT.json` lists these as hazards, each at its line with the properties that
are about it.

## 2. The modules

Each component has a module (`X.tla`), an instance for TLC (`MCX.tla` with its
`.cfg` files) and its theorems, in `XProofs.tla` or, for the smaller ones, together: AuthSessions
in AccountsProofs, FeedCache and ForYouFeed in ExploreProofs, ProviderPlan and JobEvents in
JobSupportProofs. Three conventions are common to all.

* **Steps.** A step is what the program does between two points where another
  one can run: two `await`s in a process, two statements in the database. A
  statement outside a transaction is one step. A transaction whose first
  statement locks the row that matters is one step where nothing can observe its
  middle, and several steps with a lock otherwise.
* **The database** is PostgreSQL at READ COMMITTED, Prisma's default: a read sees
  committed values, an update waits for the row's lock and then sees the new row,
  the writes of a transaction appear together, an abort leaves none.
* **External parts** (BullMQ, Redis, gateways, providers, the database's deadlock
  detection) are actions of their own, marked `external` in the map. They do what
  `src/` relies on and no more.

Operators whose name ends in `Mutant`, `Outside`, `Unlocked`, `Idle` and the like
stand before a definition and are a plausible wrong version of it. Nothing uses
them in a run; replacing the definition by one of them makes TLC find the
property violated, which shows that the property depends on that line.

### JobLifecycle

`status`, `ledger`, `rows`, `versions` and `objects` are the job's row, its
refunds by reason, its assets, their versions and the objects in storage; `bull`,
`tries`, `stalls` and `holder` are BullMQ's view; `step` and `target` the calls of
the API; `pc`, `on`, `run`, `attempt` and `err` the handlers.

* `CreateCommit`, `AddSucceeds`, `AddFails`, `MarkQueued`: `createVideoJob` from the
  transaction that charges and creates, to the unconditional write of QUEUED.
  `AddFails` also covers an `add` that Redis accepted although its reply was lost.
* `CancelRead`, `CancelRemove`, then `TxUpdate`, `RefundFind`, `TxCommit`: `cancelJob`.
  The last three are also the failure path of `createVideoJob`; the row's lock
  (`rowLock`) is held between them, which is what makes one refund of two.
* `HandleRead` to `Complete`: the try block of `handle` with the four
  `ensureJobNotCancelled`, the cleanup before a run, the provider, the uploads and
  the two rows of each output. `StageFails` makes any stage fail, retryably or not.
* `Rollback` to `LogFailed`: the catch block, with the requeue, FAILED, the look
  for a refund and the refund as the separate statements that they are.
  `CatchFails` is a database error in it.
* `WorkerCrash`, `LockLost`, `ApiCrash`, `StalledCheck`: the faults and BullMQ's answer.

### CreditCharge

One user's wallet, the usage row of each day with its lock, and the transaction
of `createVideoJob`: `ReadUser`, `ApplyQuota` with `UpsertUsage`, `CheckWallet` (a
plain read), `Charge`, or `Abort`. Beside it `Refund`, `TopUp`, a change of the
subscription and midnight. The upsert with an empty `update` still takes the
row's lock (`INSERT ... ON CONFLICT DO UPDATE` does, and Prisma sends that for a
`where` on a unique key); the whole argument about the quota rests on it.

### Billing and OrderSettlement

`CreateOrder`, `GatewayAccepts`, `GatewayRefuses` and `GatewayThrows` are
`createOrder`; `SuccessNotice`, `FailureNotice`, `SyncLookup` and `AdminMarkPaid`
the ways an order is reported paid or failed; `PaidRead`, `PaidClaim`,
`PaidCredit`, `PaidExtend`, `PaidCommit` the statements of `markOrderPaid`, with
the locks of the order, the wallet and the user as they take them. `PaidAbort` is
a failure at any of them. `Validate`, `ValidateDowngrade`, `JobRead`,
`JobDowngrade`, `JobCharge` and `JobCommit` are the requests that meet them in the user
and wallet rows. `Deadlocked` and `DeadlockBroken` are PostgreSQL's detection.

OrderSettlement is what the customer is promised: an order is settled once, its
owner's wallet gets exactly its credits then, and otherwise a wallet only pays
for jobs. Billing implements it with the orders that have a purchase entry as
`settled`.

### ProviderPlan

The runs of `executeProviderPlan` in one process and the breaker they share.
`ConsiderVast` and `ProbeAnswers` are `shouldUseVastProvider` before and after its
await; `CallSucceeds`, `CallRetried`, `CallExhausted`, `CallRefused` the ways a call ends
with what the breaker records; `LogThrows` the error of a job log that leaves the
plan. `recovered` counts, for the property, what `vastHalfOpenSuccessCount` is
meant to count.

### JobEvents

One job in one API process: the channel objects (`service`), the commands that are
on their way to Redis (`service.pipe`) and what comes back (`inbox`). `ReadSnapshot` and
`OpenStream` are `streamJobEvents` before and after its await, `Close` the client
that leaves, `ReceiveMessage` and `ReceiveAnswer` the two kinds of handler the process runs.
When a channel completes, the code tears its streams down one inside the other; `Ended` says
at once what that leaves. MCJobEvents has the recursive form of the code, and its CompletionAssumption
compares the two in every state that TeardownsAreLocal allows.
A channel object is named after the connection that made it, so two objects for
one job, which the code can have, are two names.

### AuthSessions

The password, the sessions (named after the login that opens them) and the links
(named after the call that makes them) of one account. `LoginReads` and `LoginOpens`,
`RefreshReads` and `RefreshWrites`, `ResetReads` and `ResetCommits`, `ChangeReads` and
`ChangeCommits`, `ForgotDeletes` and `ForgotCommits` are the two sides of the await in each
call. The refresh tokens of one session are not told apart, because the stored
bcrypt hash covers the first 72 bytes, which they share.

### Accounts

Extends AuthSessions with how the account comes to be: `Register`; `GoogleStarts`,
`GoogleLoginById`, `GoogleLoginByMail`, `GoogleRegisterById` and `GoogleRegisterByMail`, the
reads of `loginWithGoogle` and `registerWithGoogle` one by one; `CreateUser`, which the
unique keys decide; `LinkReads` and `LinkWrites` of `linkGoogleAccount`; `StoreCode`,
`ExchangeCode` and `CodeExpires` for the code in Redis. `Sessions` are AuthSessions' calls,
which need the account to exist and, where they need a password, one that
somebody knows: a Google account has a random one until a reset. Identities are
the user's own (it has his address), another one, and one that is linked elsewhere.

### FeedCache

The entries of one public and one for-you feed (`cached`, `entry`), the
revalidation locks and the responses being built (`work`): by a request that
missed, or by a background task after a stale answer. A payload is the age of what
it was built from. `AnswerStale` and `AskMiss` are `getCachedWithStaleWhileRevalidate`,
`TakeLock`, `LoseLock` and `LockFails` are `revalidateCacheInBackground`, `ReadOwn` to
`ReadItems` the producers with the for-you fallback through the public entry,
`InnerWrite` and `Write` `setCacheEnvelope`. `Tick` is time: it expires entries and
locks, and no response takes longer than `MaxProduce` to build, a bound that the
code does not set itself. `renewal` is a ghost for one property.

### ForYouFeed

One user. `SendBatch`, `Resolve`, `Insert`, `UpsertRow` and `Commit` are `recordEventsBatch`
with the row locks that its transaction takes; the events of a signal are a set, since their order only
decides in which order the rows are written, and `UpsertRow` allows every order. `Abort`
is a deadlock or a time-out. There are at most ten topics, the number of profiles that the feed reads. `Follow`, `ReadSource` and `Unfollow` are `follows.service.ts`,
whose signal goes the same way as a batch. `Unlist`, `RemovePost` and `Rescore` are what
authors, the cron and time do to the items meanwhile. `AskPage`, `ReadProfiles`,
`ReadFollows`, `ReadHidden` and `AnswerPage` are `buildForYouResponse`, whose reads run in parallel and
see different moments; `Feed` is what it computes from them: four sources of
candidates, the personal score, the diversification by creator, or the trending
feed for a user without profile and follows. Scores are small integers with the
code's weights and bonuses; their age terms are in `Rescore`. `given`, `signals` and
parts of `walk` are ghosts.

### PostEngagement

One post: its counters and rows, which change together in a transaction; the
`ExploreItem` that `SyncReads`, `SyncPurges`, `SyncReadsTopic` and `SyncUpserts` build
outside it; the cron (`CronStarts`, `CronSweeps`); the view lock, the buffer and
`FlushRenames` and `FlushAdds` of `syncViewsToDb`. The score is represented by the
counters it is computed from. `Liked` and `Commented` say what the post starts with
when it is not new.

## 3. The runs

Symmetry is used only with safety properties and only over actors that no
constant, `CHOOSE` or definition names.

| Run | Instance | What it shows |
|---|---|---|
| JobRequests | 2 jobs, one of them free, 1 slot, 2 attempts, 1 cancellation | A job at rest was delivered or refunded, and never both unless its user asked to cancel it (DeliveredXorRefunded); COMPLETED has exactly the outputs of one run (CompletedIsDelivered); nothing else stays in storage (NothingLeftBehind); nobody stays PROCESSING (ProcessingEnds). |
| JobCrash | 1 job, 2 attempts, 2 crashes, API crashes, database errors in the catch block, 1 cancellation | Failure refund at most once, although the last failure may run twice (FailRefundOnce); CANCELLED is refunded although the call may die (CancelledIsRefunded); a job stays FAILED without a refund only where the queue gave up in the middle of the failure (UnrefundedWasGivenUp); a COMPLETED job is not run again (CompletedIsNotReworked); every queued job leaves the queue (QueueDrains). |
| JobZombie | 1 job, 2 slots, a lost lock, a lost reply of `add`, 2 cancellations | The cancellation refund is paid once (CancelRefundOnce) and never missing (CancelledIsRefunded), also with two handlers on one job. |
| ChargeConcurrent | 3 calls with the catalogue's presets, 10 credits, 2 days, a top-up | The quota of a day is not exceeded (QuotaKept), the usage row is the sum of what jobs got (QuotaAccounted), the balance the sum of what moved (BalanceAccounted), and racing calls overdraw the wallet by no more than all of them but one (OverdraftBounded). |
| BillingPayments | 2 PRO orders of 1 day (MoMo, payOS), 2 calls, 1 request, 4 days | CreditedOnce, PaidIsCredited, ProDaysPaidFor, Settles (the refinement) and PaymentsEnd (the wallet and user rows are locked in both orders; every payment ends all the same). |
| ProviderBreaker | 2 runs with any plan, 2 retries, threshold 2, 2 half-open successes, 4 moments | Nobody gives up while Modal, if planned, has not failed (ModalTriedBeforeGivingUp); the breaker closes only after enough successes since it opened (ClosesAfterSuccesses). |
| EventsStreams | 3 connections, 1 writer, 1 update | A channel with subscribers has its Redis subscription (NotDeaf); an event emitted while a connection is served reaches it, or its stream ends (ServedGetEvents). |
| PostFeed | 2 calls of any kind on a new post or on one with a like and a comment, 2 viewers, cron, failing syncs and flushes, at most 3 calls and views | The counters are the numbers of rows, whoever removes what at once (CountersMatchRows); every accepted view is in exactly one place or known to be lost (ViewsAccounted); after the last call the item of a public post becomes and stays current (ItemCatchesUp). |
| FeedCache | 1 request, 2 public and 1 for-you revalidations, fresh time 1, stale time 3 and 1, lock 1, production 1, failing writes, locks and productions | No answer is older than the TTLs and productions it went through allow (StaleBounded); two revalidations of a feed overlap only when one has outlived the lock (OverlapOnlyWhenSlow); an entry that is asked for while stale does not expire unless its renewal failed (Renewed). |
| ForYouFeed | 2 batches or follows, 3 posts, 2 topics, 2 creators, pages of 1, 2 candidates per source | A topic's score is the sum of the committed events, although batches lock topics in opposite orders and abort (ProfileIsSum); a post hidden before the request is not in the answer, fallback included (HiddenStaysHidden); an undisturbed reading sees the whole feed once (PagesCover); a follow signals once at most (OneSignalPerFollow). |
| Accounts | any 4 of 2 logins, 1 refresh, 2 links, 2 resets, 1 change, 2 Google links; 3 identities; address free or taken | The account and its bonus are created once (CreatedOnce), its Google identity is final (GoogleIsFinal) and opens only the account it is linked to (OnlyLinkedGoogleOpens); a link from before a password change does not reset (LinkDiesWithChange); a revoked session does not come back (RevokedStaysRevoked). |
| JobCancelOverwritten | 1 job, 1 cancellation | Violated: see section 5. |

### Bounds and why they are enough

* Jobs, orders, users and posts of their own do not interact, except jobs in a
  worker's slots and orders in the wallet and the user row of their owner: two of
  them cover that, one the rest.
* Every race in the code is between two steps that read and two that write; two
  actors suffice for each, and a third one (a call that aborts, a handler, a
  second cancellation) is there wherever it can come between.
* `MaxAttempts` is 2 where the code has 3: the last attempt, one before it. The
  violated runs use 3. `MaxStalls` is BullMQ's default, 1. `MaxCrashes` is one more
  than that, so that the limit is passed.
* `MaxTime` and `MaxDay` let everything that expires expire and be renewed once.
  `MaxWork` 3 has two calls and a view, or one call and a view before and one during a
  flush. `MaxVersion` 1 is one event, whose order against others does not matter to
  what the client shows.
* Threshold and HalfOpen are 2, the least at which counting from zero, from one
  and not at all differ.
* `MaxCalls` 4 of the calls on an account: two that race, one that made the state they
  race on and one that shows the result.
* In FeedCache a unit of time is the least that tells fresh, stale and expired, within
  and beyond the lock, apart. Failing reads of Redis (`"get"`) are in the model and not
  in the run: a failed read is a miss, which adds a production at any time and makes
  the instance too large for TLC; the theorems of section 4 cover it.
* In ForYouFeed pages of 1 make every boundary a page boundary, and two topics that
  two batches meet in opposite orders are what a deadlock takes.

Deadlock is not checked (`CHECK_DEADLOCK FALSE`): the calls are finite in number and the
system rightly stops when they have all ended and no user does anything more. That
nothing stops too early is what the liveness properties say. FeedCache, whose time goes on
for ever, is checked for deadlock.

### Fairness and why the code has it

* JobLifecycle: the API goes on with a call it has begun, the event loop advances
  every handler, BullMQ takes waiting jobs, promotes delayed ones and looks for
  stalled ones. Crashes and lost locks are not fair, they are bounded. No user has
  to act: beginning a call is not fair. The wait for a provider ends by its time
  limit.
* Billing: a transaction that can go on does, and PostgreSQL breaks a deadlock
  (`deadlock_timeout`). Without the latter PaymentsEnd fails.
* JobEvents: Redis executes what it is sent and the process handles what arrives.
  Connections open and close as they like.
* PostEngagement: a sync goes on and the two cron jobs run again. A sync may fail
  at any step all the same; that the item is right in the end is the cron's doing.

## 4. The theorems

| Theorem | Says, and for which faults | Rests on |
|---|---|---|
| JobLifecycleProofs!TypeCorrect | TypeOK; all faults | the constants' assumptions |
| JobLifecycleProofs!CancelRefundAtMostOnce | no job is refunded twice as cancelled; all faults | RefundInv |
| JobLifecycleProofs!CancelledJobsRefunded | only charged jobs are refunded, and a charged CANCELLED one has been; all faults | CancelInv |
| JobLifecycleProofs!FailRefundAtMostOnce | no job is refunded twice as failed; no lost locks or answers | LockInv, FailInv |
| JobLifecycleProofs!NoReworkOfCompleted | no handler reopens a COMPLETED job; no lost locks or answers | WorkInv, UncompletedInv |
| JobLifecycleProofs!UnrefundedJobsWereGivenUp | which FAILED jobs may be unrefunded; no lost locks | QueueInv, EndInv |
| JobLifecycleProofs!CompletedJobsDelivered | COMPLETED is one whole run, stored; no lost locks | DeliveryInv |
| JobLifecycleProofs!NothingIsLeftBehind | no orphans at rest; only crashes of the API and database errors | TidyInv, EmptyInv |
| JobLifecycleProofs!EitherDeliveredOrRefunded | delivered or refunded, not both; no faults | OutcomeInv, SpentInv |
| CreditChargeProofs!QuotaNeverExceeded | the free quota of a day is kept by any number of calls | QuotaInv |
| CreditChargeProofs!QuotaIsAccounted | the quota used is what the jobs of the day were given | LedgerInv |
| CreditChargeProofs!BalanceIsAccounted | the wallet is what came in less what jobs cost | LedgerInv |
| CreditChargeProofs!OverdraftIsBounded | how far racing calls can overdraw it | LedgerInv |
| BillingProofs!TypeCorrect | TypeOK | the constants' assumptions |
| BillingProofs!OrdersCreditedOnce | an order is credited at most once | OnceInv |
| BillingProofs!PaidOrdersCredited | a PAID order has been credited | OnceInv |
| BillingProofs!ProDaysArePaidFor | no one is PRO for longer than he paid for | DaysInv |
| BillingProofs!BillingSettlesOrders | Billing implements OrderSettlement | TypeOK, OnceInv |
| AccountsProofs!SessionsStayRevoked | a revoked session stays revoked (AuthSessions) | AuthInv |
| AccountsProofs!OldLinksNeverReset | no reset with a link from before the last change (AuthSessions) | AuthInv |
| AccountsProofs!AccountSessionsStayRevoked, AccountOldLinksNeverReset | both, in the composition Accounts | AuthInv, CredentialMoves |
| AccountsProofs!GoogleNeverReplaced | GoogleIsFinal, for any calls and identities | AccountInv, IdentityAssumption |
| AccountsProofs!SessionsOfLinkedGoogle | OnlyLinkedGoogleOpens | AccountInv |
| AccountsProofs!AccountCreatedOnce | CreatedOnce | AccountInv |
| JobSupportProofs!ModalIsTriedFirst | no run gives up without having called Modal | PlanInv |
| JobSupportProofs!BreakerClosesAfterSuccesses | the breaker closes on fresh successes only | BreakerInv |
| JobSupportProofs!StreamTypes, StreamsAreNotDeaf | StreamTypeOK; a channel in the map has its subscription once all commands are answered | StreamInv |
| JobSupportProofs!TeardownsAreLocal | the answer to an unsubscribe ends the channel of the map, or one that nobody is on | StreamInv, TeardownInv |
| PostEngagementProofs!CountersAreRows | counters are numbers of rows | RowsInv |
| PostEngagementProofs!ViewsAreAccounted | no view is counted twice or forgotten | ViewsInv |
| ExploreProofs!TypeCorrect | TypeOK | the constants' assumptions |
| ExploreProofs!AnswersAreBounded | StaleBounded, for any requests, revalidations, TTLs and faults | AgesInv |
| ExploreProofs!OneRevalidation | OverlapOnlyWhenSlow, for any revalidations, lock TTL and faults | TaskInv |
| ExploreProofs!StaleFeedsAreRenewed | Renewed, for any revalidations, TTLs and faults | RenewInv, AgesInv, TaskInv |
| ExploreProofs!ForYouTypes | ForYouTypeOK | the constants' assumptions |
| ExploreProofs!ScoresAreSums | ProfileIsSum, for any batches at once and any order of their rows | SumInv |
| ExploreProofs!FollowsSignalOnce | OneSignalPerFollow | SignalsInv |
| ExploreProofs!HiddenPostsStayHidden | HiddenStaysHidden, in the personal and in the fallback feed | HiddenInv |
| ExploreProofs!PagesCoverTheFeed | PagesCover, for any page size, posts and scores | PagesInv |

None of the properties is inductive as it stands.

**Video jobs.** The exclusions are necessary: TLC finds the property broken under each fault that a
theorem excludes. `lostLock` lets BullMQ give a job to a second
worker while the first goes on, `ambiguousAdd` makes `createVideoJob` fail and refund a
job that the queue has: either of them breaks FailRefundOnce and CompletedIsNotReworked, and
`lostLock` breaks CompletedIsDelivered and, together with `dbError` or `workerCrash`,
UnrefundedWasGivenUp. Each of the five faults breaks
DeliveredXorRefunded; `workerCrash` (nobody is left to delete what was uploaded), `ambiguousAdd` and `lostLock`
break NothingLeftBehind.

* **RefundInv.** That a look has found no refund says nothing later, unless nobody
  else can pay meanwhile. RefundInv adds: a request between its update and its
  commit holds the job's row (`HoldsRow`), and one that decided to pay still finds
  that none was paid (`DecisionStands`). The step that matters is another request's
  `TxCommit`: it holds the row too, so both are the same request.
* **CancelInv** adds the converse of DecisionStands: a request that decided not to pay
  had a reason that lasts (`PlainStands`). So CANCELLED, which a handler writes only over
  CANCELLED, never commits without a refund.
* **LockInv** is the mutual exclusion that BullMQ's locks give while none is lost: a handler
  works on a job only as its holder, of a job that is active, and a job that has not been added has none.
  From it `FailInv` follows the two writers of a failed job's refund, the creating call and the
  handler: each keeps what it found until it pays, because the other cannot run.
* **WorkInv** says that no handler past its first read works on a COMPLETED job,
  **UncompletedInv** that a call whose job is not in the queue yet has not seen it completed;
  what is left are the cancellation and the late QUEUED.
* **QueueInv** counts: tries and stalls stay within their limits, and a `failed` entry has used up
  one of them. **EndInv** says that a job is repaid when a handler leaves it FAILED,
  and what that leaves of a job that is over. Where an `add` failed that was carried out, the
  job may turn FAILED under a handler that is already returning: the creating call writes that, and
  pays in the same transaction, so the property survives a lost reply to `add`.
* **DeliveryInv** ties the stage of a handler to the rows, versions and objects of its
  run (`Progress`), the run's number to the limit, and so COMPLETED to one whole run.
* **EmptyInv** says that a job that is not in the queue yet has no rows, and that a FAILED one has
  none and no handler that could still make one. So a database error in the catch block does no harm: the
  uploads were deleted before its first query, and FAILED is only written after the rows are gone.
* **TidyInv** bounds the objects without a version by what the present run uploaded;
  **AskInv** derives every cancellation from a user's request; **CatchInv** says which branch of the
  error handling an attempt takes and what it has cleaned by then; **HeldInv** that an active
  job has its handler; **SpentInv** that a job that is FAILED, or refunded unasked, has no run left; and
  **OutcomeInv** that a handler ends, and a queue entry is finished, only with a job that was delivered, repaid or
  asked to be cancelled.

**Credits.** *QuotaInv* adds that a call between the quota and its commit holds the usage
row of its day and that what it was given still fits (`Reserved`). `FreeAppliedFits`
is the arithmetic of the split. *LedgerInv* states the three sums together with what a call
between its look at the wallet and its charge found (`Affordable`): the wallet is below that by now,
but what was ever put into it is not.

**Billing.** *OnceInv* adds that a call past the claim holds the order's row and the order is
committed as PENDING (`ClaimHeld`), and that a PENDING order has not been credited
(`UncreditedWhilePending`). The conditional claim (`updateMany` where status is PENDING) gives
the first, the commit of PAID together with the credit the second. *DaysInv* bounds
the expiry that a call has read, and the one it is about to write, by the days paid for (`SeenBound`,
`NextBound`): stale values are small, never large.

**Accounts.** *AuthInv* adds that the session of a login that has not answered does not exist
(`SessionNotYet`) and that every link with a row was made after the last password
change (`LinksAreFresh`). It does not say that the account has a password, so it carries over to Accounts: by
`CredentialMoves` a step there is one of AuthSessions, or admits a login and leaves sessions
and links alone. *AccountInv* says whose identities meet an account at all: what is linked, is about to
be, or logs in has the account's address (`IdentitiesMatch`), and by IdentityAssumption
there is one such identity. So a link call that read "no identity" long ago can only write
the identity that is there. It also says that a Google login that was admitted, and
has not opened its session yet, is one of the linked identity (`AdmittedIsLinked`).

**Provider plan.** *PlanInv* says that the providers a run has left behind were called if they are
Modal, and that only Vast is probed: leaving a provider uncalled is Vast's privilege. *BreakerInv* says that the
counted successes are those since the last opening.

**Posts.** *RowsInv* needs that no call comments twice (`CommentsWereBegun`); the rest is the
cardinality of finite sets. *ViewsInv* needs that nothing is held between two flushes, and
counts until the post is deleted, its counter with it.

**Feed cache.** *AgesInv* says of each response how old it may be at the stage it has
reached, and of each entry that it is no older than its age on top of what a response
may have (`ResponseOK`, `EntryOK`): StaleBounded alone says nothing about a response that
is not yet written, nor how old an entry was when it was. *TaskInv* says that a revalidation that
builds a feed took its lock when it was no older than now: what is left of the lock and the age of the task are
together at least the TTL of the lock. So a second task can only get the lock once
the first has lived that long. *RenewInv* says that while a renewal is due, some revalidation
is building it in time or will ask for the lock early enough even to leave it to another (`DueOK`), and
who holds a lock (`LockAccounted`): a revalidation that is building, or one that has finished, whose lock is then older than
the entry and expires before the entry is stale, because the lock's TTL is no longer than the fresh TTL; or
a step failed. So a lock that a revalidation meets always stands for another that renews.

**For-you feed.** *SumInv* adds that the rows a batch has written hold their locks and are the committed
score plus its own weights (`WrittenOK`), and that every event of it has its row written or planned (`PlannedOK`):
no update is lost because nobody else can commit a row that a batch has read. *SignalsInv* counts:
the follows that may still give a signal are no more than the ones not signalled yet. *HiddenInv* rests
on SumInv, since a batch that hides a post also gives its topic a score: the user who hides has a
profile, and so a page asked for later is not the fallback, in which nothing is left out for being hidden.
*PagesInv* says that, while nothing has disturbed the reader, what the request has read is still
current, the pages shown are the first items of the feed, and the cursor is the last of them.

**Job events.** *StreamInv* says that nothing is known of a channel that no connection has created (`FreshOK`),
and that the channel of the map has asked for its subscription: it has it, or its subscribe is
under way, or an unsubscribe is (`AskedOK`). *TeardownInv* is about the order of the commands, which Redis keeps:
the unsubscribes of earlier channels are before the subscribe of the present one (`EarlierFirst`), and an unsubscribe under way is of the
channel in the map or of one that nobody is on (`UnsubscribedOK`).

The proofs have one step per action; what a group of actions leaves alone is a
frame lemma (`InsideMoves` for the inside of a handler, `LedgerFrame`, `DaysFrame`, `SessionsFrame`,
`RowsFrame`). BillingSettlesOrders maps the initial state to the initial state and
each step to a step or a stutter.

SumTheorems holds the lemmas about `SumFunctionOnSet` that the sums of credits and days need: the sum of
a finite set is any of its elements plus the rest (`SumSplit`), so adding an element or changing one
value does the obvious (`SumAdd`, `SumChange`). The library defines the sum by recursion on an element
that CHOOSE picks; the lemmas go through a least counterexample among the subsets of a finite set, since
theorems of induction with an operator for a parameter cannot be instantiated here. They are why
Billing assumes that the orders are finitely many, and PostEngagement that the rows
there are at the start are.

Every invariant and action property of a run that passes is stated by one of these theorems.
Only model-checked is the liveness (QueueDrains, ProcessingEnds, PaymentsEnd, ServedGetEvents and
ItemCatchesUp): fairness and ENABLED are out of TLAPS's reach. So is the recursive form of a channel's
completion, which TLC compares with `Ended` on small instances; the proofs are about `Ended`. The disagreements of
section 5 are TLC's, being false.

## 5. Known disagreements

Where a document, comment or test of the repository says one thing and the code
does another, the property states what is said and TLC finds a behaviour of the
code that breaks it. One is among the runs of PROJECT.json; the other
configurations are kept beside them and can be run in the same way (EventsRelease, which has
two properties, with `-continue`).

| Configuration, property | What happens | What is said |
|---|---|---|
| JobCancelOverwritten (a run), CancelledIsNotCompleted | A cancellation between two checks of the handler is overwritten by the next `setStatus` (`video.worker.ts:129`): the job ends COMPLETED and refunded. | docs/jobs-sse.md: the worker stops and the job is CANCELLED |
| BillingFailedOverPaid, PaidStaysPaid | A failure notice that read PENDING writes FAILED over an order paid meanwhile (`billing.service.ts:613`). | docs/billing-momo-integration.md: FAILED if still pending |
| JobRefundedTwice, RefundWithinCharge | Cancelled while the last attempt fails: refunded once for each reason (`video.worker.ts:1267`). | comment of refundFailedJob: no duplicate refund |
| JobFailedUnrefunded, FailedIsRefunded | The worker dies between FAILED and the refund, once more than the stall limit (`video.worker.ts:627`). | docs/vastai-deploy-runbook.md: a failed job is refunded |
| JobFinishedReopened, FinishedStaysFinished | The QUEUED write comes after the worker has finished (`jobs.service.ts:407`). | docs/jobs-sse.md: the order of the statuses |
| ChargeOverdraft, NoOverdraft | Two calls pass the same read of the wallet (`jobs.service.ts:209`). | jobs.service.ts:210: "Not enough credit" |
| BillingExtensionLost, PurchaseExtends | Two PRO orders paid at once extend the same old date (`billing.service.ts:472`). | docs/billing-momo-integration.md: a purchase extends PRO |
| BillingProLost, ProLastsUntilExpiry | The downgrade of a lapsed user wipes a renewal (`jwt.strategy.ts:42`). | docs/billing-momo-integration.md: PRO lasts until proExpiresAt |
| ProviderOpenCalled, OpenBreakerSkipsVast | Retries go on after the breaker opened (`video.worker.ts:689`). | docs/vastai-deploy-runbook.md:38 |
| ProviderWindow, OpensWithinWindow | The window is kept and not used (`video.worker.ts:986`). | docs/vastai-deploy-runbook.md:32 |
| EventsGap, SnapshotIsCurrent | An update between the snapshot and the subscription (`jobs.controller.ts:80`). | docs/jobs-sse.md:82 |
| EventsRelease, HeartbeatMeansAlive | A connection joins a channel that is being released (`job-events.service.ts:288`). | docs/jobs-sse.md:192 |
| EventsRelease, NoSubscriptionLeft | The last connection leaves before its subscribe was answered (`job-events.service.ts:287`). | job-events.service.spec.ts:105 |
| PostPrivateListed, PrivateLeavesExplore | A sync that read the post as public writes the item back (`explore.service.ts:563`). | docs/explore-system.md:131 |
| PostTopicLost, GivenTopicKept | The next sync has no topic hint and the caption wins (`explore.service.ts:1070`). | create-post.dto.ts:30 |
| AuthOldSession, OldSessionsAreInvalid | A login that verified the old password opens its session after the reset (`auth.service.ts:107`). | docs/auth-email-oauth2.md:155 |
| AuthLinkTwice, LinkIsOneTime | Two resets that both found the link unused (`auth.service.ts:625`). | docs/auth-email-oauth2.md:156 |
| AuthGoogleTwice, GoogleLoginGetsIn | Two first logins with one Google identity both find no account; the second create meets the unique key and the login fails with a database error (`auth.service.ts:269`). | auth.controller.ts: without an account, registers and logs in |
| AuthTwoLinks, OneActiveLink | Two calls each delete what they see (`auth.service.ts:557`). | docs/auth-email-oauth2.md:139 |

## 6. What is not modelled

* Data that no property tells apart: prompts, captions, file contents, wording of
  logs and mails, HTTP, the age terms of the scores (floating-point arithmetic over
  timestamps, out of TLC's reach).
* Amounts and signatures of gateway notices: a modelled notice is one that the
  checks of the code accept.
* Delays between attempts. Any delay is possible.
* The topic filter and the search and listing queries of explore, which change nothing.
* A client that is behind because of the gap in EventsGap: that ends with the next event.
* Components whose operations are single statements on rows of their own (gallery, profile), guards and throttling, probes, mail, the Python service,
  scripts, seed. PROJECT.json gives the reason for each.

## 7. Plan

Done, in this order: JobLifecycle, CreditCharge, Billing over OrderSettlement,
JobEvents, ProviderPlan, AuthSessions, PostEngagement and their proofs; then FeedCache,
ForYouFeed with follows, and Accounts, with theirs.

What the model still lacks:

1. **JobCredits**, a composition of JobLifecycle and CreditCharge: the wallet of a user
   as the sum of what his jobs were charged and refunded, and JobLifecycle against
   an abstract job (charged, then delivered or refunded).
2. Shutdown and reconnection in JobEvents; a second API process in PostEngagement.
