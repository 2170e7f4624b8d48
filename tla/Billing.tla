------------------------------- MODULE Billing -------------------------------
(***************************************************************************)
(* Payment orders, the credits they buy and the PRO subscription they      *)
(* extend: createOrder, the MoMo and payOS notices, the payOS lookup, the  *)
(* admin's mark-paid, and the transaction of markOrderPaid they share.     *)
(* Beside them run the two places that downgrade a lapsed subscription,    *)
(* JwtStrategy.validate and the first statements of createVideoJob.        *)
(*                                                                         *)
(* READ COMMITTED: a transaction reads committed values, each row it       *)
(* updates stays locked until its end, and its writes appear together at   *)
(* its commit.  The gateways are external.                                 *)
(***************************************************************************)
EXTENDS Integers, FiniteSetsExt

CONSTANTS
    Users,
    Orders,
    Owner,      \* [Orders -> Users]
    Provider,   \* [Orders -> Providers]
    Credits,    \* [Orders -> Nat \ {0}]: creditAmount of the package
    Days,       \* [Orders -> Nat]: proDurationDays, 0 for a top-up
    Calls,      \* API calls that work for an order: notices, lookups, admin
    Requests,   \* authenticated requests and createVideoJob calls
    Price,      \* credits that a created job costs
    MaxTime,    \* bound on the clock
    None        \* no target, no lock holder

Providers == {"MOMO", "PAYOS", "BANK_TRANSFER"}

ASSUME OrdersAssumption ==
    /\ IsFiniteSet(Orders)
    /\ Owner \in [Orders -> Users]
    /\ Provider \in [Orders -> Providers]
    /\ Credits \in [Orders -> Nat \ {0}]
    /\ Days \in [Orders -> Nat]
ASSUME ActorsAssumption ==
    /\ Calls \cap Requests = {}
    /\ None \notin Calls \cup Requests \cup Orders \cup Users
ASSUME BoundsAssumption == MaxTime \in Nat \ {0} /\ Price \in Nat

VARIABLES
    order,      \* [Orders -> OrderStatus]: the status column
    link,       \* [Orders -> LinkState]: the gateway's payment link
    purchases,  \* [Orders -> Nat]: PURCHASE_* ledger entries of the order
    balance,    \* [Users -> Int]: committed wallet
    role,       \* [Users -> UserRole]
    expiry,     \* [Users -> Nat]: proExpiresAt, 0 for null
    lock,       \* [Rows -> actor or None]: the transaction holding the row
    step,       \* [Actors -> Step]
    target,     \* [Actors -> Orders \cup Users \cup {None}]
    expirySeen, \* [Calls -> Nat]: order.user.proExpiresAt as it was read
    expiryNext, \* [Calls -> Nat]: nextProExpiresAt
    now         \* the clock, in days

Actors == Calls \cup Requests
Rows == ({"order"} \X Orders) \cup ({"wallet", "user"} \X Users)

OrderStatus == {"NONE", "PENDING", "PAID", "FAILED"}
LinkState == {"none", "asked", "ready", "dead"}
UserRole == {"FREE", "PRO", "ADMIN"}
PaidSteps == {"claim", "credit", "extend", "commit"}
JobSteps == {"jobDowngrade", "jobCharge", "jobCommit"}
Step == {"idle", "paid", "fail", "downgrade", "created", "done"}
        \cup PaidSteps \cup JobSteps

orderVars == <<order, link, purchases>>
userVars == <<balance, role, expiry>>
callVars == <<step, target, expirySeen, expiryNext>>
vars == <<orderVars, userVars, lock, callVars, now>>

Init ==
    /\ order = [o \in Orders |-> "NONE"]
    /\ link = [o \in Orders |-> "none"]
    /\ purchases = [o \in Orders |-> 0]
    /\ balance = [u \in Users |-> 0]
    /\ role \in [Users -> {"FREE", "ADMIN"}]
    /\ expiry = [u \in Users |-> 0]
    /\ lock = [r \in Rows |-> None]
    /\ step = [x \in Actors |-> "idle"]
    /\ target = [x \in Actors |-> None]
    /\ expirySeen = [c \in Calls |-> 0]
    /\ expiryNext = [c \in Calls |-> 0]
    /\ now = 1

Goto(x, s) == step' = [step EXCEPT ![x] = s]
Start(x, t, s) == /\ step[x] = "idle"
                  /\ Goto(x, s)
                  /\ target' = [target EXCEPT ![x] = t]
Unlocked(r) == lock[r] = None
Take(r, x) == Unlocked(r) /\ lock' = [lock EXCEPT ![r] = x]
Released(x) == [r \in Rows |-> IF lock[r] = x THEN None ELSE lock[r]]

OrderOf(c) == target[c]
UserOf(c) == Owner[target[c]]

----------------------------------------------------------------------------
(* createOrder.                                                             *)

CreateOrder(o) ==
    /\ order[o] = "NONE"
    /\ order' = [order EXCEPT ![o] = "PENDING"]
    /\ link' = [link EXCEPT ![o] =
                  IF Provider[o] = "BANK_TRANSFER" THEN "dead" ELSE "asked"]
    /\ UNCHANGED <<purchases, userVars, lock, callVars, now>>

GatewayAccepts(o) ==
    /\ link[o] = "asked"
    /\ link' = [link EXCEPT ![o] = "ready"]
    /\ UNCHANGED <<order, purchases, userVars, lock, callVars, now>>

(* MoMo answers with an error: FAILED is written whatever the order is now.  *)
GatewayRefuses(o) ==
    /\ link[o] = "asked"
    /\ Provider[o] = "MOMO"
    /\ Unlocked(<<"order", o>>)
    /\ order' = [order EXCEPT ![o] = "FAILED"]
    /\ link' = [link EXCEPT ![o] = "dead"]
    /\ UNCHANGED <<purchases, userVars, lock, callVars, now>>

(* The gateway call throws, or payOS refuses: the order is left PENDING.     *)
GatewayThrows(o) ==
    /\ link[o] = "asked"
    /\ link' = [link EXCEPT ![o] = "dead"]
    /\ UNCHANGED <<order, purchases, userVars, lock, callVars, now>>

----------------------------------------------------------------------------
(* What reaches markOrderPaid, and the failure notices.                     *)

callData == <<expirySeen, expiryNext>>

(* handleMomoIpn and handlePayosWebhook of a success: no look at the status. *)
SuccessNotice(c, o) ==
    /\ link[o] = "ready"
    /\ Start(c, o, "paid")
    /\ UNCHANGED <<orderVars, userVars, lock, callData, now>>

(* The same handlers of a failure: they write what the status they read says. *)
FailureNotice(c, o) ==
    /\ link[o] = "ready"
    /\ Start(c, o, IF order[o] = "PENDING" THEN "fail" ELSE "done")
    /\ UNCHANGED <<orderVars, userVars, lock, callData, now>>

FailWrite(c) ==
    /\ step[c] = "fail"
    /\ Unlocked(<<"order", OrderOf(c)>>)
    /\ order' = [order EXCEPT ![OrderOf(c)] = "FAILED"]
    /\ Goto(c, "done")
    /\ UNCHANGED <<link, purchases, userVars, lock, target, callData, now>>

(* syncPayosOrderStatus of an order that payOS says is paid. *)
SyncLookup(c, o) ==
    /\ link[o] = "ready"
    /\ Provider[o] = "PAYOS"
    /\ order[o] = "PENDING"
    /\ Start(c, o, "paid")
    /\ UNCHANGED <<orderVars, userVars, lock, callData, now>>

AdminMarkPaid(c, o) ==
    /\ order[o] # "NONE"
    /\ Start(c, o, "paid")
    /\ UNCHANGED <<orderVars, userVars, lock, callData, now>>

----------------------------------------------------------------------------
(* The transaction of markOrderPaid.                                        *)

(* The order is read with its user; a PAID order is answered "already paid"  *)
(* and one that is not PENDING is refused.                                   *)
PaidRead(c) ==
    /\ step[c] = "paid"
    /\ IF order[OrderOf(c)] = "PENDING"
       THEN /\ expirySeen' = [expirySeen EXCEPT ![c] = expiry[UserOf(c)]]
            /\ Goto(c, "claim")
       ELSE Goto(c, "done") /\ UNCHANGED expirySeen
    /\ UNCHANGED <<orderVars, userVars, lock, target, expiryNext, now>>

(* Mutant: the order is claimed by its id alone. *)
PaidClaimUnconditional(c) ==
    /\ step[c] = "claim"
    /\ Take(<<"order", OrderOf(c)>>, c)
    /\ Goto(c, "credit")
    /\ UNCHANGED <<orderVars, userVars, target, callData, now>>

(* Mutant: the status is written before the transaction. *)
PaidClaimOutside(c) ==
    /\ step[c] = "claim"
    /\ Unlocked(<<"order", OrderOf(c)>>)
    /\ order' = [order EXCEPT ![OrderOf(c)] = "PAID"]
    /\ Goto(c, IF order[OrderOf(c)] = "PENDING" THEN "credit" ELSE "done")
    /\ UNCHANGED <<link, purchases, userVars, lock, target, callData, now>>

(* Mutant: a call that loses the claim tries again. *)
PaidClaimRetried(c) ==
    /\ step[c] = "claim"
    /\ order[OrderOf(c)] = "PENDING"
    /\ Take(<<"order", OrderOf(c)>>, c)
    /\ Goto(c, "credit")
    /\ UNCHANGED <<orderVars, userVars, target, callData, now>>

(* updateMany where status is PENDING: it waits for the row, then looks at   *)
(* the committed status again; count 0 ends the call.                        *)
PaidClaim(c) ==
    /\ step[c] = "claim"
    /\ Unlocked(<<"order", OrderOf(c)>>)
    /\ IF order[OrderOf(c)] = "PENDING"
       THEN Take(<<"order", OrderOf(c)>>, c) /\ Goto(c, "credit")
       ELSE Goto(c, "done") /\ UNCHANGED lock
    /\ UNCHANGED <<orderVars, userVars, target, callData, now>>

(* Mutant: the wallet is incremented outside the transaction. *)
PaidCreditOutside(c) ==
    /\ step[c] = "credit"
    /\ Unlocked(<<"wallet", UserOf(c)>>)
    /\ balance' = [balance EXCEPT ![UserOf(c)] = @ + Credits[OrderOf(c)]]
    /\ Goto(c, IF Days[OrderOf(c)] > 0 THEN "extend" ELSE "commit")
    /\ UNCHANGED <<orderVars, role, expiry, lock, target, callData, now>>

(* userCredit.upsert with an increment. *)
PaidCredit(c) ==
    /\ step[c] = "credit"
    /\ Take(<<"wallet", UserOf(c)>>, c)
    /\ Goto(c, IF Days[OrderOf(c)] > 0 THEN "extend" ELSE "commit")
    /\ UNCHANGED <<orderVars, userVars, target, callData, now>>

(* A subscription that still runs is extended from the end that was read.    *)
NewExpiry(c) ==
    (IF expirySeen[c] > now THEN expirySeen[c] ELSE now) + Days[OrderOf(c)]

(* Mutant: the subscription is extended outside the transaction. *)
PaidExtendOutside(c) ==
    /\ step[c] = "extend"
    /\ Unlocked(<<"user", UserOf(c)>>)
    /\ expiryNext' = [expiryNext EXCEPT ![c] = NewExpiry(c)]
    /\ expiry' = [expiry EXCEPT ![UserOf(c)] = NewExpiry(c)]
    /\ role' = [role EXCEPT ![UserOf(c)] = "PRO"]
    /\ Goto(c, "commit")
    /\ UNCHANGED <<orderVars, balance, lock, target, expirySeen, now>>

PaidExtend(c) ==
    /\ step[c] = "extend"
    /\ Take(<<"user", UserOf(c)>>, c)
    /\ expiryNext' = [expiryNext EXCEPT ![c] = NewExpiry(c)]
    /\ Goto(c, "commit")
    /\ UNCHANGED <<orderVars, userVars, target, expirySeen, now>>

(* The ledger entry and the commit.  PRO is written over any role.           *)
PaidCommit(c) ==
    /\ step[c] = "commit"
    /\ order' = [order EXCEPT ![OrderOf(c)] = "PAID"]
    /\ purchases' = [purchases EXCEPT ![OrderOf(c)] = @ + 1]
    /\ balance' = [balance EXCEPT ![UserOf(c)] = @ + Credits[OrderOf(c)]]
    /\ IF Days[OrderOf(c)] > 0
       THEN /\ role' = [role EXCEPT ![UserOf(c)] = "PRO"]
            /\ expiry' = [expiry EXCEPT ![UserOf(c)] = expiryNext[c]]
       ELSE UNCHANGED <<role, expiry>>
    /\ lock' = Released(c)
    /\ Goto(c, "done")
    /\ UNCHANGED <<link, target, callData, now>>

(* Nothing of the transaction stays: a crash, a lost connection, its time-out *)
(* or a providerOrderId that another order has.                               *)
PaidAbort(c) ==
    /\ step[c] \in PaidSteps
    /\ lock' = Released(c)
    /\ Goto(c, "done")
    /\ UNCHANGED <<orderVars, userVars, target, callData, now>>

----------------------------------------------------------------------------
(* The downgrade of a lapsed subscription.                                  *)

Lapsed(u) == role[u] = "PRO" /\ expiry[u] <= now

Downgrade(u) ==
    /\ role' = [role EXCEPT ![u] = "FREE"]
    /\ expiry' = [expiry EXCEPT ![u] = 0]

(* JwtStrategy.validate reads the user, then downgrades by what it has read. *)
Validate(q, u) ==
    /\ Start(q, u, IF Lapsed(u) THEN "downgrade" ELSE "done")
    /\ UNCHANGED <<orderVars, userVars, lock, callData, now>>

ValidateDowngrade(q) ==
    /\ step[q] = "downgrade"
    /\ Unlocked(<<"user", target[q]>>)
    /\ Downgrade(target[q])
    /\ Goto(q, "done")
    /\ UNCHANGED <<orderVars, balance, lock, target, callData, now>>

(* createVideoJob does it in its transaction, before it charges the wallet.  *)
JobRead(q, u) ==
    /\ Start(q, u, IF Lapsed(u) THEN "jobDowngrade" ELSE "jobCharge")
    /\ UNCHANGED <<orderVars, userVars, lock, callData, now>>

JobDowngrade(q) ==
    /\ step[q] = "jobDowngrade"
    /\ Take(<<"user", target[q]>>, q)
    /\ Goto(q, "jobCharge")
    /\ UNCHANGED <<orderVars, userVars, target, callData, now>>

(* 'Not enough credit', or the decrement; CreditCharge.tla has the details.  *)
JobCharge(q) ==
    /\ step[q] = "jobCharge"
    /\ IF balance[target[q]] < Price
       THEN lock' = Released(q) /\ Goto(q, "done")
       ELSE Take(<<"wallet", target[q]>>, q) /\ Goto(q, "jobCommit")
    /\ UNCHANGED <<orderVars, userVars, target, callData, now>>

JobCommit(q) ==
    /\ step[q] = "jobCommit"
    /\ balance' = [balance EXCEPT ![target[q]] = @ - Price]
    /\ IF lock[<<"user", target[q]>>] = q
       THEN Downgrade(target[q])
       ELSE UNCHANGED <<role, expiry>>
    /\ lock' = Released(q)
    /\ Goto(q, "created")
    /\ UNCHANGED <<orderVars, target, callData, now>>

(* A PRO-only preset is refused, or the transaction is aborted. *)
JobAbort(q) ==
    /\ step[q] \in JobSteps
    /\ lock' = Released(q)
    /\ Goto(q, "done")
    /\ UNCHANGED <<orderVars, userVars, target, callData, now>>

(* PostgreSQL aborts one of two transactions that wait for each other: the   *)
(* payment has the wallet and wants the user, the job the other way round.   *)
Deadlocked(c, q) ==
    /\ step[c] = "extend"
    /\ step[q] = "jobCharge"
    /\ lock[<<"user", UserOf(c)>>] = q
    /\ lock[<<"wallet", target[q]>>] = c

DeadlockBroken(c, q) ==
    /\ Deadlocked(c, q)
    /\ PaidAbort(c) \/ JobAbort(q)

Tick ==
    /\ now < MaxTime
    /\ now' = now + 1
    /\ UNCHANGED <<orderVars, userVars, lock, callVars>>

----------------------------------------------------------------------------
Create == \E o \in Orders : \/ CreateOrder(o) \/ GatewayAccepts(o)
                            \/ GatewayRefuses(o) \/ GatewayThrows(o)

Begin(c) == \E o \in Orders : \/ SuccessNotice(c, o) \/ FailureNotice(c, o)
                              \/ SyncLookup(c, o) \/ AdminMarkPaid(c, o)

Proceed(c) == \/ FailWrite(c) \/ PaidRead(c) \/ PaidClaim(c)
              \/ PaidCredit(c) \/ PaidExtend(c) \/ PaidCommit(c)

Request(q) == \E u \in Users : Validate(q, u) \/ JobRead(q, u)

Serve(q) == \/ ValidateDowngrade(q) \/ JobDowngrade(q)
            \/ JobCharge(q) \/ JobCommit(q)

Next ==
    \/ Create
    \/ \E c \in Calls : Begin(c) \/ Proceed(c) \/ PaidAbort(c)
    \/ \E q \in Requests : Request(q) \/ Serve(q) \/ JobAbort(q)
    \/ \E c \in Calls, q \in Requests : DeadlockBroken(c, q)
    \/ Tick

Spec == Init /\ [][Next]_vars

(* A call the API has taken goes on, and the database breaks deadlocks; new  *)
(* calls, aborts and the passing of time are nobody's duty.                  *)
FairSpec ==
    /\ Spec
    /\ \A c \in Calls : WF_vars(Proceed(c))
    /\ \A q \in Requests : WF_vars(Serve(q))
    /\ \A c \in Calls, q \in Requests : WF_vars(DeadlockBroken(c, q))

----------------------------------------------------------------------------
(* Properties.                                                              *)

TypeOK ==
    /\ order \in [Orders -> OrderStatus]
    /\ link \in [Orders -> LinkState]
    /\ purchases \in [Orders -> Nat]
    /\ balance \in [Users -> Int]
    /\ role \in [Users -> UserRole]
    /\ expiry \in [Users -> Nat]
    /\ lock \in [Rows -> Actors \cup {None}]
    /\ step \in [Actors -> Step]
    /\ \A c \in Calls : /\ step[c] \notin JobSteps \cup {"downgrade", "created"}
                        /\ step[c] # "idle" => target[c] \in Orders
    /\ \A q \in Requests : /\ step[q] \notin PaidSteps \cup {"paid", "fail"}
                           /\ step[q] # "idle" => target[q] \in Users
    /\ target \in [Actors -> Orders \cup Users \cup {None}]
    /\ expirySeen \in [Calls -> Nat]
    /\ expiryNext \in [Calls -> Nat]
    /\ now \in 1..MaxTime

(* However often and from wherever an order is reported paid, at the same    *)
(* time or after a crash, its credits are given once.                        *)
CreditedOnce == \A o \in Orders : purchases[o] <= 1

(* An order the customer sees as PAID has been credited: no crash can leave  *)
(* it PAID and uncredited, which no later notice would repair.               *)
PaidIsCredited == \A o \in Orders : order[o] = "PAID" => purchases[o] = 1

(* The wallet changes by what OrderSettlement promises and nothing else. *)
Settlement == INSTANCE OrderSettlement
                WITH settled <- {o \in Orders : purchases[o] > 0},
                     wallet <- balance
Settles == Settlement!Spec

(* Nobody is PRO for longer than the orders he paid for allow: a repeated or *)
(* aborted call never adds days.                                             *)
ProDaysPaidFor ==
    \A u \in Users :
        expiry[u] <= now + SumFunctionOnSet([o \in Orders |-> Days[o] * purchases[o]],
                                            {o \in Orders : Owner[o] = u})

(* Every call that reached the transaction of markOrderPaid ends, also when  *)
(* other payments and createVideoJob calls of the same user hold its rows.   *)
PaymentsEnd == \A c \in Calls : step[c] = "paid" ~> step[c] = "done"

(* The order becomes FAILED "nếu còn pending", if it is still pending. *)
PaidStaysPaid == [][\A o \in Orders : order[o] = "PAID" => order'[o] = "PAID"]_vars

(* Buying PRO makes proExpiresAt increase. *)
PurchaseExtends ==
    [][\A o \in Orders : purchases'[o] > purchases[o] /\ Days[o] > 0
          => expiry'[Owner[o]] > expiry[Owner[o]]]_vars

(* proExpiresAt is the moment PRO ends: nobody loses it earlier. *)
ProLastsUntilExpiry ==
    [][\A u \in Users : role[u] = "PRO" /\ role'[u] = "FREE" => expiry[u] <= now]_vars
=============================================================================
