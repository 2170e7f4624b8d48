----------------------------- MODULE CreditCharge -----------------------------
(***************************************************************************)
(* What creating a job costs: the transaction of createVideoJob that       *)
(* applies the daily free quota of PRO users, checks the wallet, charges   *)
(* it and creates the row, for one user whose calls run concurrently, with *)
(* the other writers of the wallet beside it (refunds and top-ups).        *)
(*                                                                         *)
(* READ COMMITTED: a call reads committed values, its own writes become    *)
(* visible together at its commit, and the upsert of the usage row of the  *)
(* day keeps that row locked until then.                                   *)
(***************************************************************************)
EXTENDS Integers, FiniteSetsExt

CONSTANTS
    Calls,           \* createVideoJob calls of the user
    Presets,         \* presets offered, [cost |-> Nat, proOnly |-> BOOLEAN]
    InitialBalance,  \* credits in the wallet
    DailyFree,       \* PRO_DAILY_FREE_PREMIUM_CREDITS (20 in the code)
    MaxDay,          \* business days the model spans
    TopUps,          \* amounts of the top-up calls that may come, a set
    Free             \* no call holds the usage row

ASSUME PresetsAssumption ==
    \A p \in Presets : p.cost \in Nat \ {0} /\ p.proOnly \in BOOLEAN
ASSUME AmountsAssumption ==
    InitialBalance \in Nat /\ DailyFree \in Nat /\ TopUps \subseteq Nat
ASSUME DaysAssumption == MaxDay \in Nat \ {0}
ASSUME FreeAssumption == Free \notin Calls

VARIABLES
    balance,    \* committed balance of the wallet
    used,       \* [Days -> Nat]: committed premiumFreeCreditsUsed of the day
    usageLock,  \* [Days -> call or Free]: who holds the usage row
    today,      \* the business day, Asia/Ho_Chi_Minh
    role,       \* effective role of the user
    step,       \* [Calls -> CallStep]
    preset,     \* [Calls -> Presets]: what the call asks for
    day,        \* [Calls -> Days]: the date key the call computed
    free,       \* [Calls -> Nat]: dailyFreeApplied
    seen,       \* [Calls -> Int]: the balance the call has read
    toppedUp    \* the top-ups done

walletVars == <<balance, used, usageLock>>
callVars == <<step, preset, day, free, seen>>
vars == <<walletVars, callVars, today, role, toppedUp>>

Days == 1..MaxDay

CallStep == {"new", "quota", "wallet", "charge", "created", "rejected", "refunded"}

(* chargedCreditCost, the creditCost of the row. *)
ChargedCost(c) == preset[c].cost - free[c]

Init ==
    /\ balance = InitialBalance
    /\ used = [d \in Days |-> 0]
    /\ usageLock = [d \in Days |-> Free]
    /\ today = 1
    /\ role \in {"FREE", "PRO", "ADMIN"}
    /\ step = [c \in Calls |-> "new"]
    /\ preset \in [Calls -> Presets]
    /\ day = [c \in Calls |-> 1]
    /\ free = [c \in Calls |-> 0]
    /\ seen = [c \in Calls |-> 0]
    /\ toppedUp = {}

(* The user is read and the effective role decides: a premium preset is not  *)
(* for FREE users, and has the daily quota for PRO ones.  The downgrade of a *)
(* lapsed subscription is in Billing.tla.                                    *)
ReadUser(c) ==
    /\ step[c] = "new"
    /\ step' = [step EXCEPT ![c] =
                  IF preset[c].proOnly /\ role = "FREE" THEN "rejected"
                  ELSE IF preset[c].proOnly /\ role = "PRO" THEN "quota"
                  ELSE "wallet"]
    /\ UNCHANGED <<walletVars, preset, day, free, seen, today, role, toppedUp>>

(* min(creditCost, freeRemaining), freeRemaining never below zero. *)
FreeApplied(cost, usedUp) ==
    IF usedUp >= DailyFree THEN 0
    ELSE IF cost <= DailyFree - usedUp THEN cost ELSE DailyFree - usedUp

(* userDailyUsage.upsert locks and returns the row of the day, which is then *)
(* incremented; the wallet is looked at only when something is left to pay.  *)
ApplyQuota(c) ==
    /\ step[c] = "quota"
    /\ day' = [day EXCEPT ![c] = today]
    /\ free' = [free EXCEPT ![c] = FreeApplied(preset[c].cost, used[today])]
    /\ step' = [step EXCEPT ![c] =
                  IF free'[c] < preset[c].cost THEN "wallet" ELSE "charge"]
    /\ UNCHANGED <<balance, used, preset, seen, today, role, toppedUp>>

(* Mutant: the row is found or created without keeping it locked. *)
UpsertUsageUnlocked(c) == ApplyQuota(c) /\ UNCHANGED usageLock

UpsertUsage(c) ==
    /\ usageLock[today] = Free
    /\ ApplyQuota(c)
    /\ usageLock' = [usageLock EXCEPT ![today] = c]

Unlocked(c) == [d \in Days |-> IF usageLock[d] = c THEN Free ELSE usageLock[d]]

(* Mutant: the whole quota is deducted, not what was left of it. *)
AffordsMutant(c) == balance >= preset[c].cost - DailyFree
Affords(c) == balance >= ChargedCost(c)

(* The plain read of the wallet: 'Not enough credit' rolls everything back. *)
CheckWallet(c) ==
    /\ step[c] = "wallet"
    /\ IF ~Affords(c)
       THEN /\ step' = [step EXCEPT ![c] = "rejected"]
            /\ free' = [free EXCEPT ![c] = 0]
            /\ usageLock' = Unlocked(c)
            /\ UNCHANGED seen
       ELSE /\ step' = [step EXCEPT ![c] = "charge"]
            /\ seen' = [seen EXCEPT ![c] = balance]
            /\ UNCHANGED <<free, usageLock>>
    /\ UNCHANGED <<balance, used, preset, day, today, role, toppedUp>>

(* Mutant: the balance the check has read is written back, less the charge. *)
DecrementMutant(c) == seen[c] - ChargedCost(c)
Decrement(c) == balance - ChargedCost(c)

(* Mutant: the quota is looked up again, on the day of the commit. *)
ChargeMutant(c) ==
    /\ step[c] = "charge"
    /\ balance' = balance - ChargedCost(c)
    /\ used' = [used EXCEPT ![today] = @ + free[c]]
    /\ usageLock' = Unlocked(c)
    /\ step' = [step EXCEPT ![c] = "created"]
    /\ UNCHANGED <<preset, day, free, seen, today, role, toppedUp>>

(* The relative decrement, the row and the commit. *)
Charge(c) ==
    /\ step[c] = "charge"
    /\ balance' = IF ChargedCost(c) > 0 THEN Decrement(c) ELSE balance
    /\ used' = [used EXCEPT ![day[c]] = @ + free[c]]
    /\ usageLock' = Unlocked(c)
    /\ step' = [step EXCEPT ![c] = "created"]
    /\ UNCHANGED <<preset, day, free, seen, today, role, toppedUp>>

(* The transaction is aborted: a time-out, a crash or a lost connection. *)
Abort(c) ==
    /\ step[c] \in {"quota", "wallet", "charge"}
    /\ usageLock' = Unlocked(c)
    /\ free' = [free EXCEPT ![c] = 0]
    /\ step' = [step EXCEPT ![c] = "rejected"]
    /\ UNCHANGED <<balance, used, preset, day, seen, today, role, toppedUp>>

(* The job failed or was cancelled: its creditCost comes back. *)
RefundAmount(c) == ChargedCost(c)

Refund(c) ==
    /\ step[c] = "created"
    /\ ChargedCost(c) > 0
    /\ balance' = balance + RefundAmount(c)
    /\ step' = [step EXCEPT ![c] = "refunded"]
    /\ UNCHANGED <<used, usageLock, preset, day, free, seen, today, role, toppedUp>>

(* topUpMyCredits, and the credits of a paid order. *)
TopUp(a) ==
    /\ a \in TopUps \ toppedUp
    /\ balance' = balance + a
    /\ toppedUp' = toppedUp \cup {a}
    /\ UNCHANGED <<used, usageLock, callVars, today, role>>

(* The subscription starts or ends, and midnight comes. *)
SubscriptionChanges ==
    /\ role # "ADMIN"
    /\ role' = IF role = "PRO" THEN "FREE" ELSE "PRO"
    /\ UNCHANGED <<walletVars, callVars, today, toppedUp>>

NextDay ==
    /\ today < MaxDay
    /\ today' = today + 1
    /\ UNCHANGED <<walletVars, callVars, role, toppedUp>>

Next ==
    \/ \E c \in Calls : \/ ReadUser(c) \/ UpsertUsage(c)
                        \/ CheckWallet(c) \/ Charge(c) \/ Abort(c) \/ Refund(c)
    \/ \E a \in TopUps : TopUp(a)
    \/ SubscriptionChanges
    \/ NextDay

Spec == Init /\ [][Next]_vars

----------------------------------------------------------------------------
(* Properties.                                                              *)

TypeOK ==
    /\ balance \in Int
    /\ used \in [Days -> Nat]
    /\ usageLock \in [Days -> Calls \cup {Free}]
    /\ today \in Days
    /\ role \in {"FREE", "PRO", "ADMIN"}
    /\ step \in [Calls -> CallStep]
    /\ preset \in [Calls -> Presets]
    /\ day \in [Calls -> Days]
    /\ free \in [Calls -> Nat]
    /\ seen \in [Calls -> Int]
    /\ toppedUp \subseteq TopUps

Created == {c \in Calls : step[c] \in {"created", "refunded"}}
Paid == {c \in Calls : step[c] = "created"}

(* Concurrent premium jobs of one user never get more than the free quota of *)
(* a day between them, on either side of midnight.                           *)
QuotaKept == \A d \in Days : used[d] <= DailyFree

(* The quota used on a day is what the jobs created under that date key were *)
(* given: a call that is rejected or aborted uses none of it.                *)
QuotaAccounted ==
    \A d \in Days :
        used[d] = SumFunctionOnSet(free, {c \in Created : day[c] = d})

(* Every credit is accounted for: the wallet is what it was, plus the        *)
(* top-ups, less the charge of every job that was not refunded, whatever     *)
(* ran at the same time.                                                     *)
BalanceAccounted ==
    balance = InitialBalance
              + SumFunctionOnSet([a \in TopUps |-> a], toppedUp)
              - SumFunctionOnSet([c \in Calls |-> ChargedCost(c)], Paid)

(* The read of the wallet does not stop two calls from paying out of the     *)
(* same credits, but it bounds what that costs: without the charges of the   *)
(* other unrefunded jobs the wallet could pay each job, so it is overdrawn   *)
(* by no more than all of them but one.                                      *)
OverdraftBounded ==
    \A c \in Paid : ChargedCost(c) > 0 =>
        balance + SumFunctionOnSet([b \in Calls |-> ChargedCost(b)], Paid \ {c}) >= 0

(* 'Not enough credit': a job that the wallet cannot pay is refused. *)
NoOverdraft == balance >= 0
=============================================================================
