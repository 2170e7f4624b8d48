-------------------------- MODULE CreditChargeProofs --------------------------
(***************************************************************************)
(* Theorems about CreditCharge, for any number of concurrent calls, any    *)
(* presets, quota, top-ups and initial balance: the free quota of a day is *)
(* never exceeded, every free and every paid credit is accounted for, and  *)
(* racing calls overdraw the wallet by no more than all of them but one.   *)
(***************************************************************************)
EXTENDS CreditCharge, SumTheorems, TLAPS

LEMMA FreeAppliedFits ==
    ASSUME NEW cost \in Nat, NEW usedUp \in Nat, usedUp <= DailyFree
    PROVE  /\ FreeApplied(cost, usedUp) \in Nat
           /\ FreeApplied(cost, usedUp) <= cost
           /\ usedUp + FreeApplied(cost, usedUp) <= DailyFree
BY AmountsAssumption DEF FreeApplied

(* A call that was given something of the quota and has not ended holds the  *)
(* row of its day, and what it was given still fits.                         *)
Reserved(c) ==
    step[c] \in {"wallet", "charge"} /\ free[c] > 0
      => /\ usageLock[day[c]] = c
         /\ used[day[c]] + free[c] <= DailyFree

QuotaInv ==
    /\ TypeOK
    /\ QuotaKept
    /\ \A c \in Calls : Reserved(c) /\ (step[c] \in {"new", "quota"} => free[c] = 0)

LEMMA PresetType == ASSUME TypeOK, NEW c \in Calls PROVE preset[c].cost \in Nat
BY PresetsAssumption DEF TypeOK

LEMMA QuotaInvHolds == Spec => []QuotaInv
<1>1. Init => QuotaInv
  BY AmountsAssumption, DaysAssumption
     DEF Init, QuotaInv, TypeOK, QuotaKept, Reserved, Days, CallStep
<1>2. QuotaInv /\ [Next]_vars => QuotaInv'
  <2> SUFFICES ASSUME QuotaInv, [Next]_vars PROVE QuotaInv'
    OBVIOUS
  <2>1. CASE UNCHANGED vars
    BY <2>1 DEF vars, walletVars, callVars, QuotaInv, TypeOK, QuotaKept, Reserved
  <2>2. ASSUME NEW c \in Calls, ReadUser(c) PROVE QuotaInv'
    <3>1. TypeOK'
      BY <2>2 DEF ReadUser, walletVars, QuotaInv, TypeOK, CallStep
    <3>2. ASSUME NEW b \in Calls
          PROVE  Reserved(b)' /\ (step'[b] \in {"new", "quota"} => free'[b] = 0)
      BY <2>2 DEF ReadUser, walletVars, QuotaInv, TypeOK, Reserved
    <3>3. QuotaKept'
      BY <2>2 DEF ReadUser, walletVars, QuotaInv, QuotaKept
    <3> QED BY <3>1, <3>2, <3>3 DEF QuotaInv
  <2>3. ASSUME NEW c \in Calls, UpsertUsage(c) PROVE QuotaInv'
    <3> DEFINE given == FreeApplied(preset[c].cost, used[today])
    <3>1. /\ today \in Days /\ used[today] \in Nat /\ used[today] <= DailyFree
      BY DEF QuotaInv, TypeOK, QuotaKept
    <3>2. given \in Nat /\ used[today] + given <= DailyFree
      BY <3>1, PresetType, FreeAppliedFits DEF QuotaInv
    <3> HIDE DEF given
    <3>3. /\ step[c] = "quota"
          /\ usageLock[today] = Free
          /\ usageLock' = [usageLock EXCEPT ![today] = c]
          /\ day' = [day EXCEPT ![c] = today]
          /\ free' = [free EXCEPT ![c] = given]
          /\ \E s \in {"wallet", "charge"} : step' = [step EXCEPT ![c] = s]
          /\ UNCHANGED <<balance, used, preset, seen, today, role, toppedUp>>
      BY <2>3 DEF UpsertUsage, ApplyQuota, given
    <3>4. TypeOK'
      BY <3>1, <3>2, <3>3 DEF QuotaInv, TypeOK, CallStep
    <3>5. ASSUME NEW b \in Calls
          PROVE  Reserved(b)' /\ (step'[b] \in {"new", "quota"} => free'[b] = 0)
      <4>1. CASE b = c
        BY <3>1, <3>2, <3>3, <4>1 DEF QuotaInv, TypeOK, Reserved
      <4>2. CASE b # c
        <5>1. step'[b] = step[b] /\ day'[b] = day[b] /\ free'[b] = free[b]
          BY <3>3, <4>2 DEF QuotaInv, TypeOK
        <5>2. Reserved(b) /\ (step[b] \in {"new", "quota"} => free[b] = 0)
          BY DEF QuotaInv
        <5>3. step[b] \in {"wallet", "charge"} /\ free[b] > 0 => day[b] # today
          BY <3>3, <5>2, FreeAssumption DEF Reserved
        <5> QED BY <3>3, <5>1, <5>2, <5>3 DEF Reserved, QuotaInv, TypeOK
      <4> QED BY <4>1, <4>2
    <3>6. QuotaKept'
      BY <3>3 DEF QuotaInv, QuotaKept
    <3> QED BY <3>4, <3>5, <3>6 DEF QuotaInv
  <2>4. ASSUME NEW c \in Calls, CheckWallet(c) PROVE QuotaInv'
    <3>1. CASE ~Affords(c)
      <4>1. /\ step' = [step EXCEPT ![c] = "rejected"]
            /\ free' = [free EXCEPT ![c] = 0]
            /\ usageLock' = [d \in Days |-> IF usageLock[d] = c THEN Free ELSE usageLock[d]]
            /\ UNCHANGED <<balance, used, preset, day, seen, today, role, toppedUp>>
        BY <2>4, <3>1 DEF CheckWallet, Unlocked
      <4>2. TypeOK'
        BY <4>1 DEF QuotaInv, TypeOK, CallStep
      <4>3. ASSUME NEW b \in Calls
            PROVE  Reserved(b)' /\ (step'[b] \in {"new", "quota"} => free'[b] = 0)
        BY <4>1 DEF QuotaInv, TypeOK, Reserved
      <4>4. QuotaKept'
        BY <4>1 DEF QuotaInv, QuotaKept
      <4> QED BY <4>2, <4>3, <4>4 DEF QuotaInv
    <3>2. CASE Affords(c)
      <4>1. /\ step[c] = "wallet"
            /\ step' = [step EXCEPT ![c] = "charge"]
            /\ seen' = [seen EXCEPT ![c] = balance]
            /\ UNCHANGED <<balance, used, usageLock, preset, day, free, today, role,
                           toppedUp>>
        BY <2>4, <3>2 DEF CheckWallet
      <4>2. TypeOK'
        BY <4>1 DEF QuotaInv, TypeOK, CallStep
      <4>3. ASSUME NEW b \in Calls
            PROVE  Reserved(b)' /\ (step'[b] \in {"new", "quota"} => free'[b] = 0)
        BY <4>1 DEF QuotaInv, TypeOK, Reserved
      <4>4. QuotaKept'
        BY <4>1 DEF QuotaInv, QuotaKept
      <4> QED BY <4>2, <4>3, <4>4 DEF QuotaInv
    <3> QED BY <3>1, <3>2
  <2>5. ASSUME NEW c \in Calls, Charge(c) PROVE QuotaInv'
    <3>1. /\ step[c] = "charge"
          /\ used' = [used EXCEPT ![day[c]] = @ + free[c]]
          /\ usageLock' = [d \in Days |-> IF usageLock[d] = c THEN Free ELSE usageLock[d]]
          /\ step' = [step EXCEPT ![c] = "created"]
          /\ UNCHANGED <<preset, day, free, seen, today, role, toppedUp>>
      BY <2>5 DEF Charge, Unlocked
    <3>2. balance' \in Int
      <4>1. ChargedCost(c) \in Int
        BY PresetType DEF ChargedCost, QuotaInv, TypeOK
      <4> QED BY <2>5, <4>1 DEF Charge, Decrement, QuotaInv, TypeOK
    <3>3. /\ day[c] \in Days /\ free[c] \in Nat /\ used[day[c]] \in Nat
          /\ used[day[c]] + free[c] <= DailyFree
      BY <3>1, AmountsAssumption DEF QuotaInv, TypeOK, QuotaKept, Reserved
    <3>4. used' \in [Days -> Nat]
      BY <3>1, <3>3 DEF QuotaInv, TypeOK
    <3>5. TypeOK'
      BY <3>1, <3>2, <3>4 DEF QuotaInv, TypeOK, CallStep
    <3>6. ASSUME NEW b \in Calls
          PROVE  Reserved(b)' /\ (step'[b] \in {"new", "quota"} => free'[b] = 0)
      <4>1. CASE b = c
        BY <3>1, <4>1 DEF QuotaInv, TypeOK, Reserved
      <4>2. CASE b # c
        <5>1. step'[b] = step[b] /\ day'[b] = day[b] /\ free'[b] = free[b]
          BY <3>1, <4>2 DEF QuotaInv, TypeOK
        <5>2. Reserved(b) /\ (step[b] \in {"new", "quota"} => free[b] = 0)
          BY DEF QuotaInv
        <5>3. CASE step[b] \in {"wallet", "charge"} /\ free[b] > 0
          <6>1. usageLock[day[b]] = b /\ day[b] \in Days
            BY <5>2, <5>3 DEF Reserved, QuotaInv, TypeOK
          <6>2. usageLock'[day[b]] = b
            BY <3>1, <4>2, <6>1
          <6>3. used'[day[b]] = used[day[b]]
            <7>1. CASE day[b] # day[c]
              BY <3>1, <6>1, <7>1 DEF QuotaInv, TypeOK
            <7>2. CASE day[b] = day[c]
              <8>1. free[c] = 0
                <9>1. Reserved(c) /\ free[c] \in Nat
                  BY DEF QuotaInv, TypeOK
                <9> QED BY <3>1, <4>2, <6>1, <7>2, <9>1 DEF Reserved
              <8> QED BY <3>1, <3>3, <7>2, <8>1 DEF QuotaInv, TypeOK
            <7> QED BY <7>1, <7>2
          <6> QED BY <5>1, <5>2, <5>3, <6>2, <6>3 DEF Reserved
        <5>4. CASE ~(step[b] \in {"wallet", "charge"} /\ free[b] > 0)
          BY <5>1, <5>2, <5>4 DEF Reserved
        <5> QED BY <5>3, <5>4
      <4> QED BY <4>1, <4>2
    <3>7. QuotaKept'
      BY <3>1, <3>3 DEF QuotaInv, QuotaKept, TypeOK
    <3> QED BY <3>5, <3>6, <3>7 DEF QuotaInv
  <2>6. ASSUME NEW c \in Calls, Abort(c) PROVE QuotaInv'
    <3>1. /\ step' = [step EXCEPT ![c] = "rejected"]
          /\ free' = [free EXCEPT ![c] = 0]
          /\ usageLock' = [d \in Days |-> IF usageLock[d] = c THEN Free ELSE usageLock[d]]
          /\ UNCHANGED <<balance, used, preset, day, seen, today, role, toppedUp>>
      BY <2>6 DEF Abort, Unlocked
    <3>2. TypeOK'
      BY <3>1 DEF QuotaInv, TypeOK, CallStep
    <3>3. ASSUME NEW b \in Calls
          PROVE  Reserved(b)' /\ (step'[b] \in {"new", "quota"} => free'[b] = 0)
      BY <3>1 DEF QuotaInv, TypeOK, Reserved
    <3>4. QuotaKept'
      BY <3>1 DEF QuotaInv, QuotaKept
    <3> QED BY <3>2, <3>3, <3>4 DEF QuotaInv
  <2>7. ASSUME NEW c \in Calls, Refund(c) PROVE QuotaInv'
    <3>1. balance' \in Int
      <4>1. ChargedCost(c) \in Int
        BY PresetType DEF ChargedCost, QuotaInv, TypeOK
      <4> QED BY <2>7, <4>1 DEF Refund, RefundAmount, QuotaInv, TypeOK
    <3>2. /\ step' = [step EXCEPT ![c] = "refunded"]
          /\ UNCHANGED <<used, usageLock, preset, day, free, seen, today, role, toppedUp>>
      BY <2>7 DEF Refund
    <3>3. TypeOK'
      BY <3>1, <3>2 DEF QuotaInv, TypeOK, CallStep
    <3>4. ASSUME NEW b \in Calls
          PROVE  Reserved(b)' /\ (step'[b] \in {"new", "quota"} => free'[b] = 0)
      BY <3>2 DEF QuotaInv, TypeOK, Reserved
    <3>5. QuotaKept'
      BY <3>2 DEF QuotaInv, QuotaKept
    <3> QED BY <3>3, <3>4, <3>5 DEF QuotaInv
  <2>8. ASSUME NEW a \in TopUps, TopUp(a) PROVE QuotaInv'
    BY <2>8, AmountsAssumption
       DEF TopUp, callVars, QuotaInv, TypeOK, QuotaKept, Reserved
  <2>9. CASE SubscriptionChanges \/ NextDay
    <3>1. today' \in Days /\ role' \in {"FREE", "PRO", "ADMIN"}
      BY <2>9, DaysAssumption DEF SubscriptionChanges, NextDay, Days, QuotaInv, TypeOK
    <3> QED BY <2>9, <3>1 DEF SubscriptionChanges, NextDay, walletVars, callVars,
                              QuotaInv, TypeOK, QuotaKept, Reserved
  <2> QED
    BY <2>1, <2>2, <2>3, <2>4, <2>5, <2>6, <2>7, <2>8, <2>9 DEF Next
<1> QED BY <1>1, <1>2, PTL DEF Spec

(* Concurrent premium jobs never get more than the free quota of a day. *)
THEOREM QuotaNeverExceeded == Spec => []QuotaKept
<1>1. QuotaInv => QuotaKept
  BY DEF QuotaInv
<1> QED BY <1>1, QuotaInvHolds, PTL

----------------------------------------------------------------------------
(* The ledger.                                                              *)

Costs == [c \in Calls |-> ChargedCost(c)]
ToppedUpSum == SumFunctionOnSet([a \in TopUps |-> a], toppedUp)

(* Nobody is given more of the quota than the preset costs. *)
Bounded(c) == free[c] <= preset[c].cost

(* A job that is being or was charged was within what the wallet has ever    *)
(* been given: the check that let it pass read no more than that.            *)
Affordable(c) ==
    step[c] \in {"charge", "created"}
      => ChargedCost(c) <= InitialBalance + ToppedUpSum

LedgerInv ==
    /\ IsFiniteSet(Created)
    /\ IsFiniteSet(toppedUp)
    /\ QuotaAccounted
    /\ BalanceAccounted
    /\ \A c \in Calls : Bounded(c) /\ Affordable(c)

LEMMA CostType ==
    ASSUME TypeOK, NEW c \in Calls, Bounded(c)
    PROVE  ChargedCost(c) \in Nat
BY PresetType DEF TypeOK, Bounded, ChargedCost

LEMMA LedgerTypes ==
    ASSUME TypeOK, LedgerInv
    PROVE  /\ IsFiniteSet(Paid) /\ Paid \subseteq Created
           /\ \A d \in Days : IsFiniteSet({c \in Created : day[c] = d})
           /\ \A c \in Calls : Costs[c] \in Nat
           /\ SumFunctionOnSet(Costs, Paid) \in Nat
           /\ ToppedUpSum \in Nat
           /\ balance = InitialBalance + ToppedUpSum - SumFunctionOnSet(Costs, Paid)
<1>1. Paid \in SUBSET Created /\ Created \subseteq Calls
  BY DEF Paid, Created
<1>2. IsFiniteSet(Paid)
  BY <1>1, FS_Subset DEF LedgerInv
<1>3. ASSUME NEW d \in Days PROVE IsFiniteSet({c \in Created : day[c] = d})
  <2>1. {c \in Created : day[c] = d} \in SUBSET Created
    OBVIOUS
  <2> QED BY <2>1, FS_Subset DEF LedgerInv
<1>4. \A c \in Calls : Costs[c] \in Nat
  BY CostType DEF Costs, LedgerInv
<1>5. SumFunctionOnSet(Costs, Paid) \in Nat
  <2>1. \A c \in Paid : Costs[c] \in Nat
    BY <1>1, <1>4
  <2> QED BY <1>2, <2>1, SumType
<1>6. ToppedUpSum \in Nat
  <2>1. \A a \in toppedUp : [b \in TopUps |-> b][a] \in Nat
    BY AmountsAssumption DEF TypeOK
  <2> QED BY <2>1, SumType DEF ToppedUpSum, LedgerInv
<1> QED
  BY <1>1, <1>2, <1>3, <1>4, <1>5, <1>6 DEF LedgerInv, BalanceAccounted, Costs, ToppedUpSum

(* A step that charges and refunds no job leaves the ledger alone. *)
LEMMA LedgerFrame ==
    ASSUME TypeOK, TypeOK', LedgerInv,
           UNCHANGED <<balance, used, toppedUp>>,
           \A b \in Calls :
              \/ step'[b] = step[b] /\ free'[b] = free[b] /\ day'[b] = day[b]
                   /\ preset'[b] = preset[b]
              \/ /\ step[b] \notin {"created", "refunded"}
                 /\ step'[b] \notin {"created", "refunded"}
    PROVE  /\ IsFiniteSet(Created') /\ IsFiniteSet(toppedUp')
           /\ QuotaAccounted' /\ BalanceAccounted' /\ ToppedUpSum' = ToppedUpSum
<1>1. Created' = Created /\ Paid' = Paid
  BY DEF Created, Paid
<1>2. \A b \in Created : free'[b] = free[b] /\ day'[b] = day[b] /\ Costs'[b] = Costs[b]
  BY DEF Created, Costs, ChargedCost
<1>3. QuotaAccounted'
  <2>1. ASSUME NEW d \in Days
        PROVE  used'[d] = SumFunctionOnSet(free', {c \in Created' : day'[c] = d})
    <3> DEFINE C == {c \in Created : day[c] = d}
    <3>1. {c \in Created' : day'[c] = d} = C
      BY <1>1, <1>2
    <3>2. IsFiniteSet(C) /\ \A b \in C : free[b] = free'[b]
      BY <1>2, LedgerTypes
    <3>3. used'[d] = SumFunctionOnSet(free, C)
      BY DEF LedgerInv, QuotaAccounted
    <3> HIDE DEF C
    <3>4. SumFunctionOnSet(free, C) = SumFunctionOnSet(free', C)
      BY <3>2, SumSame
    <3> QED BY <3>1, <3>3, <3>4
  <2> QED BY <2>1 DEF QuotaAccounted
<1>4. ToppedUpSum' = ToppedUpSum
  BY DEF ToppedUpSum
<1>5. BalanceAccounted'
  <2>1. IsFiniteSet(Paid) /\ \A b \in Paid : Costs[b] = Costs'[b]
    BY <1>2, LedgerTypes
  <2>2. SumFunctionOnSet(Costs, Paid) = SumFunctionOnSet(Costs', Paid)
    BY <2>1, SumSame
  <2>3. balance' = InitialBalance + ToppedUpSum' - SumFunctionOnSet(Costs', Paid')
    BY <1>1, <1>4, <2>2, LedgerTypes
  <2> QED BY <2>3 DEF BalanceAccounted, Costs, ToppedUpSum
<1> QED BY <1>1, <1>3, <1>4, <1>5 DEF LedgerInv

(* The steps of a transaction before its commit, and of nobody's job.        *)
LEMMA LedgerQuietStep ==
    ASSUME QuotaInv, QuotaInv', LedgerInv,
           \/ \E c \in Calls : ReadUser(c) \/ UpsertUsage(c) \/ CheckWallet(c) \/ Abort(c)
           \/ SubscriptionChanges \/ NextDay \/ UNCHANGED vars
    PROVE  LedgerInv'
<1> USE DEF QuotaInv
<1>1. CASE SubscriptionChanges \/ NextDay \/ UNCHANGED vars
  <2>1. UNCHANGED <<balance, used, toppedUp, step, free, day, preset>>
    BY <1>1 DEF SubscriptionChanges, NextDay, vars, walletVars, callVars
  <2>2. ToppedUpSum' = ToppedUpSum /\ \A b \in Calls : ChargedCost(b)' = ChargedCost(b)
    BY <2>1, LedgerFrame DEF ChargedCost
  <2> QED BY <2>1, <2>2, LedgerFrame DEF LedgerInv, Bounded, Affordable
<1>2. ASSUME NEW c \in Calls, ReadUser(c) PROVE LedgerInv'
  <2>1. /\ step[c] = "new"
        /\ \E s \in {"rejected", "quota", "wallet"} : step' = [step EXCEPT ![c] = s]
        /\ UNCHANGED <<balance, used, toppedUp, free, day, preset>>
    BY <1>2 DEF ReadUser, walletVars
  <2>2. /\ IsFiniteSet(Created') /\ IsFiniteSet(toppedUp')
        /\ QuotaAccounted' /\ BalanceAccounted' /\ ToppedUpSum' = ToppedUpSum
    BY <2>1, LedgerFrame DEF TypeOK
  <2>3. \A b \in Calls : ChargedCost(b)' = ChargedCost(b)
    BY <2>1 DEF ChargedCost
  <2> QED BY <2>1, <2>2, <2>3 DEF LedgerInv, Bounded, Affordable, TypeOK
<1>3. ASSUME NEW c \in Calls, UpsertUsage(c) PROVE LedgerInv'
  <2> DEFINE given == FreeApplied(preset[c].cost, used[today])
  <2>1. given \in Nat /\ given <= preset[c].cost /\ preset[c].cost \in Nat
    BY PresetType, FreeAppliedFits DEF TypeOK, QuotaKept
  <2>2. /\ step[c] = "quota"
        /\ free' = [free EXCEPT ![c] = given]
        /\ step' = [step EXCEPT ![c] = IF given < preset[c].cost THEN "wallet" ELSE "charge"]
        /\ \A b \in Calls : b # c => day'[b] = day[b]
        /\ UNCHANGED <<balance, used, toppedUp, preset>>
    BY <1>3 DEF UpsertUsage, ApplyQuota, TypeOK
  <2> HIDE DEF given
  <2>3. /\ IsFiniteSet(Created') /\ IsFiniteSet(toppedUp')
        /\ QuotaAccounted' /\ BalanceAccounted' /\ ToppedUpSum' = ToppedUpSum
    BY <2>2, LedgerFrame DEF TypeOK
  <2>4. ASSUME NEW b \in Calls PROVE Bounded(b)' /\ Affordable(b)'
    <3>1. CASE b = c
      BY <2>1, <2>2, <2>3, <3>1, LedgerTypes, AmountsAssumption
         DEF Bounded, Affordable, ChargedCost, TypeOK
    <3>2. CASE b # c
      BY <2>2, <2>3, <3>2 DEF LedgerInv, Bounded, Affordable, ChargedCost, TypeOK
    <3> QED BY <3>1, <3>2
  <2> QED BY <2>3, <2>4 DEF LedgerInv
<1>4. ASSUME NEW c \in Calls, CheckWallet(c) PROVE LedgerInv'
  <2>1. CASE Affords(c)
    <3>1. /\ step[c] = "wallet"
          /\ step' = [step EXCEPT ![c] = "charge"]
          /\ UNCHANGED <<balance, used, toppedUp, free, day, preset>>
      BY <1>4, <2>1 DEF CheckWallet
    <3>2. /\ IsFiniteSet(Created') /\ IsFiniteSet(toppedUp')
          /\ QuotaAccounted' /\ BalanceAccounted' /\ ToppedUpSum' = ToppedUpSum
      BY <3>1, LedgerFrame DEF TypeOK
    <3>3. ChargedCost(c) <= InitialBalance + ToppedUpSum
      <4>1. ChargedCost(c) \in Nat
        BY CostType DEF LedgerInv
      <4> QED BY <2>1, <4>1, LedgerTypes, AmountsAssumption DEF Affords
    <3>4. \A b \in Calls : ChargedCost(b)' = ChargedCost(b)
      BY <3>1 DEF ChargedCost
    <3> QED BY <3>1, <3>2, <3>3, <3>4 DEF LedgerInv, Bounded, Affordable, TypeOK
  <2>2. CASE ~Affords(c)
    <3>1. /\ step[c] = "wallet"
          /\ step' = [step EXCEPT ![c] = "rejected"]
          /\ free' = [free EXCEPT ![c] = 0]
          /\ UNCHANGED <<balance, used, toppedUp, day, preset>>
      BY <1>4, <2>2 DEF CheckWallet
    <3> QED BY <3>1, LedgerFrame, PresetType
            DEF LedgerInv, Bounded, Affordable, ChargedCost, TypeOK
  <2> QED BY <2>1, <2>2
<1>5. ASSUME NEW c \in Calls, Abort(c) PROVE LedgerInv'
  <2>1. /\ step[c] \in {"quota", "wallet", "charge"}
        /\ step' = [step EXCEPT ![c] = "rejected"]
        /\ free' = [free EXCEPT ![c] = 0]
        /\ UNCHANGED <<balance, used, toppedUp, day, preset>>
    BY <1>5 DEF Abort
  <2> QED BY <2>1, LedgerFrame, PresetType
          DEF LedgerInv, Bounded, Affordable, ChargedCost, TypeOK
<1> QED BY <1>1, <1>2, <1>3, <1>4, <1>5

LEMMA LedgerChargeStep ==
    ASSUME QuotaInv, QuotaInv', LedgerInv, NEW c \in Calls, Charge(c) PROVE LedgerInv'
<1>1. /\ step[c] = "charge"
      /\ used' = [used EXCEPT ![day[c]] = @ + free[c]]
      /\ step' = [step EXCEPT ![c] = "created"]
      /\ UNCHANGED <<preset, day, free, toppedUp>>
  BY DEF Charge
<1>2. Costs' = Costs /\ ToppedUpSum' = ToppedUpSum
  BY <1>1 DEF Costs, ChargedCost, ToppedUpSum
<1>3. ChargedCost(c) \in Nat /\ Costs[c] = ChargedCost(c)
  BY CostType DEF LedgerInv, QuotaInv, Costs
<1>4. balance' = balance - ChargedCost(c)
  BY <1>3 DEF Charge, Decrement, QuotaInv, TypeOK
<1>5. /\ c \notin Created /\ Created' = Created \cup {c}
      /\ c \notin Paid /\ Paid' = Paid \cup {c}
  BY <1>1 DEF Created, Paid, QuotaInv, TypeOK
<1>6. IsFiniteSet(Created') /\ IsFiniteSet(toppedUp')
  BY <1>1, <1>5, FS_AddElement DEF LedgerInv
<1>7. QuotaAccounted'
  <2>1. ASSUME NEW d \in Days
        PROVE  used'[d] = SumFunctionOnSet(free', {b \in Created' : day'[b] = d})
    <3> DEFINE C == {b \in Created : day[b] = d}
    <3>1. used[d] = SumFunctionOnSet(free, C)
      BY DEF LedgerInv, QuotaAccounted
    <3>2. CASE day[c] = d
      <4>1. {b \in Created' : day'[b] = d} = C \cup {c}
        BY <1>1, <1>5, <3>2
      <4>2. /\ IsFiniteSet(C) /\ c \notin C
            /\ \A b \in C \cup {c} : free[b] \in Int
        BY <1>5, LedgerTypes DEF QuotaInv, TypeOK, Created
      <4> HIDE DEF C
      <4>3. SumFunctionOnSet(free, C \cup {c}) = free[c] + SumFunctionOnSet(free, C)
        BY <4>2, SumAdd
      <4>4. used'[d] = used[d] + free[c] /\ used[d] \in Nat /\ free[c] \in Nat
        BY <1>1, <3>2 DEF QuotaInv, TypeOK
      <4>5. used'[d] = SumFunctionOnSet(free, C \cup {c})
        BY <3>1, <4>3, <4>4
      <4>6. free' = free
        BY <1>1
      <4> QED BY <4>1, <4>5, <4>6
    <3>3. CASE day[c] # d
      <4>1. {b \in Created' : day'[b] = d} = C
        BY <1>1, <1>5, <3>3
      <4>2. used'[d] = used[d]
        BY <1>1, <3>3 DEF QuotaInv, TypeOK
      <4> QED BY <1>1, <3>1, <4>1, <4>2
    <3> QED BY <3>2, <3>3
  <2> QED BY <2>1 DEF QuotaAccounted
<1>8. BalanceAccounted'
  <2>1. IsFiniteSet(Paid) /\ \A b \in Paid \cup {c} : Costs[b] \in Int
    BY LedgerTypes DEF QuotaInv, Paid
  <2>2. SumFunctionOnSet(Costs, Paid \cup {c}) = Costs[c] + SumFunctionOnSet(Costs, Paid)
    BY <1>5, <2>1, SumAdd
  <2>3. balance' = InitialBalance + ToppedUpSum' - SumFunctionOnSet(Costs', Paid')
    BY <1>2, <1>3, <1>4, <1>5, <2>2, LedgerTypes, AmountsAssumption DEF QuotaInv
  <2> QED BY <2>3 DEF BalanceAccounted, Costs, ToppedUpSum
<1>9. ASSUME NEW b \in Calls PROVE Bounded(b)' /\ Affordable(b)'
  BY <1>1, <1>2 DEF LedgerInv, Bounded, Affordable, ChargedCost, QuotaInv, TypeOK
<1> QED BY <1>6, <1>7, <1>8, <1>9 DEF LedgerInv

LEMMA LedgerRefundStep ==
    ASSUME QuotaInv, QuotaInv', LedgerInv, NEW c \in Calls, Refund(c) PROVE LedgerInv'
<1>1. /\ step[c] = "created"
      /\ balance' = balance + ChargedCost(c)
      /\ step' = [step EXCEPT ![c] = "refunded"]
      /\ UNCHANGED <<used, preset, day, free, toppedUp>>
  BY DEF Refund, RefundAmount
<1>2. Costs' = Costs /\ ToppedUpSum' = ToppedUpSum
  BY <1>1 DEF Costs, ChargedCost, ToppedUpSum
<1>3. Created' = Created /\ c \in Paid /\ Paid' = Paid \ {c}
  BY <1>1 DEF Created, Paid, QuotaInv, TypeOK
<1>4. QuotaAccounted'
  BY <1>1, <1>3 DEF LedgerInv, QuotaAccounted
<1>5. BalanceAccounted'
  <2>1. IsFiniteSet(Paid) /\ \A b \in Paid : Costs[b] \in Int
    BY LedgerTypes DEF QuotaInv, Paid
  <2>2. SumFunctionOnSet(Costs, Paid) = Costs[c] + SumFunctionOnSet(Costs, Paid \ {c})
    BY <1>3, <2>1, SumSplit
  <2>3. IsFiniteSet(Paid \ {c}) /\ \A b \in Paid \ {c} : Costs[b] \in Int
    BY <2>1, FS_RemoveElement
  <2>4. SumFunctionOnSet(Costs, Paid \ {c}) \in Int
    BY <2>3, SumType
  <2>5. Costs[c] = ChargedCost(c) /\ ChargedCost(c) \in Int
    BY CostType DEF Costs, LedgerInv, QuotaInv
  <2>6. balance' = InitialBalance + ToppedUpSum' - SumFunctionOnSet(Costs', Paid')
    BY <1>1, <1>2, <1>3, <2>2, <2>4, <2>5, LedgerTypes, AmountsAssumption DEF QuotaInv
  <2> QED BY <2>6 DEF BalanceAccounted, Costs, ToppedUpSum
<1>6. ASSUME NEW b \in Calls PROVE Bounded(b)' /\ Affordable(b)'
  BY <1>1, <1>2 DEF LedgerInv, Bounded, Affordable, ChargedCost, QuotaInv, TypeOK
<1> QED BY <1>1, <1>3, <1>4, <1>5, <1>6 DEF LedgerInv

LEMMA LedgerTopUpStep ==
    ASSUME QuotaInv, QuotaInv', LedgerInv, NEW a \in TopUps, TopUp(a) PROVE LedgerInv'
<1> DEFINE amount == [x \in TopUps |-> x]
<1>1. /\ a \notin toppedUp /\ a \in Nat
      /\ balance' = balance + a
      /\ toppedUp' = toppedUp \cup {a}
      /\ UNCHANGED <<used, step, preset, day, free>>
  BY AmountsAssumption DEF TopUp, callVars
<1>2. Costs' = Costs /\ Created' = Created /\ Paid' = Paid
  BY <1>1 DEF Costs, ChargedCost, Created, Paid
<1>3. ToppedUpSum' = a + ToppedUpSum
  <2>1. \A x \in toppedUp \cup {a} : amount[x] \in Int
    BY AmountsAssumption DEF QuotaInv, TypeOK
  <2>2. amount[a] = a /\ IsFiniteSet(toppedUp)
    BY DEF LedgerInv
  <2> HIDE DEF amount
  <2>3. SumFunctionOnSet(amount, toppedUp \cup {a}) = amount[a] + SumFunctionOnSet(amount, toppedUp)
    BY <1>1, <2>1, <2>2, SumAdd
  <2> QED BY <1>1, <2>2, <2>3 DEF ToppedUpSum, amount
<1>4. QuotaAccounted' /\ IsFiniteSet(Created') /\ IsFiniteSet(toppedUp')
  BY <1>1, <1>2, FS_AddElement DEF LedgerInv, QuotaAccounted
<1>5. BalanceAccounted'
  <2>1. balance' = InitialBalance + ToppedUpSum' - SumFunctionOnSet(Costs', Paid')
    BY <1>1, <1>2, <1>3, LedgerTypes, AmountsAssumption DEF QuotaInv
  <2> QED BY <2>1 DEF BalanceAccounted, Costs, ToppedUpSum
<1>6. ASSUME NEW b \in Calls PROVE Bounded(b)' /\ Affordable(b)'
  <2>1. ChargedCost(b)' = ChargedCost(b) /\ ChargedCost(b) \in Nat
    BY <1>1, CostType DEF ChargedCost, LedgerInv, QuotaInv
  <2> QED BY <1>1, <1>3, <2>1, LedgerTypes, AmountsAssumption
          DEF LedgerInv, Bounded, Affordable, QuotaInv
<1> QED BY <1>4, <1>5, <1>6 DEF LedgerInv

LEMMA LedgerInvHolds == Spec => []LedgerInv
<1>1. Init => LedgerInv
  <2> SUFFICES ASSUME Init PROVE LedgerInv
    OBVIOUS
  <2>1. Created = {} /\ Paid = {} /\ toppedUp = {}
    BY DEF Init, Created, Paid
  <2>2. QuotaAccounted
    <3>1. \A d \in Days : {c \in Created : day[c] = d} = {}
      BY <2>1
    <3>2. SumFunctionOnSet(free, {}) = 0
      BY SumEmpty
    <3> QED BY <3>1, <3>2 DEF Init, QuotaAccounted
  <2>3. BalanceAccounted
    BY <2>1, SumEmpty, AmountsAssumption DEF Init, BalanceAccounted
  <2>4. \A c \in Calls : Bounded(c) /\ Affordable(c)
    BY PresetsAssumption DEF Init, Bounded, Affordable
  <2> QED BY <2>1, <2>2, <2>3, <2>4, FS_EmptySet DEF LedgerInv
<1>2. QuotaInv /\ QuotaInv' /\ LedgerInv /\ [Next]_vars => LedgerInv'
  <2> SUFFICES ASSUME QuotaInv, QuotaInv', LedgerInv, [Next]_vars PROVE LedgerInv'
    OBVIOUS
  <2> QED BY LedgerQuietStep, LedgerChargeStep, LedgerRefundStep, LedgerTopUpStep DEF Next
<1> QED BY <1>1, <1>2, QuotaInvHolds, PTL DEF Spec

(* The quota used on a day is what the jobs of that day were given of it. *)
THEOREM QuotaIsAccounted == Spec => []QuotaAccounted
<1>1. LedgerInv => QuotaAccounted
  BY DEF LedgerInv
<1> QED BY <1>1, LedgerInvHolds, PTL

(* The wallet is the initial balance and the top-ups, less the unrefunded jobs. *)
THEOREM BalanceIsAccounted == Spec => []BalanceAccounted
<1>1. LedgerInv => BalanceAccounted
  BY DEF LedgerInv
<1> QED BY <1>1, LedgerInvHolds, PTL

(* Racing calls overdraw the wallet by no more than all of them but one. *)
THEOREM OverdraftIsBounded == Spec => []OverdraftBounded
<1>1. QuotaInv /\ LedgerInv => OverdraftBounded
  <2> SUFFICES ASSUME QuotaInv, LedgerInv, NEW c \in Paid
               PROVE  balance + SumFunctionOnSet(Costs, Paid \ {c}) >= 0
    BY DEF OverdraftBounded, Costs
  <2>1. IsFiniteSet(Paid) /\ \A b \in Paid : Costs[b] \in Int
    BY LedgerTypes DEF QuotaInv, Paid
  <2>2. SumFunctionOnSet(Costs, Paid) = Costs[c] + SumFunctionOnSet(Costs, Paid \ {c})
    BY <2>1, SumSplit
  <2>3. IsFiniteSet(Paid \ {c}) /\ \A b \in Paid \ {c} : Costs[b] \in Int
    BY <2>1, FS_RemoveElement
  <2>4. SumFunctionOnSet(Costs, Paid \ {c}) \in Int
    BY <2>3, SumType
  <2>5. /\ Costs[c] \in Nat
        /\ Costs[c] <= InitialBalance + ToppedUpSum
    BY LedgerTypes DEF LedgerInv, Affordable, Costs, Paid, QuotaInv
  <2> QED BY <2>2, <2>4, <2>5, LedgerTypes, AmountsAssumption DEF QuotaInv
<1> QED BY <1>1, QuotaInvHolds, LedgerInvHolds, PTL
=============================================================================
