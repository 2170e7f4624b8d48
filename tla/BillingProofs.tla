---------------------------- MODULE BillingProofs ----------------------------
(***************************************************************************)
(* Theorems about Billing, for any users, orders, calls and requests:      *)
(* types are kept, no order is credited twice, a PAID one has been, nobody *)
(* is PRO for longer than he paid for, and the wallet implements           *)
(* OrderSettlement.  The argument is the lock of the order row: a call     *)
(* that has claimed an order holds its row, the order is still PENDING and *)
(* uncredited, and nobody else can write it before the commit.             *)
(***************************************************************************)
EXTENDS Billing, SumTheorems, TLAPS

(* A call's order and its owner, a request's user, and the rows they lock. *)
LEMMA TargetTypes ==
    ASSUME TypeOK
    PROVE  /\ \A c \in Calls : step[c] # "idle" =>
                /\ OrderOf(c) \in Orders
                /\ UserOf(c) \in Users
                /\ <<"order", OrderOf(c)>> \in Rows
                /\ <<"wallet", UserOf(c)>> \in Rows
                /\ <<"user", UserOf(c)>> \in Rows
           /\ \A q \in Requests : step[q] # "idle" =>
                /\ target[q] \in Users
                /\ <<"wallet", target[q]>> \in Rows
                /\ <<"user", target[q]>> \in Rows
BY OrdersAssumption DEF TypeOK, OrderOf, UserOf, Rows

LEMMA ReleasedType ==
    ASSUME TypeOK, NEW x \in Actors
    PROVE  Released(x) \in [Rows -> Actors \cup {None}]
BY DEF TypeOK, Released

LEMMA NewExpiryType ==
    ASSUME TypeOK, NEW c \in Calls, step[c] # "idle"
    PROVE  NewExpiry(c) \in Nat
<1>1. OrderOf(c) \in Orders
  BY TargetTypes
<1>2. Days[OrderOf(c)] \in Nat
  BY <1>1, OrdersAssumption
<1>3. expirySeen[c] \in Nat /\ now \in Nat
  BY BoundsAssumption DEF TypeOK
<1> QED BY <1>2, <1>3 DEF NewExpiry

LEMMA InitTypes == Init => TypeOK
<1> SUFFICES ASSUME Init PROVE TypeOK
  OBVIOUS
<1>1. /\ order \in [Orders -> OrderStatus]
      /\ link \in [Orders -> LinkState]
      /\ purchases \in [Orders -> Nat]
      /\ balance \in [Users -> Int]
      /\ role \in [Users -> UserRole]
      /\ expiry \in [Users -> Nat]
  BY DEF Init, OrderStatus, LinkState, UserRole
<1>2. /\ lock \in [Rows -> Actors \cup {None}]
      /\ target \in [Actors -> Orders \cup Users \cup {None}]
      /\ expirySeen \in [Calls -> Nat]
      /\ expiryNext \in [Calls -> Nat]
      /\ now \in 1..MaxTime
  BY BoundsAssumption DEF Init
<1>3. /\ step \in [Actors -> Step]
      /\ \A x \in Actors : step[x] = "idle"
  BY DEF Init, Step
<1> QED
  BY <1>1, <1>2, <1>3 DEF TypeOK, Actors, PaidSteps, JobSteps

THEOREM TypeCorrect == Spec => []TypeOK
<1>1. Init => TypeOK
  BY InitTypes
<1>2. TypeOK /\ [Next]_vars => TypeOK'
  <2> SUFFICES ASSUME TypeOK, [Next]_vars PROVE TypeOK'
    OBVIOUS
  <2> USE DEF Goto, OrderStatus, LinkState, UserRole, Step, PaidSteps, JobSteps,
              orderVars, userVars, callData, Actors
  <2>1. CASE UNCHANGED vars
    BY <2>1 DEF vars, callVars, TypeOK
  <2>2. CASE Create
    <3> PICK o \in Orders : \/ CreateOrder(o) \/ GatewayAccepts(o)
                            \/ GatewayRefuses(o) \/ GatewayThrows(o)
      BY <2>2 DEF Create
    <3>1. order' \in [Orders -> OrderStatus] /\ link' \in [Orders -> LinkState]
      BY DEF CreateOrder, GatewayAccepts, GatewayRefuses, GatewayThrows, TypeOK
    <3>2. UNCHANGED <<purchases, userVars, lock, callVars, now>>
      BY DEF CreateOrder, GatewayAccepts, GatewayRefuses, GatewayThrows
    <3> QED BY <3>1, <3>2 DEF callVars, TypeOK
  <2>3. ASSUME NEW c \in Calls, Begin(c) PROVE TypeOK'
    <3>1. PICK o \in Orders, s \in {"paid", "fail", "done"} :
            /\ step' = [step EXCEPT ![c] = s]
            /\ target' = [target EXCEPT ![c] = o]
            /\ UNCHANGED <<orderVars, userVars, lock, callData, now>>
      BY <2>3 DEF Begin, SuccessNotice, FailureNotice, SyncLookup, AdminMarkPaid, Start
    <3> QED BY <3>1, ActorsAssumption DEF TypeOK
  <2>4. ASSUME NEW c \in Calls, Proceed(c) PROVE TypeOK'
    <3>1. CASE FailWrite(c)
      BY <3>1, TargetTypes, ActorsAssumption DEF FailWrite, TypeOK
    <3>2. CASE PaidRead(c)
      <4>1. expirySeen' \in [Calls -> Nat]
        <5>1. expiry[UserOf(c)] \in Nat
          BY <3>2, TargetTypes DEF PaidRead, TypeOK
        <5> QED BY <3>2, <5>1 DEF PaidRead, TypeOK
      <4>2. PICK s \in {"claim", "done"} : step' = [step EXCEPT ![c] = s]
        BY <3>2 DEF PaidRead
      <4>3. target[c] \in Orders
        BY <3>2 DEF PaidRead, TypeOK
      <4> QED BY <3>2, <4>1, <4>2, <4>3, ActorsAssumption DEF PaidRead, TypeOK
    <3>3. CASE PaidClaim(c)
      <4>1. lock' \in [Rows -> Actors \cup {None}]
        BY <3>3 DEF PaidClaim, Take, TypeOK
      <4>2. PICK s \in {"credit", "done"} : step' = [step EXCEPT ![c] = s]
        BY <3>3 DEF PaidClaim
      <4>3. target[c] \in Orders
        BY <3>3 DEF PaidClaim, TypeOK
      <4> QED BY <3>3, <4>1, <4>2, <4>3, ActorsAssumption DEF PaidClaim, TypeOK
    <3>4. CASE PaidCredit(c)
      BY <3>4, TargetTypes, ActorsAssumption DEF PaidCredit, Take, TypeOK
    <3>5. CASE PaidExtend(c)
      BY <3>5, TargetTypes, NewExpiryType, ActorsAssumption DEF PaidExtend, Take, TypeOK
    <3>6. CASE PaidCommit(c)
      <4>1. /\ step[c] = "commit" /\ OrderOf(c) \in Orders /\ UserOf(c) \in Users
        BY <3>6, TargetTypes DEF PaidCommit
      <4>2. purchases' \in [Orders -> Nat] /\ order' \in [Orders -> OrderStatus]
        BY <3>6, <4>1 DEF PaidCommit, TypeOK
      <4>3. balance' \in [Users -> Int]
        <5>1. Credits[OrderOf(c)] \in Int
          BY <4>1, OrdersAssumption
        <5> QED BY <3>6, <4>1, <5>1 DEF PaidCommit, TypeOK
      <4>4. role' \in [Users -> UserRole] /\ expiry' \in [Users -> Nat]
        BY <3>6, <4>1 DEF PaidCommit, TypeOK
      <4>5. lock' \in [Rows -> Actors \cup {None}]
        BY <3>6, ReleasedType DEF PaidCommit
      <4> QED BY <3>6, <4>2, <4>3, <4>4, <4>5, ActorsAssumption DEF PaidCommit, TypeOK
    <3> QED BY <2>4, <3>1, <3>2, <3>3, <3>4, <3>5, <3>6 DEF Proceed
  <2>5. ASSUME NEW c \in Calls, PaidAbort(c) PROVE TypeOK'
    BY <2>5, ReleasedType, ActorsAssumption DEF PaidAbort, TypeOK
  <2>6. ASSUME NEW q \in Requests, Request(q) PROVE TypeOK'
    <3>1. PICK u \in Users, s \in {"downgrade", "jobDowngrade", "jobCharge", "done"} :
            /\ step' = [step EXCEPT ![q] = s]
            /\ target' = [target EXCEPT ![q] = u]
            /\ UNCHANGED <<orderVars, userVars, lock, callData, now>>
      BY <2>6 DEF Request, Validate, JobRead, Start
    <3> QED BY <3>1, ActorsAssumption DEF TypeOK
  <2>7. ASSUME NEW q \in Requests, Serve(q) PROVE TypeOK'
    <3>1. CASE ValidateDowngrade(q)
      BY <3>1, TargetTypes, ActorsAssumption DEF ValidateDowngrade, Downgrade, TypeOK
    <3>2. CASE JobDowngrade(q)
      BY <3>2, TargetTypes, ActorsAssumption DEF JobDowngrade, Take, TypeOK
    <3>3. CASE JobCharge(q)
      <4>1. lock' \in [Rows -> Actors \cup {None}]
        <5>1. lock' = Released(q) \/ lock' = [lock EXCEPT ![<<"wallet", target[q]>>] = q]
          BY <3>3 DEF JobCharge, Take
        <5>2. CASE lock' = Released(q)
          BY <5>2, ReleasedType
        <5>3. CASE lock' = [lock EXCEPT ![<<"wallet", target[q]>>] = q]
          BY <5>3 DEF TypeOK
        <5> QED BY <5>1, <5>2, <5>3
      <4>2. PICK s \in {"jobCommit", "done"} : step' = [step EXCEPT ![q] = s]
        BY <3>3 DEF JobCharge
      <4>3. target[q] \in Users
        BY <3>3 DEF JobCharge, TypeOK
      <4> QED BY <3>3, <4>1, <4>2, <4>3, ActorsAssumption DEF JobCharge, TypeOK
    <3>4. CASE JobCommit(q)
      <4>1. target[q] \in Users
        BY <3>4, TargetTypes DEF JobCommit
      <4>2. balance' \in [Users -> Int]
        BY <3>4, <4>1, BoundsAssumption DEF JobCommit, TypeOK
      <4>3. role' \in [Users -> UserRole] /\ expiry' \in [Users -> Nat]
        BY <3>4, <4>1 DEF JobCommit, Downgrade, TypeOK
      <4>4. lock' \in [Rows -> Actors \cup {None}]
        BY <3>4, ReleasedType DEF JobCommit
      <4> QED BY <3>4, <4>2, <4>3, <4>4, ActorsAssumption DEF JobCommit, TypeOK
    <3> QED BY <2>7, <3>1, <3>2, <3>3, <3>4 DEF Serve
  <2>8. ASSUME NEW q \in Requests, JobAbort(q) PROVE TypeOK'
    BY <2>8, ReleasedType, ActorsAssumption DEF JobAbort, TypeOK
  <2>9. CASE Tick
    BY <2>9, BoundsAssumption DEF Tick, callVars, TypeOK
  <2> QED
    BY <2>1, <2>2, <2>3, <2>4, <2>5, <2>6, <2>7, <2>8, <2>9 DEF Next, DeadlockBroken
<1> QED BY <1>1, <1>2, PTL DEF Spec

(* What a claimed order is: locked by the call that claimed it, still        *)
(* PENDING and not credited.                                                 *)
ClaimHeld(c) ==
    step[c] \in {"credit", "extend", "commit"}
      => /\ lock[<<"order", OrderOf(c)>>] = c
         /\ order[OrderOf(c)] = "PENDING"

UncreditedWhilePending(o) == order[o] \in {"NONE", "PENDING"} => purchases[o] = 0

OnceInv ==
    /\ CreditedOnce
    /\ \A o \in Orders : UncreditedWhilePending(o)
    /\ \A c \in Calls : ClaimHeld(c)

(* A step that writes no order and takes no order's row from its holder.     *)
LEMMA OrdersUntouched ==
    ASSUME TypeOK, OnceInv, UNCHANGED <<order, purchases>>,
           \A c \in Calls :
              step'[c] \in {"credit", "extend", "commit"}
                => /\ step[c] \in {"credit", "extend", "commit"}
                   /\ target'[c] = target[c]
                   /\ lock'[<<"order", OrderOf(c)>>] = lock[<<"order", OrderOf(c)>>]
    PROVE  OnceInv'
<1>1. CreditedOnce' /\ \A o \in Orders : UncreditedWhilePending(o)'
  BY DEF OnceInv, CreditedOnce, UncreditedWhilePending
<1>2. ASSUME NEW c \in Calls PROVE ClaimHeld(c)'
  BY DEF OnceInv, ClaimHeld, OrderOf
<1> QED BY <1>1, <1>2 DEF OnceInv

LEMMA OnceInvStep ==
    ASSUME TypeOK, OnceInv, [Next]_vars PROVE OnceInv'
<1> USE DEF Goto, orderVars, userVars, callData, Actors
<1>1. CASE UNCHANGED vars
  BY <1>1, OrdersUntouched DEF vars, callVars
<1>2. CASE Create
  <2> PICK o \in Orders : \/ CreateOrder(o) \/ GatewayAccepts(o)
                          \/ GatewayRefuses(o) \/ GatewayThrows(o)
    BY <1>2 DEF Create
  <2>1. CASE CreateOrder(o)
    <3>1. \A c \in Calls : ClaimHeld(c)'
      BY <2>1 DEF CreateOrder, callVars, OnceInv, ClaimHeld, OrderOf, TypeOK
    <3> QED BY <2>1, <3>1 DEF CreateOrder, OnceInv, CreditedOnce,
                              UncreditedWhilePending, TypeOK
  <2>2. CASE GatewayRefuses(o)
    <3>1. \A c \in Calls : ClaimHeld(c)'
      BY <2>2, ActorsAssumption
         DEF GatewayRefuses, Unlocked, callVars, OnceInv, ClaimHeld, OrderOf, TypeOK
    <3> QED BY <2>2, <3>1 DEF GatewayRefuses, OnceInv, CreditedOnce,
                              UncreditedWhilePending, TypeOK
  <2>3. CASE GatewayAccepts(o) \/ GatewayThrows(o)
    BY <2>3, OrdersUntouched DEF GatewayAccepts, GatewayThrows, callVars
  <2> QED BY <2>1, <2>2, <2>3
<1>3. ASSUME NEW c \in Calls, Begin(c) PROVE OnceInv'
  <2>1. PICK o \in Orders, s \in {"paid", "fail", "done"} :
          /\ step' = [step EXCEPT ![c] = s]
          /\ step[c] = "idle"
          /\ target' = [target EXCEPT ![c] = o]
          /\ UNCHANGED <<orderVars, userVars, lock, callData, now>>
    BY <1>3 DEF Begin, SuccessNotice, FailureNotice, SyncLookup, AdminMarkPaid, Start
  <2> QED BY <2>1, OrdersUntouched DEF TypeOK
<1>4. ASSUME NEW c \in Calls, FailWrite(c) PROVE OnceInv'
  <2>1. OrderOf(c) \in Orders
    BY <1>4, TargetTypes DEF FailWrite
  <2>2. \A d \in Calls : ClaimHeld(d)'
    BY <1>4, <2>1, ActorsAssumption
       DEF FailWrite, Unlocked, OnceInv, ClaimHeld, OrderOf, TypeOK
  <2> QED BY <1>4, <2>1, <2>2 DEF FailWrite, OnceInv, CreditedOnce,
                                  UncreditedWhilePending, TypeOK
<1>5. ASSUME NEW c \in Calls, PaidRead(c) PROVE OnceInv'
  <2>1. PICK s \in {"claim", "done"} : step' = [step EXCEPT ![c] = s]
    BY <1>5 DEF PaidRead
  <2> QED BY <1>5, <2>1, OrdersUntouched DEF PaidRead, TypeOK
<1>6. ASSUME NEW c \in Calls, PaidClaim(c) PROVE OnceInv'
  <2>1. CASE order[OrderOf(c)] = "PENDING"
    <3>1. /\ lock[<<"order", OrderOf(c)>>] = None
          /\ lock' = [lock EXCEPT ![<<"order", OrderOf(c)>>] = c]
          /\ step' = [step EXCEPT ![c] = "credit"]
          /\ UNCHANGED <<orderVars, target>>
      BY <1>6, <2>1 DEF PaidClaim, Take, Unlocked
    <3>2. <<"order", OrderOf(c)>> \in Rows
      BY <1>6, TargetTypes DEF PaidClaim
    <3>3. \A d \in Calls : ClaimHeld(d)'
      BY <2>1, <3>1, <3>2, ActorsAssumption DEF OnceInv, ClaimHeld, OrderOf, TypeOK
    <3> QED BY <3>1, <3>3 DEF OnceInv, CreditedOnce, UncreditedWhilePending
  <2>2. CASE order[OrderOf(c)] # "PENDING"
    BY <1>6, <2>2, OrdersUntouched DEF PaidClaim, TypeOK
  <2> QED BY <2>1, <2>2
<1>7. ASSUME NEW c \in Calls, PaidCredit(c) \/ PaidExtend(c) PROVE OnceInv'
  <2>1. PICK r \in {"wallet", "user"}, s \in {"extend", "commit"} :
          /\ step[c] \in {"credit", "extend"}
          /\ lock' = [lock EXCEPT ![<<r, UserOf(c)>>] = c]
          /\ step' = [step EXCEPT ![c] = s]
          /\ UNCHANGED <<orderVars, target>>
    BY <1>7 DEF PaidCredit, PaidExtend, Take
  <2>2. \A d \in Calls : lock'[<<"order", OrderOf(d)>>] = lock[<<"order", OrderOf(d)>>]
    BY <2>1 DEF TypeOK
  <2> QED BY <2>1, <2>2, OrdersUntouched DEF TypeOK
<1>8. ASSUME NEW c \in Calls, PaidCommit(c) PROVE OnceInv'
  <2>1. /\ OrderOf(c) \in Orders
        /\ lock[<<"order", OrderOf(c)>>] = c
        /\ order[OrderOf(c)] = "PENDING"
        /\ purchases[OrderOf(c)] = 0
    BY <1>8, TargetTypes DEF PaidCommit, OnceInv, ClaimHeld, UncreditedWhilePending
  <2>2. CreditedOnce' /\ \A o \in Orders : UncreditedWhilePending(o)'
    BY <1>8, <2>1 DEF PaidCommit, OnceInv, CreditedOnce, UncreditedWhilePending, TypeOK
  <2>3. ASSUME NEW d \in Calls PROVE ClaimHeld(d)'
    <3>1. CASE d = c
      BY <1>8, <3>1 DEF PaidCommit, ClaimHeld, TypeOK
    <3>2. CASE d # c
      <4>1. step'[d] = step[d] /\ target'[d] = target[d]
        BY <1>8, <3>2 DEF PaidCommit, TypeOK
      <4>2. SUFFICES ASSUME step[d] \in {"credit", "extend", "commit"}
                     PROVE  /\ lock'[<<"order", OrderOf(d)>>] = d
                            /\ order'[OrderOf(d)] = "PENDING"
        BY <4>1 DEF ClaimHeld, OrderOf
      <4>3. /\ lock[<<"order", OrderOf(d)>>] = d
            /\ order[OrderOf(d)] = "PENDING"
            /\ <<"order", OrderOf(d)>> \in Rows
        BY <4>2, TargetTypes DEF OnceInv, ClaimHeld
      <4>4. OrderOf(d) # OrderOf(c)
        BY <2>1, <3>2, <4>3
      <4> QED BY <1>8, <3>2, <4>3, <4>4 DEF PaidCommit, Released, TypeOK
    <3> QED BY <3>1, <3>2
  <2> QED BY <2>2, <2>3 DEF OnceInv
<1>9. ASSUME NEW x \in Actors, PaidAbort(x) \/ JobAbort(x) PROVE OnceInv'
  <2>1. /\ step' = [step EXCEPT ![x] = "done"]
        /\ lock' = Released(x)
        /\ UNCHANGED <<orderVars, target>>
    BY <1>9 DEF PaidAbort, JobAbort
  <2>2. ASSUME NEW d \in Calls, step'[d] \in {"credit", "extend", "commit"}
        PROVE  /\ step[d] \in {"credit", "extend", "commit"}
               /\ lock'[<<"order", OrderOf(d)>>] = lock[<<"order", OrderOf(d)>>]
    <3>1. d # x /\ step[d] = step'[d]
      BY <2>1, <2>2 DEF TypeOK
    <3>2. <<"order", OrderOf(d)>> \in Rows /\ lock[<<"order", OrderOf(d)>>] = d
      BY <2>2, <3>1, TargetTypes DEF OnceInv, ClaimHeld
    <3> QED BY <2>1, <2>2, <3>1, <3>2 DEF Released
  <2> QED BY <2>1, <2>2, OrdersUntouched
<1>10. ASSUME NEW q \in Requests, Request(q) \/ Serve(q) PROVE OnceInv'
  <2>1. /\ \E s \in Step : step' = [step EXCEPT ![q] = s]
        /\ target' = target \/ \E u \in Users : target' = [target EXCEPT ![q] = u]
        /\ UNCHANGED <<order, purchases>>
    BY <1>10 DEF Request, Validate, JobRead, Start, Serve, ValidateDowngrade,
                 JobDowngrade, JobCharge, JobCommit, Step, PaidSteps, JobSteps
  <2>2. \/ lock' = lock
        \/ lock' = Released(q)
        \/ \E r \in {"wallet", "user"} : lock' = [lock EXCEPT ![<<r, target[q]>>] = q]
    BY <1>10 DEF Request, Validate, JobRead, Serve, ValidateDowngrade,
                 JobDowngrade, JobCharge, JobCommit, Take
  <2>3. ASSUME NEW d \in Calls, step'[d] \in {"credit", "extend", "commit"}
        PROVE  /\ step[d] \in {"credit", "extend", "commit"}
               /\ target'[d] = target[d]
               /\ lock'[<<"order", OrderOf(d)>>] = lock[<<"order", OrderOf(d)>>]
    <3>1. d # q /\ step[d] = step'[d] /\ target'[d] = target[d]
      BY <2>1, ActorsAssumption DEF TypeOK
    <3>2. <<"order", OrderOf(d)>> \in Rows /\ lock[<<"order", OrderOf(d)>>] = d
      BY <2>3, <3>1, TargetTypes DEF OnceInv, ClaimHeld
    <3>3. lock'[<<"order", OrderOf(d)>>] = d
      BY <2>2, <3>1, <3>2 DEF Released, TypeOK
    <3> QED BY <2>3, <3>1, <3>2, <3>3
  <2> QED BY <2>1, <2>3, OrdersUntouched
<1>11. CASE Tick
  BY <1>11, OrdersUntouched DEF Tick, callVars
<1> QED
  BY <1>1, <1>2, <1>3, <1>4, <1>5, <1>6, <1>7, <1>8, <1>9, <1>10, <1>11
     DEF Next, Proceed, DeadlockBroken

LEMMA OnceInvHolds == Spec => []OnceInv
<1>1. Init => OnceInv
  BY DEF Init, OnceInv, CreditedOnce, UncreditedWhilePending, ClaimHeld, Actors
<1> QED BY <1>1, OnceInvStep, TypeCorrect, PTL DEF Spec

(* However often an order is reported paid, its credits are given once. *)
THEOREM OrdersCreditedOnce == Spec => []CreditedOnce
<1>1. OnceInv => CreditedOnce
  BY DEF OnceInv
<1> QED BY <1>1, OnceInvHolds, PTL

(* PAID is written by the commit that credits the order, and no step takes   *)
(* the credit back: no crash leaves an order PAID and uncredited.            *)
LEMMA PaidIsCreditedStep ==
    ASSUME TypeOK, OnceInv, PaidIsCredited, [Next]_vars PROVE PaidIsCredited'
<1> USE DEF orderVars, userVars
<1>1. ASSUME NEW c \in Calls, PaidCommit(c) PROVE PaidIsCredited'
  <2>1. OrderOf(c) \in Orders /\ purchases[OrderOf(c)] = 0
    BY <1>1, TargetTypes DEF PaidCommit, OnceInv, ClaimHeld, UncreditedWhilePending
  <2> QED BY <1>1, <2>1 DEF PaidCommit, PaidIsCredited, TypeOK
<1>2. ASSUME NEW c \in Calls,
             Begin(c) \/ PaidRead(c) \/ PaidClaim(c)
               \/ PaidCredit(c) \/ PaidExtend(c) \/ PaidAbort(c)
      PROVE  PaidIsCredited'
  BY <1>2 DEF Begin, SuccessNotice, FailureNotice, SyncLookup, AdminMarkPaid,
              PaidRead, PaidClaim, PaidCredit, PaidExtend, PaidAbort, PaidIsCredited
<1>3. ASSUME NEW c \in Calls, FailWrite(c) PROVE PaidIsCredited'
  BY <1>3 DEF FailWrite, PaidIsCredited, TypeOK
<1>4. ASSUME NEW q \in Requests, Request(q) \/ Serve(q) \/ JobAbort(q)
      PROVE  PaidIsCredited'
  BY <1>4 DEF Request, Validate, JobRead, Serve, ValidateDowngrade, JobDowngrade,
              JobCharge, JobCommit, JobAbort, PaidIsCredited
<1>5. CASE Create
  BY <1>5 DEF Create, CreateOrder, GatewayAccepts, GatewayRefuses, GatewayThrows,
              PaidIsCredited, TypeOK
<1>6. CASE Tick \/ UNCHANGED vars
  BY <1>6 DEF Tick, vars, PaidIsCredited
<1> QED BY <1>1, <1>2, <1>3, <1>4, <1>5, <1>6 DEF Next, Proceed, DeadlockBroken

(* An order the customer sees as PAID has been credited exactly once. *)
THEOREM PaidOrdersCredited == Spec => []PaidIsCredited
<1>1. Init => PaidIsCredited
  BY DEF Init, PaidIsCredited
<1> QED BY <1>1, PaidIsCreditedStep, TypeCorrect, OnceInvHolds, PTL DEF Spec

----------------------------------------------------------------------------
(* PRO days.                                                                *)

OrderDays == [o \in Orders |-> Days[o] * purchases[o]]
OrdersOf(u) == {o \in Orders : Owner[o] = u}
DaysPaid(u) == SumFunctionOnSet(OrderDays, OrdersOf(u))

(* What a call has read, and what it is about to write, is within what was   *)
(* paid, however old the read is: days paid and the clock only grow.         *)
SeenBound(c) ==
    step[c] \in {"claim", "credit", "extend"} => expirySeen[c] <= now + DaysPaid(UserOf(c))

NextBound(c) ==
    step[c] = "commit" /\ Days[OrderOf(c)] > 0
      => expiryNext[c] <= now + DaysPaid(UserOf(c)) + Days[OrderOf(c)]

DaysInv == ProDaysPaidFor /\ \A c \in Calls : SeenBound(c) /\ NextBound(c)

LEMMA DaysTypes ==
    ASSUME TypeOK, NEW u \in Users
    PROVE  /\ IsFiniteSet(OrdersOf(u))
           /\ \A o \in Orders : OrderDays[o] \in Nat
           /\ DaysPaid(u) \in Nat
<1>1. OrdersOf(u) \in SUBSET Orders
  BY DEF OrdersOf
<1>2. IsFiniteSet(OrdersOf(u))
  BY <1>1, OrdersAssumption, FS_Subset
<1>3. ASSUME NEW o \in Orders PROVE OrderDays[o] \in Nat
  <2>1. Days[o] \in Nat /\ purchases[o] \in Nat
    BY OrdersAssumption DEF TypeOK
  <2>2. Days[o] * purchases[o] \in Nat
    BY <2>1
  <2> QED BY <2>2 DEF OrderDays
<1>4. \A o \in OrdersOf(u) : OrderDays[o] \in Nat
  BY <1>1, <1>3
<1>5. DaysPaid(u) \in Nat
  BY <1>2, <1>4, SumType DEF DaysPaid
<1> QED BY <1>2, <1>3, <1>5

(* A step that credits no order and writes no expiry but 0: only what one    *)
(* call reads or computes is left to look at.                                *)
LEMMA DaysFrame ==
    ASSUME TypeOK, TypeOK', DaysInv, UNCHANGED purchases, now' >= now,
           \A u \in Users : expiry'[u] \in {0, expiry[u]},
           \A c \in Calls :
              step'[c] \in {"claim", "credit", "extend", "commit"}
                => /\ target'[c] = target[c]
                   /\ \/ expirySeen'[c] = expirySeen[c]
                          /\ step[c] \in {"claim", "credit", "extend"}
                      \/ expirySeen'[c] = expiry[UserOf(c)]
                      \/ step'[c] = "commit"
                   /\ \/ step'[c] # "commit"
                      \/ Days[OrderOf(c)] = 0
                      \/ expiryNext'[c] = expiryNext[c] /\ step[c] = "commit"
                      \/ expiryNext'[c] = NewExpiry(c) /\ step[c] = "extend"
    PROVE  DaysInv'
<1>1. \A u : DaysPaid(u)' = DaysPaid(u)
  BY DEF DaysPaid, OrderDays, OrdersOf
<1>2. now \in Nat /\ now' \in Nat
  BY BoundsAssumption DEF TypeOK
<1>3. ProDaysPaidFor'
  <2>1. ASSUME NEW u \in Users PROVE expiry'[u] <= now' + DaysPaid(u)'
    <3>1. expiry[u] <= now + DaysPaid(u) /\ expiry[u] \in Nat
      BY DEF DaysInv, ProDaysPaidFor, DaysPaid, OrderDays, OrdersOf, TypeOK
    <3> QED BY <1>1, <1>2, <3>1, DaysTypes
  <2> QED BY <2>1 DEF ProDaysPaidFor, DaysPaid, OrderDays, OrdersOf
<1>4. ASSUME NEW c \in Calls, step'[c] \in {"claim", "credit", "extend", "commit"}
      PROVE  SeenBound(c)' /\ NextBound(c)'
  <2>1. /\ target'[c] = target[c] /\ step'[c] # "idle" /\ target'[c] \in Orders
        /\ Owner[target[c]] \in Users /\ Days[target[c]] \in Nat
    BY <1>4, OrdersAssumption DEF TypeOK
  <2>2. UserOf(c)' = UserOf(c) /\ OrderOf(c)' = OrderOf(c) /\ UserOf(c) \in Users
        /\ Days[OrderOf(c)] \in Nat
    BY <2>1 DEF UserOf, OrderOf
  <2>3. DaysPaid(UserOf(c)) \in Nat /\ DaysPaid(UserOf(c))' = DaysPaid(UserOf(c))
    BY <1>1, <2>2, DaysTypes
  <2>4. expiry[UserOf(c)] <= now + DaysPaid(UserOf(c)) /\ expiry[UserOf(c)] \in Nat
    BY <2>2 DEF DaysInv, ProDaysPaidFor, DaysPaid, OrderDays, OrdersOf, TypeOK
  <2>5. expirySeen[c] \in Nat /\ expiryNext[c] \in Nat
    BY DEF TypeOK
  <2>6. SeenBound(c) /\ NextBound(c)
    BY DEF DaysInv
  <2>7. SeenBound(c)'
    BY <1>1, <1>2, <1>4, <2>2, <2>3, <2>4, <2>5, <2>6 DEF SeenBound
  <2>8. NextBound(c)'
    <3>1. CASE step'[c] = "commit" /\ step[c] = "commit" /\ expiryNext'[c] = expiryNext[c]
      BY <1>1, <1>2, <2>2, <2>3, <2>5, <2>6, <3>1 DEF NextBound
    <3>2. CASE step'[c] = "commit" /\ step[c] = "extend" /\ expiryNext'[c] = NewExpiry(c)
      <4>1. expirySeen[c] <= now + DaysPaid(UserOf(c))
        BY <2>6, <3>2 DEF SeenBound
      <4>2. NewExpiry(c) <= now + DaysPaid(UserOf(c)) + Days[OrderOf(c)]
        BY <1>2, <2>2, <2>3, <2>5, <4>1 DEF NewExpiry
      <4>3. NewExpiry(c) \in Nat
        BY <1>2, <2>2, <2>5 DEF NewExpiry
      <4> QED BY <1>1, <1>2, <2>2, <2>3, <3>2, <4>2, <4>3 DEF NextBound
    <3>3. CASE step'[c] # "commit" \/ Days[OrderOf(c)] = 0
      BY <2>2, <3>3 DEF NextBound
    <3> QED BY <1>4, <3>1, <3>2, <3>3
  <2> QED BY <2>7, <2>8
<1>5. \A c \in Calls : SeenBound(c)' /\ NextBound(c)'
  <2>1. ASSUME NEW c \in Calls PROVE SeenBound(c)' /\ NextBound(c)'
    <3>1. CASE step'[c] \notin {"claim", "credit", "extend", "commit"}
      BY <3>1 DEF SeenBound, NextBound
    <3> QED BY <1>4, <3>1
  <2> QED BY <2>1
<1> QED BY <1>3, <1>5 DEF DaysInv

(* The commit adds the days of its order, once, to both sides.               *)
LEMMA DaysCommitStep ==
    ASSUME TypeOK, TypeOK', OnceInv, DaysInv, NEW c \in Calls, PaidCommit(c)
    PROVE  DaysInv'
<1>. PICK o \in Orders, u \in Users : o = OrderOf(c) /\ u = UserOf(c)
  BY TargetTypes DEF PaidCommit
<1>1. /\ o \in Orders /\ u \in Users /\ u = Owner[o]
      /\ purchases[o] = 0 /\ Days[o] \in Nat
  BY TargetTypes, OrdersAssumption
     DEF PaidCommit, OnceInv, ClaimHeld, UncreditedWhilePending, UserOf, OrderOf
<1>2. /\ step[c] = "commit" /\ step' = [step EXCEPT ![c] = "done"]
      /\ purchases' = [purchases EXCEPT ![o] = 1]
      /\ UNCHANGED <<target, expirySeen, expiryNext, now>>
  BY <1>1 DEF PaidCommit, callData, Goto, TypeOK
<1>3. \A v \in Users : \/ expiry'[v] = expiry[v]
                       \/ v = u /\ Days[o] > 0 /\ expiry'[v] = expiryNext[c]
  BY <1>1 DEF PaidCommit, TypeOK
<1>4. /\ \A p \in Orders : p # o => OrderDays'[p] = OrderDays[p]
      /\ OrderDays[o] = 0 /\ OrderDays'[o] = Days[o]
  <2>1. Days[o] * 0 = 0 /\ Days[o] * 1 = Days[o]
    BY <1>1
  <2>2. purchases'[o] = 1 /\ \A p \in Orders : p # o => purchases'[p] = purchases[p]
    BY <1>1, <1>2 DEF TypeOK
  <2> QED BY <1>1, <2>1, <2>2 DEF OrderDays
<1>5. \A p \in Orders : OrderDays[p] \in Int /\ OrderDays'[p] \in Int
  <2>1. \A p \in Orders : OrderDays[p] \in Nat
    BY <1>1, DaysTypes
  <2> QED BY <1>1, <1>4, <2>1
<1>6. DaysPaid(u)' = DaysPaid(u) + Days[o]
  <2>1. IsFiniteSet(OrdersOf(u)) /\ o \in OrdersOf(u) /\ OrdersOf(u) \subseteq Orders
        /\ OrdersOf(u)' = OrdersOf(u)
    BY <1>1, DaysTypes DEF OrdersOf
  <2>2. SumFunctionOnSet(OrderDays', OrdersOf(u))
          = SumFunctionOnSet(OrderDays, OrdersOf(u)) - OrderDays[o] + OrderDays'[o]
    <3>1. /\ \A p \in OrdersOf(u) : OrderDays[p] \in Int /\ OrderDays'[p] \in Int
          /\ \A p \in OrdersOf(u) \ {o} : OrderDays'[p] = OrderDays[p]
      BY <1>4, <1>5, <2>1
    <3> QED BY <2>1, <3>1, SumChange
  <2>3. DaysPaid(u) \in Nat
    BY <1>1, DaysTypes
  <2> QED BY <1>1, <1>4, <2>1, <2>2, <2>3 DEF DaysPaid
<1>7. ASSUME NEW v \in Users, v # u PROVE DaysPaid(v)' = DaysPaid(v)
  <2>1. IsFiniteSet(OrdersOf(v)) /\ OrdersOf(v) \subseteq Orders /\ o \notin OrdersOf(v)
        /\ OrdersOf(v)' = OrdersOf(v)
    BY <1>1, <1>7, DaysTypes DEF OrdersOf
  <2>2. \A p \in OrdersOf(v) : OrderDays[p] = OrderDays'[p]
    BY <1>4, <2>1
  <2>3. SumFunctionOnSet(OrderDays, OrdersOf(v)) = SumFunctionOnSet(OrderDays', OrdersOf(v))
    BY <2>1, <2>2, SumSame
  <2> QED BY <2>1, <2>3 DEF DaysPaid
<1>8. ASSUME NEW v \in Users
      PROVE  DaysPaid(v) \in Nat /\ DaysPaid(v)' \in Nat /\ DaysPaid(v) <= DaysPaid(v)'
  <2>1. DaysPaid(v) \in Nat /\ DaysPaid(u) \in Nat
    BY <1>1, DaysTypes
  <2>2. CASE v = u
    BY <1>1, <1>6, <2>1, <2>2
  <2>3. CASE v # u
    BY <1>7, <2>1, <2>3
  <2> QED BY <2>2, <2>3
<1>9. now \in Nat
  BY BoundsAssumption DEF TypeOK
<1>10. ProDaysPaidFor'
  <2>1. ASSUME NEW v \in Users PROVE expiry'[v] <= now' + DaysPaid(v)'
    <3>1. expiry[v] <= now + DaysPaid(v) /\ expiry[v] \in Nat
      BY DEF DaysInv, ProDaysPaidFor, DaysPaid, OrderDays, OrdersOf, TypeOK
    <3>2. CASE expiry'[v] = expiry[v]
      BY <1>2, <1>8, <1>9, <3>1, <3>2
    <3>3. CASE v = u /\ Days[o] > 0 /\ expiry'[v] = expiryNext[c]
      <4>1. expiryNext[c] <= now + DaysPaid(u) + Days[o]
        BY <1>2, <3>3 DEF DaysInv, NextBound
      <4> QED BY <1>2, <1>6, <3>3, <4>1, <1>8, <1>1, <1>9
    <3> QED BY <1>3, <3>2, <3>3
  <2> QED BY <2>1 DEF ProDaysPaidFor, DaysPaid, OrderDays, OrdersOf
<1>11. ASSUME NEW d \in Calls PROVE SeenBound(d)' /\ NextBound(d)'
  <2>1. CASE d = c
    BY <1>2, <2>1 DEF SeenBound, NextBound, TypeOK
  <2>2. CASE d # c
    <3>1. step'[d] = step[d] /\ UserOf(d)' = UserOf(d) /\ OrderOf(d)' = OrderOf(d)
      BY <1>2, <2>2 DEF UserOf, OrderOf, TypeOK
    <3>2. CASE step[d] = "idle"
      BY <3>1, <3>2 DEF SeenBound, NextBound
    <3>3. CASE step[d] # "idle"
      <4>1. /\ UserOf(d) \in Users /\ OrderOf(d) \in Orders
            /\ Days[OrderOf(d)] \in Nat
            /\ expirySeen[d] \in Nat /\ expiryNext[d] \in Nat
        BY <3>3, TargetTypes, OrdersAssumption DEF TypeOK
      <4>2. SeenBound(d) /\ NextBound(d)
        BY DEF DaysInv
      <4>3. \A v \in Users : UserOf(d) = v => DaysPaid(UserOf(d))' = DaysPaid(v)'
        BY <3>1
      <4>4. /\ DaysPaid(UserOf(d)) \in Nat /\ DaysPaid(UserOf(d))' \in Nat
            /\ DaysPaid(UserOf(d)) <= DaysPaid(UserOf(d))'
        BY <1>8, <4>1, <4>3
      <4> QED BY <1>2, <1>9, <3>1, <4>1, <4>2, <4>4 DEF SeenBound, NextBound
    <3> QED BY <3>2, <3>3
  <2> QED BY <2>1, <2>2
<1> QED BY <1>10, <1>11 DEF DaysInv

LEMMA DaysInvStep ==
    ASSUME TypeOK, TypeOK', OnceInv, DaysInv, [Next]_vars PROVE DaysInv'
<1> USE DEF Goto, orderVars, userVars, callData, callVars
<1>1. now \in Nat
  BY BoundsAssumption DEF TypeOK
<1>2. CASE UNCHANGED vars \/ Tick
  BY <1>1, <1>2, DaysFrame DEF vars, Tick
<1>3. CASE Create
  <2>1. UNCHANGED <<purchases, userVars, callVars, now>>
    BY <1>3 DEF Create, CreateOrder, GatewayAccepts, GatewayRefuses, GatewayThrows
  <2> QED BY <1>1, <2>1, DaysFrame
<1>4. ASSUME NEW c \in Calls, Begin(c) PROVE DaysInv'
  <2>1. PICK o \in Orders, s \in {"paid", "fail", "done"} :
          /\ step' = [step EXCEPT ![c] = s]
          /\ target' = [target EXCEPT ![c] = o]
          /\ UNCHANGED <<orderVars, userVars, lock, callData, now>>
    BY <1>4 DEF Begin, SuccessNotice, FailureNotice, SyncLookup, AdminMarkPaid, Start
  <2> QED BY <1>1, <2>1, DaysFrame DEF TypeOK
<1>5. ASSUME NEW c \in Calls, FailWrite(c) \/ PaidAbort(c) PROVE DaysInv'
  <2>1. step' = [step EXCEPT ![c] = "done"]
        /\ UNCHANGED <<purchases, userVars, target, callData, now>>
    BY <1>5 DEF FailWrite, PaidAbort
  <2> QED BY <1>1, <2>1, DaysFrame DEF TypeOK
<1>6. ASSUME NEW c \in Calls, PaidRead(c) PROVE DaysInv'
  <2>1. PICK s \in {"claim", "done"} :
          /\ step' = [step EXCEPT ![c] = s]
          /\ s = "claim" => expirySeen' = [expirySeen EXCEPT ![c] = expiry[UserOf(c)]]
          /\ s = "done" => UNCHANGED expirySeen
          /\ UNCHANGED <<orderVars, userVars, target, expiryNext, now>>
    BY <1>6 DEF PaidRead
  <2> QED BY <1>1, <2>1, DaysFrame DEF TypeOK
<1>7. ASSUME NEW c \in Calls, PaidClaim(c) PROVE DaysInv'
  <2>1. PICK s \in {"credit", "done"} :
          /\ step[c] = "claim" /\ step' = [step EXCEPT ![c] = s]
          /\ UNCHANGED <<orderVars, userVars, target, callData, now>>
    BY <1>7 DEF PaidClaim
  <2> QED BY <1>1, <2>1, DaysFrame DEF TypeOK
<1>8. ASSUME NEW c \in Calls, PaidCredit(c) PROVE DaysInv'
  <2>1. OrderOf(c) \in Orders /\ Days[OrderOf(c)] \in Nat
    BY <1>8, TargetTypes, OrdersAssumption DEF PaidCredit
  <2>2. PICK s \in {"extend", "commit"} :
          /\ step[c] = "credit" /\ step' = [step EXCEPT ![c] = s]
          /\ s = "commit" => Days[OrderOf(c)] = 0
          /\ UNCHANGED <<orderVars, userVars, target, callData, now>>
    <3>1. CASE Days[OrderOf(c)] > 0
      BY <1>8, <3>1 DEF PaidCredit
    <3>2. CASE Days[OrderOf(c)] = 0
      BY <1>8, <3>2 DEF PaidCredit
    <3> QED BY <2>1, <3>1, <3>2
  <2> QED BY <1>1, <2>2, DaysFrame DEF TypeOK
<1>9. ASSUME NEW c \in Calls, PaidExtend(c) PROVE DaysInv'
  <2>1. /\ step[c] = "extend" /\ step' = [step EXCEPT ![c] = "commit"]
        /\ expiryNext' = [expiryNext EXCEPT ![c] = NewExpiry(c)]
        /\ UNCHANGED <<orderVars, userVars, target, expirySeen, now>>
    BY <1>9 DEF PaidExtend
  <2> QED BY <1>1, <2>1, DaysFrame DEF TypeOK
<1>10. ASSUME NEW q \in Requests, Request(q) \/ Serve(q) \/ JobAbort(q) PROVE DaysInv'
  <2>1. /\ \A c \in Calls : step'[c] = step[c] /\ target'[c] = target[c]
        /\ UNCHANGED <<purchases, expirySeen, expiryNext, now>>
    <3>1. \A c \in Calls : c # q /\ c \in Actors
      BY ActorsAssumption DEF Actors
    <3>2. \/ \E s, u : step' = [step EXCEPT ![q] = s] /\ target' = [target EXCEPT ![q] = u]
          \/ \E s : step' = [step EXCEPT ![q] = s] /\ target' = target
      BY <1>10 DEF Request, Validate, JobRead, Start, Serve, ValidateDowngrade,
                   JobDowngrade, JobCharge, JobCommit, JobAbort
    <3>3. UNCHANGED <<purchases, expirySeen, expiryNext, now>>
      BY <1>10 DEF Request, Validate, JobRead, Start, Serve, ValidateDowngrade,
                   JobDowngrade, JobCharge, JobCommit, JobAbort
    <3> QED BY <3>1, <3>2, <3>3 DEF TypeOK
  <2>2. \A u \in Users : expiry'[u] \in {0, expiry[u]}
    <3>1. expiry' = expiry \/ expiry' = [expiry EXCEPT ![target[q]] = 0]
      BY <1>10 DEF Request, Validate, JobRead, Serve, ValidateDowngrade,
                   JobDowngrade, JobCharge, JobCommit, JobAbort, Downgrade
    <3> QED BY <3>1 DEF TypeOK
  <2> QED BY <1>1, <2>1, <2>2, DaysFrame
<1> QED
  BY <1>2, <1>3, <1>4, <1>5, <1>6, <1>7, <1>8, <1>9, <1>10, DaysCommitStep
     DEF Next, Proceed, DeadlockBroken

(* Nobody is PRO for longer than the orders he paid for allow. *)
THEOREM ProDaysArePaidFor == Spec => []ProDaysPaidFor
<1>1. Init => DaysInv
  <2> SUFFICES ASSUME Init PROVE DaysInv
    OBVIOUS
  <2>1. TypeOK
    BY InitTypes
  <2>2. ASSUME NEW u \in Users PROVE expiry[u] <= now + DaysPaid(u)
    BY <2>1, <2>2, DaysTypes DEF Init
  <2> QED BY <2>2 DEF Init, DaysInv, ProDaysPaidFor, SeenBound, NextBound, Actors,
                      DaysPaid, OrderDays, OrdersOf
<1>2. DaysInv => ProDaysPaidFor
  BY DEF DaysInv
<1>3. TypeOK /\ TypeOK' /\ OnceInv /\ DaysInv /\ [Next]_vars => DaysInv'
  BY DaysInvStep
<1> QED BY <1>1, <1>2, <1>3, TypeCorrect, OnceInvHolds, PTL DEF Spec

(* The wallet changes by single settlements of orders and charges of jobs. *)
THEOREM BillingSettlesOrders == Spec => Settles
<1>1. Init => Settlement!Init
  BY DEF Init, Settlement!Init
<1>2. TypeOK /\ OnceInv /\ [Next]_vars
        => [Settlement!Next]_<<{o \in Orders : purchases[o] > 0}, balance>>
  <2> SUFFICES ASSUME TypeOK, OnceInv, [Next]_vars
               PROVE  \/ Settlement!Next
                      \/ UNCHANGED <<purchases, balance>>
    OBVIOUS
  <2>1. ASSUME NEW c \in Calls, PaidCommit(c) PROVE Settlement!Next
    <3>1. /\ OrderOf(c) \in Orders
          /\ purchases[OrderOf(c)] = 0
      BY <2>1, TargetTypes DEF PaidCommit, OnceInv, ClaimHeld, UncreditedWhilePending
    <3>2. purchases' = [purchases EXCEPT ![OrderOf(c)] = 1]
      BY <2>1, <3>1 DEF PaidCommit, TypeOK
    <3>3. {o \in Orders : purchases'[o] > 0}
            = {o \in Orders : purchases[o] > 0} \cup {OrderOf(c)}
      BY <3>1, <3>2 DEF TypeOK
    <3>4. OrderOf(c) \notin {o \in Orders : purchases[o] > 0}
      BY <3>1
    <3>5. balance' = [balance EXCEPT ![Owner[OrderOf(c)]] = @ + Credits[OrderOf(c)]]
      BY <2>1 DEF PaidCommit, UserOf, OrderOf
    <3>6. \E o \in Orders : Settlement!Settle(o)
      <4> PICK o \in Orders : o = OrderOf(c)
        BY <3>1
      <4>1. Settlement!Settle(o)
        BY <3>3, <3>4, <3>5 DEF Settlement!Settle
      <4> QED BY <4>1
    <3> QED BY <3>6 DEF Settlement!Next
  <2>2. ASSUME NEW q \in Requests, JobCommit(q) PROVE Settlement!Next
    <3>1. target[q] \in Users
      BY <2>2, TargetTypes DEF JobCommit
    <3>2. Settlement!PayJob(target[q])
      BY <2>2 DEF JobCommit, orderVars, Settlement!PayJob
    <3> QED BY <3>1, <3>2 DEF Settlement!Next
  <2>3. ASSUME NEW c \in Calls,
               Begin(c) \/ FailWrite(c) \/ PaidRead(c) \/ PaidClaim(c)
                 \/ PaidCredit(c) \/ PaidExtend(c) \/ PaidAbort(c)
        PROVE  UNCHANGED <<purchases, balance>>
    BY <2>3 DEF Begin, SuccessNotice, FailureNotice, SyncLookup, AdminMarkPaid,
                FailWrite, PaidRead, PaidClaim, PaidCredit, PaidExtend, PaidAbort,
                orderVars, userVars
  <2>4. ASSUME NEW q \in Requests,
               Request(q) \/ ValidateDowngrade(q) \/ JobDowngrade(q)
                 \/ JobCharge(q) \/ JobAbort(q)
        PROVE  UNCHANGED <<purchases, balance>>
    BY <2>4 DEF Request, Validate, JobRead, ValidateDowngrade, JobDowngrade,
                JobCharge, JobAbort, orderVars, userVars
  <2>5. CASE Create \/ Tick \/ UNCHANGED vars
    BY <2>5 DEF Create, CreateOrder, GatewayAccepts, GatewayRefuses, GatewayThrows,
                Tick, vars, orderVars, userVars
  <2> QED
    BY <2>1, <2>2, <2>3, <2>4, <2>5 DEF Next, Proceed, Serve, DeadlockBroken
<1> QED
  BY <1>1, <1>2, TypeCorrect, OnceInvHolds, PTL DEF Spec, Settles, Settlement!Spec
=============================================================================
