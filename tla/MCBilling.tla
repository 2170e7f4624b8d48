------------------------------ MODULE MCBilling ------------------------------
(* Instances of Billing for TLC: see the .cfg files and README.md. *)
EXTENDS Billing, TLC

CONSTANTS u1, o1, o2

(* Two PRO orders of one user, one through each gateway. *)
OneOwner == (o1 :> u1) @@ (o2 :> u1)
BothGateways == (o1 :> "MOMO") @@ (o2 :> "PAYOS")
WithTransfer == (o1 :> "PAYOS") @@ (o2 :> "BANK_TRANSFER")
ProPackages == [o \in Orders |-> 2]
DayPackages == [o \in Orders |-> 1]
MCCredits == (o1 :> 3) @@ (o2 :> 1)

Permuted == Permutations(Calls)
==============================================================================
