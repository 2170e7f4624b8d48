---------------------------- MODULE OrderSettlement ----------------------------
(***************************************************************************)
(* What billing promises about the wallet: a payment order is settled at   *)
(* most once, its owner's wallet gets exactly its credits at that moment,  *)
(* and otherwise the wallet only pays for jobs.  Billing.tla implements    *)
(* it, whatever calls are repeated, run together or die.                   *)
(***************************************************************************)
EXTENDS Integers

CONSTANTS Users, Orders, Owner, Credits, Price

VARIABLES
    settled,   \* orders whose credits were given
    wallet     \* [Users -> Int]

Init ==
    /\ settled = {}
    /\ wallet = [u \in Users |-> 0]

Settle(o) ==
    /\ o \notin settled
    /\ settled' = settled \cup {o}
    /\ wallet' = [wallet EXCEPT ![Owner[o]] = @ + Credits[o]]

PayJob(u) ==
    /\ wallet' = [wallet EXCEPT ![u] = @ - Price]
    /\ UNCHANGED settled

Next == (\E o \in Orders : Settle(o)) \/ (\E u \in Users : PayJob(u))

Spec == Init /\ [][Next]_<<settled, wallet>>
=============================================================================
