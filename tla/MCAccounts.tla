----------------------------- MODULE MCAccounts -----------------------------
(* Instances of Accounts for TLC: see the .cfg files and README.md. *)
EXTENDS Accounts, TLC

CONSTANTS own, other, taken

(* The user's identity, one with another address and one that is in use.   *)
MCMail == (own :> TRUE) @@ (other :> FALSE) @@ (taken :> FALSE)

Permuted == Permutations(Resets) \cup Permutations(Links)
=============================================================================
