-------------------------- MODULE MCPostEngagement --------------------------
(* Instances of PostEngagement for TLC: see the .cfg files and README.md. *)
EXTENDS PostEngagement, TLC

Permuted == Permutations(Calls) \cup Permutations(Users)
=============================================================================
