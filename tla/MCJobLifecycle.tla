--------------------------- MODULE MCJobLifecycle ---------------------------
(* Instances of JobLifecycle for TLC: see the .cfg files and README.md. *)
EXTENDS JobLifecycle, TLC

Permuted == Permutations(Cancels)
PermutedWorkers == Permutations(Workers)
=============================================================================
