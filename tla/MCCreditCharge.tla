--------------------------- MODULE MCCreditCharge ---------------------------
(* Instances of CreditCharge for TLC: see the .cfg files and README.md. *)
EXTENDS CreditCharge, TLC

(* Presets of video-generation.catalog.ts: preview, turbo and hunyuan. *)
MCPresets == {[cost |-> 5, proOnly |-> FALSE],
              [cost |-> 15, proOnly |-> TRUE],
              [cost |-> 20, proOnly |-> TRUE]}

Permuted == Permutations(Calls)
=============================================================================
