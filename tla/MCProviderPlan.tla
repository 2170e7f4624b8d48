--------------------------- MODULE MCProviderPlan ---------------------------
(* Instances of ProviderPlan for TLC: see the .cfg files and README.md. *)
EXTENDS ProviderPlan, TLC

(* Every plan that resolveProviderPlan can return. *)
AllPlans == {<<"vast", "modal">>, <<"modal", "vast">>, <<"vast">>, <<"modal">>}
VastFirst == {<<"vast", "modal">>}
VastOnly == {<<"vast">>}
OneRetry == [p \in Providers |-> 1]
TwoRetries == [p \in Providers |-> 2]
NoRetry == [p \in Providers |-> 0]

Permuted == Permutations(Runs)
=============================================================================
