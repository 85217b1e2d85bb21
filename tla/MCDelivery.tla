----------------------------- MODULE MCDelivery -----------------------------
(* Delivery for TLC: a repeated job whose max_runs is one. *)
EXTENDS Delivery, TLC

CONSTANTS j1

MCKind == j1 :> "repeated"
MCMaxRuns == j1 :> 1

Symmetry == Permutations(Tasks)
=============================================================================
