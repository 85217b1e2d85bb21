-------------------------- MODULE MCTaskLifecycle --------------------------
(* TaskLifecycle for TLC.  In the liveness run a crash and a lost run do    *)
(* not both happen; neither is anything that fairness is about.             *)
EXTENDS TaskLifecycle, TLC

MaxCrashOrLost == 1
SpentOnThem == (MaxCrashes - budget.crash) + (MaxLost - budget.lost)
MCFairSpec == Init /\ [][Next /\ SpentOnThem' <= MaxCrashOrLost]_vars /\ Fairness

Symmetry == Permutations(Workers)
=============================================================================
