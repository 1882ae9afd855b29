---------------------------- MODULE MCPlanLease ----------------------------
(* Two operators run the executor, at once against the first lease, or one  *)
(* after the other, the second after the first one's lease has expired.    *)
EXTENDS PlanLease, TLC

CONSTANTS x1, x2

MCExecutor == {x1, x2}
MCGreens == {1, 3}
MCTerms == {2}
MCAges == {2}
Symmetry == Permutations(MCExecutor)
=============================================================================
