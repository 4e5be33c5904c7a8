-------------------------- MODULE MCGatewayBudget --------------------------
(* Instances of GatewayBudget for TLC. *)
EXTENDS GatewayBudget, TLC

CONSTANTS t1, t2, t3, opus, gpt

ThreeThreads == {t1, t2, t3}
AllRoutes    == {opus, gpt}
OneRoute     == {opus}
ThreadSymmetry == Permutations(Threads)
=============================================================================
