------------------------ MODULE MCLifecycleExecution ------------------------
(* Two workers, an upgrade whose migration cannot be undone and the plan     *)
(* that follows it.                                                          *)
EXTENDS LifecycleExecution, TLC

CONSTANTS w1, w2

MCPlan == <<[phases |-> 2, migrate |-> 1, rollback |-> FALSE],
            [phases |-> 1, migrate |-> 0, rollback |-> TRUE]>>
MCOwnEach == [w \in Workers |-> w]
=============================================================================
