---------------------- MODULE MCPluginEventDispatcher ----------------------
(* Instances of PluginEventDispatcher for TLC.                              *)
EXTENDS PluginEventDispatcher, TLC

CONSTANTS d1, d2, d3, s1, s2, p1, r1, r2

MCSubOf == [d \in Deliveries |-> IF d = d3 THEN s2 ELSE s1]
MCPluginOf == [s \in Subscriptions |-> p1]
MCSynchronized == [r \in Replicas |-> 0]
MCMaxAttempts == [d \in Deliveries |-> 2]

Symmetry == Permutations({d1, d2}) \cup Permutations({r1, r2})
=============================================================================
