------------------------- MODULE MCPluginEventStore -------------------------
(* Instances of PluginEventStore for TLC.                                   *)
EXTENDS PluginEventStore, TLC

CONSTANTS d1, d2, d3, s1, s2, p1, r1, r2

\* Two deliveries share a subscription, the third has one of its own.
MCSubOf == [d \in Deliveries |-> IF d = d3 THEN s2 ELSE s1]
MCPluginOf == [s \in Subscriptions |-> p1]

MCSynchronized == [r \in Replicas |-> 0]
MCSkewed == [r \in Replicas |-> IF r = r2 THEN 1 ELSE 0]

MCMaxAttempts == [d \in Deliveries |-> 2]

Symmetry == Permutations({d1, d2})
=============================================================================
