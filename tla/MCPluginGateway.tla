--------------------------- MODULE MCPluginGateway ---------------------------
(* Three requests at a time.  One replica serves two of them, of one         *)
(* operation or of two.  Leases are interchangeable.                         *)
EXTENDS PluginGateway, TLC

CONSTANTS q1, q2, q3, h1, h2, o1, o2, s1

MCHostOf == (q1 :> h1) @@ (q2 :> h1) @@ (q3 :> h2)
MCOpsOf == (q1 :> {o1}) @@ (q2 :> {o1, o2}) @@ (q3 :> {o1})
MCSubjectOf == [r \in Requests |-> s1]
MCInStep == [h \in Hosts |-> 0]
MCSymmetry == Permutations(Leases)
=============================================================================
