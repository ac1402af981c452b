--------------------------- MODULE MCControlPlane ---------------------------
(* Bounds for ControlPlane: two Agents, a Service with an action, and      *)
(* graphs that name an Agent, the Service, or nothing sound.               *)
EXTENDS ControlPlane

CONSTANTS a1, a2, v1, x1, c1, n1, p1, p2

MCAgent == {a1, a2}
MCService == {v1}
MCAction == {x1}
MCServiceOf == [x \in {x1} |-> v1]
MCCredential == {c1}
MCName == {n1}
MCGraph == {[refs |-> {a1}, sound |-> TRUE], [refs |-> {v1, x1}, sound |-> TRUE], [refs |-> {}, sound |-> FALSE]}
MCRequest == {p1, p2}
=============================================================================
