-------------------------- MODULE MCCheckDefaultRoute --------------------------
(* Small instances of CheckDefaultRoute.                                   *)
EXTENDS CheckDefaultRoute

CONSTANTS r1, r2, g1, g2, g10, p1, p2, p3

\* Each route has a gateway of its own.
OneGatewayEach == [r \in Route |-> IF r = r1 THEN {g1} ELSE {g10}]
AnyGateway == [r \in Route |-> Gateway]

\* Addresses none of which is part of another.
Distinct == [g \in Gateway |-> {g}]
\* g1 is the beginning of g10, as 10.0.0.1 is of 10.0.0.10.
Prefix == [g \in Gateway |-> IF g = g1 THEN {g1, g10} \cap Gateway ELSE {g}]
================================================================================
