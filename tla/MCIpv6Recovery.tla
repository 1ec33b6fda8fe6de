------------------------------ MODULE MCIpv6Recovery ------------------------------
(* Small instances of Ipv6Recovery.                                        *)
EXTENDS Ipv6Recovery

CONSTANTS a1, a2, p1, p2, q1, q2, q3
=================================================================================
