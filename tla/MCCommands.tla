------------------------------- MODULE MCCommands -------------------------------
(* A small instance of Commands: one interface with an address and a route.*)
EXTENDS Commands

CONSTANTS l1, a6, r0, g1, eth0

Names == [l \in Link |-> eth0]
OnL1 == [o \in Addr \cup Route |-> l1]
Families == [o \in Addr \cup Route |-> IF o = r0 THEN "ipv4" ELSE "ipv6"]
=================================================================================
