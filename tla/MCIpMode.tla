-------------------------------- MODULE MCIpMode --------------------------------
(* A small instance of IpMode.                                             *)
EXTENDS IpMode, TLC

CONSTANTS a4, z4, u6, r4, r6, eth0, wlan0, p1, p2, p3

Families == [o \in Addr \cup Route |-> IF o \in {a4, z4, r4} THEN "ipv4" ELSE "ipv6"]
Ifcs == [a \in Addr |-> IF a = a4 THEN wlan0 ELSE eth0]

\* The processes are alike.
Procs == Permutations(Proc)
=================================================================================
