------------------------------ MODULE MCNetLinkIfc ------------------------------
(* Small instances of NetLinkIfc.  Each cfg picks the objects it needs.    *)
EXTENDS NetLinkIfc

CONSTANTS l1, l2, a4, a6, r0, r1, r2, g1, g2, eth0

\* All carry one name, one after the other (a replugged device).
Names == [l \in Link |-> eth0]

\* Everything hangs on l1, but r2 has no next hop.
OnL1 == [o \in Addr \cup Route |-> IF o = r2 THEN NoLink ELSE l1]
=================================================================================
