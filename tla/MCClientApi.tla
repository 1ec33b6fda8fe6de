------------------------------- MODULE MCClientApi -------------------------------
(* A small instance of ClientApi.                                          *)
EXTENDS ClientApi

CONSTANTS l1, a1, r1, r2, r3, s1, s2, s3, c1, c2

On == [o \in Addr \cup Route |-> l1]
Priorities == [r \in Route |-> IF r = r1 THEN 0 ELSE IF r = r2 THEN 1 ELSE 2]
Types == [s \in Subscriber |-> "route"]
Reactions == [s \in Subscriber |-> IF s = s1 THEN "query" ELSE IF s = s2 THEN "delete" ELSE "add"]
Others == [s \in Subscriber |-> IF s = s2 THEN s3 ELSE s1]
=================================================================================
