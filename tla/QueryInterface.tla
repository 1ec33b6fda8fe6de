----------------------------- MODULE QueryInterface -----------------------------
(***************************************************************************)
(* What getIpaddr, getInterfaces and getDefaultRoute promise their         *)
(* callers, however the monitor is built: each answer is computed from one *)
(* snapshot of links, addresses and routes, which was the monitor's at one *)
(* moment of the call; and from the call of a subscriber within its        *)
(* callback to the answer the snapshot does not change at all.             *)
(***************************************************************************)
EXTENDS Queries

CONSTANTS Client,      \* threads of the clients
          Monitor      \* the thread that publishes

VARIABLES have,     \* the kinds of object there is a snapshot of
          shown,    \* shown[k]: the objects of kind k in the snapshot
          asked,    \* asked[t]: the query t waits for, or None
          answer    \* answer[t]: t's last answer, or None

vars == <<have, shown, asked, answer>>
Thread == Client \cup {Monitor}

Init ==
    /\ have = {}
    /\ shown = [k \in Kind |-> {}]
    /\ asked = [t \in Thread |-> None]
    /\ answer = [t \in Thread |-> None]

Refresh(k) ==
    /\ asked[Monitor] = None
    /\ have' = have \cup {k}
    /\ \E objs \in SUBSET Objs(k) : shown' = [shown EXCEPT ![k] = objs]
    /\ UNCHANGED <<asked, answer>>

Ask(t, q) ==
    /\ asked[t] = None
    /\ asked' = [asked EXCEPT ![t] = q]
    /\ UNCHANGED <<have, shown, answer>>

Reply(t) ==
    /\ asked[t] # None
    /\ asked' = [asked EXCEPT ![t] = None]
    /\ \E a \in Answers(asked[t], have, shown) : answer' = [answer EXCEPT ![t] = a]
    /\ UNCHANGED <<have, shown>>

Next ==
    \/ \E k \in Kind : Refresh(k)
    \/ \E t \in Thread : Reply(t) \/ \E q \in Query : Ask(t, q)

Spec == Init /\ [][Next]_vars
=================================================================================
