--------------------------------- MODULE Queries ---------------------------------
(***************************************************************************)
(* The queries of the client interface as functions of what they read:     *)
(* getIpaddr, getInterfaces and getDefaultRoute (netlinkifc.cpp:710-955).  *)
(* Addr are the addresses of global scope and of the family asked, Route   *)
(* the main table's default routes of the family asked: what the filters   *)
(* of getIpaddr and getDefaultRoute let through.                           *)
(***************************************************************************)
EXTENDS Naturals

CONSTANTS Link, Addr, Route,
          Ether,       \* links of Ethernet type
          OnLink,      \* the link of an address, the output link of a route
          Usable,      \* routes with exactly one next hop, which has a gateway
          Priority,    \* Priority[r]: the metric of r
          MaxPriority, \* UINT_MAX
          None

Kind == {"link", "addr", "route"}
Obj == Link \cup Addr \cup Route
KindOf(o) == IF o \in Link THEN "link" ELSE IF o \in Addr THEN "addr" ELSE "route"
Objs(k) == {o \in Obj : KindOf(o) = k}

ASSUME QueriesAssumption ==
    /\ Link \cap Addr = {} /\ Link \cap Route = {} /\ Addr \cap Route = {}
    /\ Ether \subseteq Link /\ Usable \subseteq Route
    /\ OnLink \in [Addr \cup Route -> Link]
    /\ MaxPriority \in Nat /\ Priority \in [Route -> 0..MaxPriority]

Query == [op : {"getIpaddr"}, ifc : Link] \cup [op : {"getInterfaces", "getDefaultRoute"}, ifc : {None}]

\* The clone a query walks, and the clones that must be there.
Walked(q) == IF q.op = "getIpaddr" THEN "addr" ELSE IF q.op = "getInterfaces" THEN "link" ELSE "route"
Needed(q) == {"link", Walked(q)}

\* A result: getInterfaces returns nothing and leaves its argument alone if it fails.
Failed == [ok |-> FALSE, found |-> {}]
Found(objs) == [ok |-> TRUE, found |-> objs]
Answer == [ok : BOOLEAN, found : SUBSET Obj]

\* The usable default routes; one of priority UINT_MAX never counts.
Candidates(routes) == {r \in routes \cap Usable : Priority[r] < MaxPriority}
Best(routes) == {r \in Candidates(routes) : \A s \in Candidates(routes) : Priority[r] <= Priority[s]}

DefaultRoute(best, links) ==
    IF \E r \in best : OnLink[r] \in links THEN Found(best) ELSE Failed

\* What q may answer if there are clones of the kinds in have and they hold s; of
\* several least routes, any.
Answers(q, have, s) ==
    IF ~(Needed(q) \subseteq have) THEN {Failed}
    ELSE IF q.op = "getInterfaces" THEN {Found(s["link"] \cap Ether)}
    ELSE IF q.op = "getIpaddr"
    THEN {IF q.ifc \in s["link"] THEN Found({a \in s["addr"] : OnLink[a] = q.ifc}) ELSE Failed}
    ELSE IF Best(s["route"]) = {} THEN {Failed}
    ELSE {DefaultRoute({r}, s["link"]) : r \in Best(s["route"])}

-----------------------------------------------------------------------------
(* The callbacks of the walks.                                             *)

\* Mutant: a route of any lower or equal priority value is taken, usable or not.
get_default_route_cbMutant(r, acc) ==
    IF \A best \in acc : Priority[r] <= Priority[best] THEN {r} ELSE acc

\* acc is the route found so far, if any.
get_default_route_cb(r, acc) ==
    IF r \in Usable /\ Priority[r] < MaxPriority /\ \A best \in acc : Priority[r] < Priority[best]
    THEN {r} ELSE acc

get_interfaces_cb(l, acc) == IF l \in Ether THEN acc \cup {l} ELSE acc

\* The filter of getIpaddr lets through the addresses of its interface.
get_ip_addr_cb(q, a, acc) == IF OnLink[a] = q.ifc THEN acc \cup {a} ELSE acc

Visited(q, o, acc) ==
    IF q.op = "getIpaddr" THEN get_ip_addr_cb(q, o, acc)
    ELSE IF q.op = "getInterfaces" THEN get_interfaces_cb(o, acc)
    ELSE get_default_route_cb(o, acc)
=================================================================================
