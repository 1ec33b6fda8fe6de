------------------------------- MODULE NetLinkIfc -------------------------------
(***************************************************************************)
(* The network monitor: class NetLinkIfc (netlinkifc.cpp, netlinkifc.h) as *)
(* main() drives it.  initialize() adds the three caches to the cache      *)
(* manager and walks them through the same handlers that the change        *)
(* callbacks use later; run() then starts the thread that polls for ever.  *)
(* Each handler refreshes a clone of its cache, which is what the query    *)
(* interface reads, derives events, passes them to the state machine and   *)
(* publishes what the state machine lets through.                          *)
(*                                                                         *)
(* A handler runs with g_state_mutex held from beginning to end, so it is  *)
(* one action; initialize() holds it throughout.                           *)
(***************************************************************************)
EXTENDS Netlink

CONSTANTS Labelled,   \* addresses the kernel sends with a label (IPv4 ones)
          DefaultDst, \* routes without a destination
          NoClone     \* a clone pointer that is NULL

ASSUME RoutesAssumption ==
    /\ Labelled \subseteq Addr /\ DefaultDst \subseteq Route
    /\ \A k \in Kind : NoClone \notin [Objs(k) -> Value \cup {Absent}]

VARIABLES main,               \* where main() is: <<step, kind>>
          todo,               \* objects nl_cache_foreach has still to visit
          m_state,
          clone,              \* m_link_clone, m_addr_clone and m_route_clone, by kind
          link_admin_states,  \* the static maps of the two update functions
          link_oper_states,
          adminSaid,          \* adminSaid[n]: last "n up" or "n down" published
          operSaid,           \* operSaid[n]: last "n add" or "n delete" published
          addrSaid,           \* addrSaid[a]: what was last published about a, or
                              \* "ignored" if the last message was malformed
          routeSaid,          \* routeSaid[r]: last message to NlType::route
          dfltSaid            \* dfltSaid[r]: last message to NlType::dfltroute

mainVars == <<main, todo, m_state>>
linkVars == <<link_admin_states, link_oper_states, adminSaid, operSaid>>
routeVars == <<routeSaid, dfltSaid>>
vars == <<netlinkVars, mainVars, clone, linkVars, addrSaid, routeVars>>

RouteMsg == [op : {"none", "add", "delete"}, gw : RouteVal, named : BOOLEAN]
Silent == [op |-> "none", gw |-> NoGateway, named |-> FALSE]

LinkEvents == {"LINK_ADMIN_UP", "LINK_ADMIN_DOWN", "ADD_LINK", "DELETE_LINK"}
AddAddrEvents == {"ADD_IPADDR", "ADD_IP6ADDR"}
DeleteAddrEvents == {"DELETE_IPADDR", "DELETE_IP6ADDR"}
RouteEvents == {"ADD_IPROUTE", "ADD_IP6ROUTE", "DELETE_IPROUTE", "DELETE_IP6ROUTE"}

\* Mutant: two of the table's entries are missing.
stateMachineMutant ==
    [INIT             |-> {},
     POPULATE_IFC     |-> LinkEvents \cup AddAddrEvents \cup {"DONE"},
     POPULATE_ADDRESS |-> LinkEvents \cup {"ADD_IPADDR", "DONE"},
     RUNNING          |-> (LinkEvents \ {"LINK_ADMIN_UP"}) \cup AddAddrEvents
                              \cup DeleteAddrEvents \cup RouteEvents]

\* The events that have a handler in each state.
stateMachine ==
    [INIT             |-> {},
     POPULATE_IFC     |-> LinkEvents \cup AddAddrEvents \cup {"DONE"},
     POPULATE_ADDRESS |-> LinkEvents \cup AddAddrEvents \cup {"DONE"},
     RUNNING          |-> LinkEvents \cup AddAddrEvents \cup DeleteAddrEvents \cup RouteEvents]

Handled(event) == event \in stateMachine[m_state]

CacheOf(k) == [o \in Objs(k) |-> live[o]]

Init ==
    /\ NetlinkInit
    /\ main = <<"join", "link">>
    /\ todo = {}
    /\ m_state = "INIT"
    /\ clone = [k \in Kind |-> NoClone]
    /\ link_admin_states = [n \in Name |-> FALSE]
    /\ link_oper_states = [n \in Name |-> FALSE]
    /\ adminSaid = [n \in Name |-> "none"]
    /\ operSaid = [n \in Name |-> "none"]
    /\ addrSaid = [a \in Addr |-> "none"]
    /\ routeSaid = [r \in Route |-> Silent]
    /\ dfltSaid = [r \in Route |-> Silent]

-----------------------------------------------------------------------------
(* Handlers.                                                               *)

updateCloneConfig(k) == clone' = [clone EXCEPT ![k] = CacheOf(k)]

\* Mutant: the state is published but not remembered.
updateLinkAdminStateMutant(n, adminstate) ==
    /\ UNCHANGED link_admin_states
    /\ adminSaid' = IF link_admin_states[n] = adminstate THEN adminSaid
                    ELSE [adminSaid EXCEPT ![n] = IF adminstate THEN "up" ELSE "down"]

updateLinkAdminState(n, adminstate) ==
    /\ link_admin_states' = [link_admin_states EXCEPT ![n] = adminstate]
    /\ adminSaid' = IF link_admin_states[n] = adminstate THEN adminSaid
                    ELSE [adminSaid EXCEPT ![n] = IF adminstate THEN "up" ELSE "down"]

updateLinkOperState(n, operstate) ==
    /\ link_oper_states' = [link_oper_states EXCEPT ![n] = operstate]
    /\ operSaid' = IF link_oper_states[n] = operstate THEN operSaid
                   ELSE [operSaid EXCEPT ![n] = IF operstate THEN "add" ELSE "delete"]

\* The administrative and the operational events go to separate maps, so their
\* order within one notification does not show in what was last said.
processlink_rtnl(action, l, v) ==
    /\ updateCloneConfig("link")
    /\ IF action # "delete" /\ Handled(IF v.up THEN "LINK_ADMIN_UP" ELSE "LINK_ADMIN_DOWN")
       THEN updateLinkAdminState(NameOf[l], v.up)
       ELSE UNCHANGED <<link_admin_states, adminSaid>>
    /\ IF action # "delete" /\ v.oper # "UNKNOWN"
          /\ Handled(IF v.oper = "UP" THEN "ADD_LINK" ELSE "DELETE_LINK")
       THEN updateLinkOperState(NameOf[l], v.oper = "UP")
       ELSE UNCHANGED <<link_oper_states, operSaid>>
    /\ UNCHANGED <<addrSaid, routeVars>>

\* rtnl_link_i2name finds the interface name of o in the link cache.
Named(o) == OnLink[o] # NoLink /\ live[OnLink[o]] # Absent

\* addipaddr, addip6addr, deleteipaddr and deleteip6addr.  Without an interface
\* name only two of the three tokens are left: the message is ignored.
PublishAddr(a, op) ==
    addrSaid' = [addrSaid EXCEPT ![a] = IF a \in Labelled \/ Named(a) THEN op ELSE "ignored"]

AddrEvent(action, a) ==
    IF a \in Labelled
    THEN IF action = "add" THEN "ADD_IPADDR" ELSE "DELETE_IPADDR"
    ELSE IF action = "add" THEN "ADD_IP6ADDR" ELSE "DELETE_IP6ADDR"

\* Mutant: the filter for changes comes before the clone is refreshed.
processaddr_rtnlMutant(action, a) ==
    /\ IF action = "change" THEN UNCHANGED clone ELSE updateCloneConfig("addr")
    /\ IF action # "change" /\ Handled(AddrEvent(action, a))
       THEN PublishAddr(a, action)
       ELSE UNCHANGED addrSaid
    /\ UNCHANGED <<linkVars, routeVars>>

processaddr_rtnl(action, a) ==
    /\ updateCloneConfig("addr")
    /\ IF action # "change" /\ Handled(AddrEvent(action, a))
       THEN PublishAddr(a, action)
       ELSE UNCHANGED addrSaid
    /\ UNCHANGED <<linkVars, routeVars>>

\* addiproute, addip6route, deleteiproute and deleteip6route.
PublishRoute(r, msg) == routeSaid' = [routeSaid EXCEPT ![r] = msg]

\* Mutant: a change is taken for a removal.
processroute_rtnlMutant(action, r, gw) ==
    LET oper == IF action = "add" THEN "add" ELSE "delete"
        msg == [op |-> oper, gw |-> gw, named |-> Named(r)]
    IN  /\ updateCloneConfig("route")
        /\ dfltSaid' = IF OnLink[r] # NoLink /\ gw # NoGateway /\ r \in DefaultDst
                       THEN [dfltSaid EXCEPT ![r] = msg] ELSE dfltSaid
        /\ IF OnLink[r] # NoLink THEN PublishRoute(r, msg) ELSE UNCHANGED routeSaid
        /\ UNCHANGED <<linkVars, addrSaid>>

\* A route without an output interface is not published; a default route with a
\* gateway goes to NlType::dfltroute before and whatever the state machine says.
processroute_rtnl(action, r, gw) ==
    LET oper == IF action = "delete" THEN "delete" ELSE "add"
        event == IF oper = "add" THEN "ADD_IPROUTE" ELSE "DELETE_IPROUTE"
        msg == [op |-> oper, gw |-> gw, named |-> Named(r)]
    IN  /\ updateCloneConfig("route")
        /\ dfltSaid' = IF OnLink[r] # NoLink /\ gw # NoGateway /\ r \in DefaultDst
                       THEN [dfltSaid EXCEPT ![r] = msg] ELSE dfltSaid
        /\ IF OnLink[r] # NoLink /\ Handled(event)
           THEN PublishRoute(r, msg) ELSE UNCHANGED routeSaid
        /\ UNCHANGED <<linkVars, addrSaid>>

Process(action, o, v) ==
    CASE KindOf(o) = "link"  -> processlink_rtnl(action, o, v)
      [] KindOf(o) = "addr"  -> processaddr_rtnl(action, o)
      [] KindOf(o) = "route" -> processroute_rtnl(action, o, v)

-----------------------------------------------------------------------------
(* The main thread: initialize(), then run().                              *)

\* What main does after it has filled, or walked, the cache of each kind.
AfterRefill ==
    [link |-> <<"join", "route">>, route |-> <<"join", "addr">>, addr |-> <<"foreach", "link">>]
AfterForeach ==
    [link |-> <<"foreach", "addr">>, addr |-> <<"foreach", "route">>, route |-> <<"run", "all">>]

\* Mutant: the link cache is filled once but hears of no change.
AddCacheMutant(k) ==
    /\ main = <<"join", k>>
    /\ IF k = "link" THEN UNCHANGED netlinkVars ELSE JoinGroups(k)
    /\ main' = <<"refill", k>>
    /\ UNCHANGED <<todo, m_state, clone, linkVars, addrSaid, routeVars>>

AddCache(k) ==
    /\ main = <<"join", k>>
    /\ JoinGroups(k)
    /\ main' = <<"refill", k>>
    /\ UNCHANGED <<todo, m_state, clone, linkVars, addrSaid, routeVars>>

ToVisit(k) == {o \in Objs(k) : live[o] # Absent}

FillCache(k) ==
    /\ main = <<"refill", k>>
    /\ Refill(k)
    /\ main' = AfterRefill[k]
    /\ IF main'[1] = "foreach"
       THEN m_state' = "POPULATE_IFC" /\ todo' = ToVisit(main'[2])
       ELSE UNCHANGED <<m_state, todo>>
    /\ UNCHANGED <<clone, linkVars, addrSaid, routeVars>>

\* link_init_cb, addr_init_cb and route_init_cb.
InitCallback(o) ==
    /\ main = <<"foreach", KindOf(o)>>
    /\ o \in todo
    /\ todo' = todo \ {o}
    /\ Process("add", o, live[o])
    /\ UNCHANGED <<netlinkVars, main, m_state>>

\* The event DONE ends each walk; it has no handler after the third.
ForeachDone(k) ==
    /\ main = <<"foreach", k>>
    /\ todo = {}
    /\ main' = AfterForeach[k]
    /\ todo' = IF main'[1] = "foreach" THEN ToVisit(main'[2]) ELSE {}
    /\ m_state' = IF ~Handled("DONE") THEN m_state
                  ELSE IF m_state = "POPULATE_IFC" THEN "POPULATE_ADDRESS" ELSE "RUNNING"
    /\ UNCHANGED <<netlinkVars, clone, linkVars, addrSaid, routeVars>>

MainStep ==
    \/ \E k \in Kind : AddCache(k) \/ FillCache(k) \/ ForeachDone(k)
    \/ \E o \in Obj : InitCallback(o)

-----------------------------------------------------------------------------
(* The cache thread: cacheMgrMsg.                                          *)

\* Mutant: the thread that polls is started before initialize() is done.
PollMutant ==
    /\ Include
    /\ UNCHANGED <<mainVars, clone, linkVars, addrSaid, routeVars>>

Poll ==
    /\ main = <<"run", "all">>
    /\ Include
    /\ UNCHANGED <<mainVars, clone, linkVars, addrSaid, routeVars>>

\* A failed poll is logged; nothing asks the kernel for what was lost.
PollFails ==
    /\ main = <<"run", "all">>
    /\ pending = NoCallback
    /\ drops = "unreported"
    /\ drops' = "reported"
    /\ UNCHANGED <<kernel, groups, queue, live, pending>>
    /\ UNCHANGED <<mainVars, clone, linkVars, addrSaid, routeVars>>

\* link_change_cb, addr_change_cb and route_change_cb.
ChangeCallback ==
    /\ pending # NoCallback
    /\ Process(pending.action, pending.obj, pending.val)
    /\ pending' = NoCallback
    /\ UNCHANGED <<kernel, groups, queue, drops, live, mainVars>>

CacheThreadStep == Poll \/ PollFails \/ ChangeCallback

-----------------------------------------------------------------------------
KernelMoves == KernelStep /\ UNCHANGED <<mainVars, clone, linkVars, addrSaid, routeVars>>

Next == KernelMoves \/ MainStep \/ CacheThreadStep

Spec == Init /\ [][Next]_vars
FairSpec == Spec /\ WF_vars(MainStep) /\ WF_vars(CacheThreadStep)

-----------------------------------------------------------------------------
(* Properties.                                                             *)

Stage == {<<step, k>> : step \in {"join", "refill", "foreach"}, k \in Kind} \cup {<<"run", "all">>}

\* Type correctness.
TypeOK ==
    /\ NetlinkTypeOK
    /\ main \in Stage
    /\ todo \subseteq Obj
    /\ \A o \in todo : live[o] # Absent
    /\ todo # {} => main[1] = "foreach"
    /\ m_state \in DOMAIN stateMachine
    /\ clone = [k \in Kind |-> clone[k]]
    /\ link_admin_states \in [Name -> BOOLEAN] /\ link_oper_states \in [Name -> BOOLEAN]
    /\ adminSaid \in [Name -> {"none", "up", "down"}]
    /\ operSaid \in [Name -> {"none", "add", "delete"}]
    /\ addrSaid \in [Addr -> {"none", "add", "delete", "ignored"}]
    /\ routeSaid \in [Route -> RouteMsg] /\ dfltSaid \in [Route -> RouteMsg]

Initialized == main = <<"run", "all">>
Lossless == drops = "none"

\* Nothing is on its way to the subscribers.
Quiescent == Initialized /\ Lossless /\ queue = <<>> /\ pending = NoCallback

\* k's cache has been filled (the fill happens after the join).
Filled(k) ==
    CASE k = "link"  -> main \notin {<<"join", "link">>, <<"refill", "link">>}
      [] k = "route" -> main[1] \notin {"join", "refill"} \/ main[2] = "addr"
      [] k = "addr"  -> main[1] \notin {"join", "refill"}

\* The newest message about o is at position i of the queue.
LastAbout(o, i) ==
    /\ i \in 1..Len(queue) /\ queue[i].obj = o
    /\ \A j \in i+1..Len(queue) : queue[j].obj # o

\* The join before the dump, and the messages replayed over the dump that may
\* be older than it, never leave the caches (what nl_cache_mngr_add and
\* nl_cache_mngr_poll fill) out of step with the kernel for good: until a
\* message is lost, every object either has its present value as the newest
\* message in the queue or, with none queued, has it in the cache.
CacheConverges ==
    Lossless =>
        \A o \in Obj :
            /\ \A i \in 1..Len(queue) : LastAbout(o, i) => queue[i].val = kernel[o]
            /\ (\A i \in 1..Len(queue) : queue[i].obj # o) /\ Filled(KindOf(o))
                  => live[o] = kernel[o]

\* The clones getIpaddr, getInterfaces and getDefaultRoute read are never stale
\* between callbacks: whatever changes a cache after initialize() also runs
\* updateCloneConfig.  A clone is missing only while its cache has been empty.
CloneIsCurrent ==
    Initialized /\ pending = NoCallback =>
        \A k \in Kind :
            \/ clone[k] = CacheOf(k)
            \/ clone[k] = NoClone /\ \A o \in Objs(k) : live[o] = Absent

\* At every moment a subscriber of NlType::address can query (from its callback
\* too) every address it was told of and no address it was told is gone, and
\* after initialize() each address the queries return was published, or its
\* message was ignored because the interface was not known.  Messages the
\* kernel lost make both wrong together.
AddrFeedMatchesClone ==
    \A a \in Addr :
        LET shown == clone["addr"] # NoClone /\ clone["addr"][a] # Absent
        IN  /\ addrSaid[a] = "add" => shown
            /\ addrSaid[a] = "delete" => ~shown
            /\ shown /\ Initialized => addrSaid[a] \in {"add", "ignored"}

\* The scripts on NlType::address (addressmonitor.sh, ipv6addressChange.sh) keep no list
\* of addresses: they rely on it that the messages about an address alternate.  Whatever
\* is lost, and wherever initialize() meets the address, an addition is never told
\* twice, and a removal is told only of what was told, or ignored, before.
AddrMessagesAlternate ==
    [][\A a \in Addr :
          /\ InitCallback(a) => addrSaid[a] = "none"
          /\ ChangeCallback /\ pending.obj = a =>
                /\ pending.action = "add" => addrSaid[a] # "add"
                /\ pending.action = "delete" => addrSaid[a] \in {"add", "ignored"}]_vars

\* The link cache is always ahead of the address messages: no message taken
\* from the socket is about an interface whose name is not in the link cache, so
\* only the walk of initialize() can ignore an address.
EventsNameTheirLink ==
    [][Initialized /\ Lossless =>
          \A a \in Addr : addrSaid'[a] = "ignored" => addrSaid[a] = "ignored"]_vars

\* When nothing is on its way, a link subscriber's last words about a name are
\* right: "up" if and only if the interface of that name is up, "add" if it is
\* operational, and not "add" if it is down, not operational or gone, although
\* the removal of a link publishes nothing.
LinkFeedMatchesKernel ==
    Quiescent =>
        \A n \in Name :
            LET up == {l \in Link : NameOf[l] = n /\ kernel[l] \notin {Absent, LinkDown}}
            IN  /\ adminSaid[n] = "up" <=> up # {}
                /\ \A l \in up : kernel[l].oper = "UP" => operSaid[n] = "add"
                /\ operSaid[n] = "add" => \E l \in up : kernel[l].oper # "DOWN"

\* When nothing is on its way, the last message on NlType::route about a route
\* is an "add" with its present gateway if the route exists, and never an "add"
\* if it does not.  Routes without an output interface are never mentioned.
RouteFeedMatchesKernel ==
    Quiescent =>
        \A r \in Route :
            IF OnLink[r] = NoLink THEN routeSaid[r] = Silent
            ELSE IF kernel[r] # Absent
            THEN routeSaid[r].op = "add" /\ routeSaid[r].gw = kernel[r]
            ELSE routeSaid[r].op # "add"

\* When nothing is on its way, a dfltroute subscriber knows the gateway of every
\* default route that has one.  It believes in a gateway the route does not use
\* only where the route lost its gateway without being deleted, which the
\* route feed shows and the dfltroute feed does not.
DfltFeedMatchesKernel ==
    Quiescent =>
        \A r \in DefaultDst :
            OnLink[r] # NoLink =>
            /\ kernel[r] \in Gateway => dfltSaid[r].op = "add" /\ dfltSaid[r].gw = kernel[r]
            /\ dfltSaid[r].op = "add" /\ dfltSaid[r].gw # kernel[r]
                  => routeSaid[r].op # "none" /\ routeSaid[r].gw = NoGateway

\* A dfltroute subscriber such as checkDefaultRoute.sh may rely on it that each
\* "delete" takes back the very gateway that the last "add" of that route named,
\* messages lost or not: the delete callback brings the cached route.
DfltDeletesMatchAdds ==
    [][\A r \in Route :
          dfltSaid'[r] # dfltSaid[r] /\ dfltSaid'[r].op = "delete" =>
              dfltSaid[r].op = "add" /\ dfltSaid[r].gw = dfltSaid'[r].gw]_vars

\* netlinkifc.cpp:1330 gives the message as "family interface destinationip
\* gatewayip preferred_src metric add/delete": it always names its interface.
DfltMessageNamesInterface ==
    \A r \in Route : dfltSaid[r].op # "none" => dfltSaid[r].named

\* Link subscribers hear what LinkFeed promises.
Feed == INSTANCE LinkFeed WITH admin <- adminSaid, oper <- operSaid
LinkFeedSpec == Feed!Spec

\* The query interface's view of o.
Shown(o) == IF clone[KindOf(o)] = NoClone THEN Absent ELSE clone[KindOf(o)][o]

\* Whatever value an object keeps from some time on, the clones show it from
\* some time on, whatever else the kernel changes meanwhile.
ClonesConverge ==
    \A o \in Obj : \A v \in ValOf(o) \cup {Absent} :
        <>[](kernel[o] = v) => <>[](Shown(o) = v)

\* An address that stays is published for good unless it was ignored, and an
\* interface that stays up is announced as up for good.
FeedsConverge ==
    /\ \A a \in Addr : <>[](kernel[a] # Absent) => <>[](addrSaid[a] \in {"add", "ignored"})
    /\ \A l \in Link : <>[](kernel[l] \notin {Absent, LinkDown}) => <>[](adminSaid[NameOf[l]] = "up")
=================================================================================
