--------------------------------- MODULE Netlink ---------------------------------
(***************************************************************************)
(* The world nlmon runs in: the kernel's tables of links, addresses and    *)
(* routes, the multicast notifications it sends to a netlink socket, and   *)
(* libnl's cache manager, which keeps one cache per kind of object.  None  *)
(* of it is in this repository: it is modelled from how netlinkifc.cpp     *)
(* uses it (nl_cache_mngr_add, nl_cache_mngr_poll and the callbacks).      *)
(***************************************************************************)
EXTENDS Naturals, Sequences

CONSTANTS Link,       \* interfaces, by index
          Addr,       \* addresses an interface may carry
          Route,      \* routes, by destination
          Name,       \* interface names
          NameOf,     \* NameOf[l]; a later index may use the name again
          OnLink,     \* OnLink[o]: the link of an address, the output link of
                      \* a route, or NoLink for a route without a next hop
          Gateway,    \* gateways
          RcvBuf,     \* messages the socket's receive buffer holds
          CanDrop,    \* whether the kernel drops messages when it is full;
                      \* if not, the model stops the kernel there (a bound)
          Absent, NoLink, NoGateway, NoCallback

Obj == Link \cup Addr \cup Route
Kind == {"link", "addr", "route"}
KindOf(o) == IF o \in Link THEN "link" ELSE IF o \in Addr THEN "addr" ELSE "route"
Objs(k) == {o \in Obj : KindOf(o) = k}

\* A link is administratively down, and then its operational state reads DOWN,
\* or up with any operational state the driver reports.
LinkDown == [up |-> FALSE, oper |-> "DOWN"]
LinkVal == {LinkDown} \cup [up : {TRUE}, oper : {"UP", "DOWN", "UNKNOWN"}]
AddrVal == [tentative : BOOLEAN]
RouteVal == Gateway \cup {NoGateway}
ValOf(o) == CASE KindOf(o) = "link"  -> LinkVal
              [] KindOf(o) = "addr"  -> AddrVal
              [] KindOf(o) = "route" -> IF OnLink[o] = NoLink THEN {NoGateway} ELSE RouteVal

Value == LinkVal \cup AddrVal \cup RouteVal
Callback == {c \in [obj : Obj, action : {"add", "change", "delete"}, val : Value] :
                c.val \in ValOf(c.obj)}
Message == {m \in [obj : Obj, val : Value \cup {Absent}] : m.val \in ValOf(m.obj) \cup {Absent}}

ASSUME ObjectsAssumption ==
    /\ Link \cap Addr = {} /\ Link \cap Route = {} /\ Addr \cap Route = {}
    /\ NameOf \in [Link -> Name]
    /\ OnLink \in [Addr \cup Route -> Link \cup {NoLink}]
    /\ \A a \in Addr : OnLink[a] \in Link
ASSUME MarkersAssumption ==
    /\ NoLink \notin Link /\ NoGateway \notin Gateway /\ NoCallback \notin Callback
    /\ Absent \notin Value
ASSUME BufferAssumption == RcvBuf \in Nat \ {0} /\ CanDrop \in BOOLEAN

VARIABLES kernel,     \* the kernel's tables: kernel[o] is o's value or Absent
          groups,     \* kinds whose multicast group the socket has joined
          queue,      \* messages [obj, val] waiting in the socket
          drops,      \* "none"; "unreported" after an overrun; "reported" once
                      \* a poll has returned the error
          live,       \* the cache manager's caches: live[o] is a value or Absent
          pending     \* the change callback the cache manager is about to make

netlinkVars == <<kernel, groups, queue, drops, live, pending>>

NetlinkInit ==
    /\ \E ls \in [Link -> LinkVal \cup {Absent}], as \in [Addr -> AddrVal \cup {Absent}],
          rs \in [Route -> RouteVal \cup {Absent}] :
          /\ \A r \in Route : rs[r] \in ValOf(r) \cup {Absent}
          /\ kernel = [o \in Obj |-> IF o \in Link THEN ls[o]
                                    ELSE IF o \in Addr THEN as[o] ELSE rs[o]]
    /\ \A o \in Addr \cup Route :
          kernel[o] # Absent /\ OnLink[o] # NoLink => kernel[OnLink[o]] # Absent
    /\ \A r \in Route : kernel[r] # Absent /\ OnLink[r] # NoLink => kernel[OnLink[r]].up
    /\ \A l, m \in Link : l # m /\ NameOf[l] = NameOf[m] => Absent \in {kernel[l], kernel[m]}
    /\ groups = {}
    /\ queue = <<>>
    /\ drops = "none"
    /\ live = [o \in Obj |-> Absent]
    /\ pending = NoCallback

-----------------------------------------------------------------------------
(* The kernel.                                                             *)

\* Object o takes value v (Absent removes it) and the change is multicast.
KernelSets(o, v) ==
    /\ kernel[o] # v
    /\ kernel' = [kernel EXCEPT ![o] = v]
    /\ IF KindOf(o) \notin groups
       THEN UNCHANGED <<queue, drops>>
       ELSE \/ /\ Len(queue) < RcvBuf
               /\ queue' = Append(queue, [obj |-> o, val |-> v])
               /\ UNCHANGED drops
            \/ /\ Len(queue) = RcvBuf /\ CanDrop
               /\ drops' = "unreported"
               /\ UNCHANGED queue
    /\ UNCHANGED <<groups, live, pending>>

\* A link is created down under a name nobody holds; it goes down only after
\* its routes are gone and disappears only when it is down and has no address.
KernelLink(l) ==
    \E v \in LinkVal \cup {Absent} :
        /\ kernel[l] = Absent => /\ v = LinkDown
                                 /\ \A m \in Link : NameOf[m] = NameOf[l] => kernel[m] = Absent
        /\ v = Absent => /\ kernel[l] = LinkDown
                         /\ \A a \in Addr : OnLink[a] = l => kernel[a] = Absent
        /\ v = LinkDown => \A r \in Route : OnLink[r] = l => kernel[r] = Absent
        /\ KernelSets(l, v)

KernelAddr(a) ==
    /\ kernel[OnLink[a]] # Absent
    /\ \E v \in AddrVal \cup {Absent} : KernelSets(a, v)

KernelRoute(r) ==
    /\ OnLink[r] # NoLink => kernel[OnLink[r]] \notin {Absent, LinkDown}
    /\ \E v \in ValOf(r) \cup {Absent} : KernelSets(r, v)

KernelStep ==
    \/ \E l \in Link : KernelLink(l)
    \/ \E a \in Addr : KernelAddr(a)
    \/ \E r \in Route : KernelRoute(r)

-----------------------------------------------------------------------------
(* libnl's cache manager.                                                  *)

\* nl_cache_mngr_add, first half: the asynchronous socket joins the groups.
JoinGroups(k) ==
    /\ groups' = groups \cup {k}
    /\ UNCHANGED <<kernel, queue, drops, live, pending>>

\* nl_cache_mngr_add, second half: a dump over the other socket fills the cache.
Refill(k) ==
    /\ live' = [o \in Obj |-> IF o \in Objs(k) THEN kernel[o] ELSE live[o]]
    /\ UNCHANGED <<kernel, groups, queue, drops, pending>>

\* nl_cache_mngr_poll takes one message and includes it in its cache.  Nobody is
\* called back if it changes nothing: it repeats what a dump had already told.
Include ==
    /\ pending = NoCallback
    /\ queue # <<>>
    /\ LET o == Head(queue).obj
           old == live[o]
           new == Head(queue).val
       IN  /\ live' = [live EXCEPT ![o] = new]
           /\ pending' = IF old = new THEN NoCallback
                         ELSE [obj |-> o,
                               action |-> IF old = Absent THEN "add"
                                          ELSE IF new = Absent THEN "delete" ELSE "change",
                               val |-> IF new = Absent THEN old ELSE new]
    /\ queue' = Tail(queue)
    /\ UNCHANGED <<kernel, groups, drops>>

-----------------------------------------------------------------------------
\* A kernel table or a set of caches.
Table(t) ==
    /\ t = [o \in Obj |-> t[o]]
    /\ \A o \in Obj : t[o] \in ValOf(o) \cup {Absent}

\* Type correctness.
NetlinkTypeOK ==
    /\ Table(kernel) /\ Table(live)
    /\ groups \subseteq Kind
    /\ queue \in Seq(Message) /\ Len(queue) <= RcvBuf
    /\ drops \in {"none", "unreported", "reported"}
    /\ pending \in Callback \cup {NoCallback}
=================================================================================
