----------------------------- MODULE NetLinkIfcProofs -----------------------------
(* Theorems about NetLinkIfc, for any tables, queue length and names.      *)
EXTENDS NetLinkIfc, SequenceTheorems, TLAPS

-----------------------------------------------------------------------------
(* Every step of the kernel and of the cache manager keeps NetlinkTypeOK.  *)

\* Each object has one kind and its values are values.
LEMMA Kinds ==
    /\ \A o \in Obj : KindOf(o) \in Kind /\ ValOf(o) \subseteq Value
    /\ \A o \in Obj : (KindOf(o) = "link" <=> o \in Link) /\ (KindOf(o) = "addr" <=> o \in Addr)
                      /\ (KindOf(o) = "route" <=> o \in Route)
    /\ \A l \in Link : ValOf(l) = LinkVal
    /\ \A a \in Addr : ValOf(a) = AddrVal
    /\ \A r \in Route : ValOf(r) \subseteq RouteVal
  <1>1. \A o \in Obj : (KindOf(o) = "link" <=> o \in Link) /\ (KindOf(o) = "addr" <=> o \in Addr)
                      /\ (KindOf(o) = "route" <=> o \in Route) /\ KindOf(o) \in Kind
    BY ObjectsAssumption DEF KindOf, Obj, Kind
  <1>2. \A l \in Link : ValOf(l) = LinkVal
    BY <1>1 DEF ValOf, Obj
  <1>3. \A a \in Addr : ValOf(a) = AddrVal
    BY <1>1 DEF ValOf, Obj
  <1>4. \A r \in Route : ValOf(r) \subseteq RouteVal
    BY <1>1 DEF ValOf, Obj, RouteVal
  <1> QED BY <1>1, <1>2, <1>3, <1>4 DEF Obj, Value

\* The first dump finds tables that are well formed.
LEMMA NetlinkInitType == NetlinkInit => NetlinkTypeOK
  <1> SUFFICES ASSUME NetlinkInit PROVE NetlinkTypeOK
    OBVIOUS
  <1>1. PICK ls \in [Link -> LinkVal \cup {Absent}], as \in [Addr -> AddrVal \cup {Absent}],
             rs \in [Route -> RouteVal \cup {Absent}] :
          /\ \A r \in Route : rs[r] \in ValOf(r) \cup {Absent}
          /\ kernel = [o \in Obj |-> IF o \in Link THEN ls[o]
                                    ELSE IF o \in Addr THEN as[o] ELSE rs[o]]
    BY DEF NetlinkInit
  <1>2. Table(kernel)
    BY <1>1, Kinds DEF Table, Obj
  <1>3. Table(live)
    BY DEF NetlinkInit, Table
  <1>4. queue \in Seq(Message) /\ Len(queue) <= RcvBuf
    <2>1. <<>> \in Seq(Message) /\ Len(<<>>) = 0
      OBVIOUS
    <2>2. queue = <<>>
      BY DEF NetlinkInit
    <2>3. 0 <= RcvBuf
      BY BufferAssumption
    <2> QED BY <2>1, <2>2, <2>3
  <1> QED BY <1>2, <1>3, <1>4 DEF NetlinkInit, NetlinkTypeOK

\* A change in the kernel's tables to a value of o's kind.
LEMMA KernelSetsType ==
    ASSUME NetlinkTypeOK, NEW o \in Obj, NEW v \in ValOf(o) \cup {Absent}, KernelSets(o, v)
    PROVE  NetlinkTypeOK'
  <1>1. Table(kernel)'
    BY DEF NetlinkTypeOK, Table, KernelSets
  <1>2. queue' \in Seq(Message) /\ Len(queue') <= RcvBuf /\ drops' \in {"none", "unreported", "reported"}
    <2>1. CASE UNCHANGED queue
      BY <2>1 DEF NetlinkTypeOK, KernelSets
    <2>2. CASE Len(queue) < RcvBuf /\ queue' = Append(queue, [obj |-> o, val |-> v]) /\ UNCHANGED drops
      <3>1. [obj |-> o, val |-> v] \in Message
        BY Kinds DEF Message
      <3>2. queue' \in Seq(Message) /\ Len(queue') = Len(queue) + 1
        BY <2>2, <3>1 DEF NetlinkTypeOK
      <3>3. Len(queue) \in Nat
        BY LenProperties DEF NetlinkTypeOK
      <3> QED BY <2>2, <3>2, <3>3, BufferAssumption DEF NetlinkTypeOK
    <2> QED BY <2>1, <2>2 DEF KernelSets
  <1> QED BY <1>1, <1>2 DEF NetlinkTypeOK, KernelSets, Table

LEMMA KernelStepType == NetlinkTypeOK /\ KernelStep => NetlinkTypeOK'
  <1> SUFFICES ASSUME NetlinkTypeOK, KernelStep PROVE NetlinkTypeOK'
    OBVIOUS
  <1>1. CASE \E l \in Link : KernelLink(l)
    BY <1>1, Kinds, KernelSetsType DEF KernelLink, Obj
  <1>2. CASE \E a \in Addr : KernelAddr(a)
    BY <1>2, Kinds, KernelSetsType DEF KernelAddr, Obj
  <1>3. CASE \E r \in Route : KernelRoute(r)
    BY <1>3, Kinds, KernelSetsType DEF KernelRoute, Obj
  <1> QED BY <1>1, <1>2, <1>3 DEF KernelStep

LEMMA RefillType == ASSUME NetlinkTypeOK, NEW k \in Kind, Refill(k) PROVE NetlinkTypeOK'
  BY DEF NetlinkTypeOK, Refill, Table

\* The message at the head and the value it replaces.
LEMMA IncludeHead ==
    ASSUME NetlinkTypeOK, Include
    PROVE  LET o == Head(queue).obj
           IN  /\ o \in Obj /\ Head(queue).val \in ValOf(o) \cup {Absent}
               /\ live[o] \in ValOf(o) \cup {Absent}
               /\ queue' \in Seq(Message) /\ Len(queue') <= RcvBuf
  <1>1. Head(queue) \in Message /\ queue' \in Seq(Message) /\ Len(queue') <= RcvBuf
    BY HeadTailProperties, LenProperties, BufferAssumption DEF NetlinkTypeOK, Include
  <1> QED BY <1>1 DEF Message, NetlinkTypeOK, Table

\* A message that changes its cache makes a callback about its object.
LEMMA IncludeCallback ==
    ASSUME NetlinkTypeOK, Include, live[Head(queue).obj] # Head(queue).val
    PROVE  pending' \in Callback /\ pending'.obj = Head(queue).obj
  <1> DEFINE o == Head(queue).obj
             old == live[o]
             new == Head(queue).val
             v == IF new = Absent THEN old ELSE new
             act == IF old = Absent THEN "add" ELSE IF new = Absent THEN "delete" ELSE "change"
  <1>1. o \in Obj /\ new \in ValOf(o) \cup {Absent} /\ old \in ValOf(o) \cup {Absent}
    BY IncludeHead
  <1>2. v \in ValOf(o) /\ v \in Value
    BY <1>1, Kinds
  <1>3. act \in {"add", "change", "delete"}
    OBVIOUS
  <1>4. [obj |-> o, action |-> act, val |-> v] \in Callback
    BY <1>1, <1>2, <1>3 DEF Callback
  <1> QED BY <1>4 DEF Include

LEMMA IncludeType == NetlinkTypeOK /\ Include => NetlinkTypeOK'
  <1> SUFFICES ASSUME NetlinkTypeOK, Include PROVE NetlinkTypeOK'
    OBVIOUS
  <1>1. Table(live)'
    BY IncludeHead DEF Include, NetlinkTypeOK, Table
  <1>2. pending' \in Callback \cup {NoCallback}
    BY IncludeCallback DEF Include
  <1> QED BY <1>1, <1>2, IncludeHead DEF Include, NetlinkTypeOK, Table

-----------------------------------------------------------------------------
(* Type correctness.                                                       *)

\* What the handlers change.
HandlerTypeOK ==
    /\ clone = [k \in Kind |-> clone[k]]
    /\ link_admin_states \in [Name -> BOOLEAN] /\ link_oper_states \in [Name -> BOOLEAN]
    /\ adminSaid \in [Name -> {"none", "up", "down"}]
    /\ operSaid \in [Name -> {"none", "add", "delete"}]
    /\ addrSaid \in [Addr -> {"none", "add", "delete", "ignored"}]
    /\ routeSaid \in [Route -> RouteMsg] /\ dfltSaid \in [Route -> RouteMsg]

handlerVars == <<clone, linkVars, addrSaid, routeVars>>

LEMMA HandlerTypeSame == HandlerTypeOK /\ UNCHANGED handlerVars => HandlerTypeOK'
  BY DEF HandlerTypeOK, handlerVars, linkVars, routeVars

LEMMA CloneType ==
    ASSUME clone = [j \in Kind |-> clone[j]], NEW k \in Kind, updateCloneConfig(k)
    PROVE  clone' = [j \in Kind |-> clone'[j]]
  BY DEF updateCloneConfig

LEMMA LinkHandlerType ==
    ASSUME HandlerTypeOK, NEW l \in Link, NEW v \in LinkVal, NEW action,
           processlink_rtnl(action, l, v)
    PROVE  HandlerTypeOK'
  <1>1. clone' = [k \in Kind |-> clone'[k]]
    BY CloneType DEF HandlerTypeOK, processlink_rtnl, Kind
  <1>2. NameOf[l] \in Name /\ v.up \in BOOLEAN
    <2>1. NameOf[l] \in Name
      BY ObjectsAssumption
    <2>2. v.up \in BOOLEAN
      <3>1. CASE v = LinkDown
        BY <3>1 DEF LinkDown
      <3>2. CASE v \in [up : {TRUE}, oper : {"UP", "DOWN", "UNKNOWN"}]
        BY <3>2
      <3> QED BY <3>1, <3>2 DEF LinkVal
    <2> QED BY <2>1, <2>2
  <1>3. link_admin_states' \in [Name -> BOOLEAN] /\ adminSaid' \in [Name -> {"none", "up", "down"}]
    <2>1. CASE UNCHANGED <<link_admin_states, adminSaid>>
      BY <2>1 DEF HandlerTypeOK
    <2>2. CASE updateLinkAdminState(NameOf[l], v.up)
      BY <1>2, <2>2 DEF HandlerTypeOK, updateLinkAdminState
    <2> QED BY <2>1, <2>2 DEF processlink_rtnl
  <1>4. link_oper_states' \in [Name -> BOOLEAN] /\ operSaid' \in [Name -> {"none", "add", "delete"}]
    <2>1. CASE UNCHANGED <<link_oper_states, operSaid>>
      BY <2>1 DEF HandlerTypeOK
    <2>2. CASE updateLinkOperState(NameOf[l], v.oper = "UP")
      BY <1>2, <2>2 DEF HandlerTypeOK, updateLinkOperState
    <2> QED BY <2>1, <2>2 DEF processlink_rtnl
  <1> QED BY <1>1, <1>3, <1>4 DEF HandlerTypeOK, processlink_rtnl, routeVars

LEMMA AddrHandlerType ==
    ASSUME HandlerTypeOK, NEW a \in Addr, NEW action \in {"add", "change", "delete"},
           processaddr_rtnl(action, a)
    PROVE  HandlerTypeOK'
  <1>1. clone' = [k \in Kind |-> clone'[k]]
    BY CloneType DEF HandlerTypeOK, processaddr_rtnl, Kind
  <1>2. addrSaid' \in [Addr -> {"none", "add", "delete", "ignored"}]
    BY DEF HandlerTypeOK, processaddr_rtnl, PublishAddr
  <1> QED BY <1>1, <1>2 DEF HandlerTypeOK, processaddr_rtnl, routeVars, linkVars

LEMMA RouteHandlerType ==
    ASSUME HandlerTypeOK, NEW r \in Route, NEW gw \in RouteVal, NEW action,
           processroute_rtnl(action, r, gw)
    PROVE  HandlerTypeOK'
  <1> DEFINE msg == [op |-> IF action = "delete" THEN "delete" ELSE "add", gw |-> gw, named |-> Named(r)]
  <1>1. clone' = [k \in Kind |-> clone'[k]]
    BY CloneType DEF HandlerTypeOK, processroute_rtnl, Kind
  <1>2. msg \in RouteMsg
    BY DEF RouteMsg, Named
  <1>3. dfltSaid' \in {dfltSaid, [dfltSaid EXCEPT ![r] = msg]}
    BY DEF processroute_rtnl
  <1>4. routeSaid' \in {routeSaid, [routeSaid EXCEPT ![r] = msg]}
    BY DEF processroute_rtnl, PublishRoute
  <1> QED BY <1>1, <1>2, <1>3, <1>4 DEF HandlerTypeOK, processroute_rtnl, linkVars

LEMMA ProcessType ==
    ASSUME HandlerTypeOK, NEW o \in Obj, NEW v \in ValOf(o),
           NEW action \in {"add", "change", "delete"}, Process(action, o, v)
    PROVE  HandlerTypeOK'
  <1>1. CASE o \in Link
    BY <1>1, Kinds, LinkHandlerType DEF Process
  <1>2. CASE o \in Addr
    BY <1>2, Kinds, AddrHandlerType DEF Process
  <1>3. CASE o \in Route
    BY <1>3, Kinds, RouteHandlerType DEF Process
  <1> QED BY <1>1, <1>2, <1>3 DEF Obj

LEMMA InitType == Init => TypeOK
  <1> SUFFICES ASSUME Init PROVE TypeOK
    OBVIOUS
  <1>1. NetlinkTypeOK
    BY NetlinkInitType DEF Init
  <1>2. NoGateway \in RouteVal /\ Silent \in RouteMsg
    BY DEF RouteMsg, Silent, RouteVal
  <1>3. main \in Stage /\ m_state \in DOMAIN stateMachine
    BY DEF Init, Stage, Kind, stateMachine
  <1>4. HandlerTypeOK
    BY <1>2 DEF Init, HandlerTypeOK
  <1> QED BY <1>1, <1>3, <1>4 DEF Init, TypeOK, HandlerTypeOK

\* main(): the stages follow one another and only cached objects are visited.
LEMMA MainStepType == TypeOK /\ MainStep => TypeOK'
  <1> SUFFICES ASSUME TypeOK, MainStep PROVE TypeOK'
    OBVIOUS
  <1>h. HandlerTypeOK
    BY DEF TypeOK, HandlerTypeOK
  <1>t. \A k \in Kind : ToVisit(k) \subseteq Obj /\ \A o \in ToVisit(k) : live[o] # Absent
    BY DEF ToVisit, Objs
  <1>1. ASSUME NEW k \in Kind, AddCache(k) PROVE TypeOK'
    <2>1. NetlinkTypeOK'
      BY <1>1 DEF AddCache, JoinGroups, TypeOK, NetlinkTypeOK, Table
    <2>2. main' \in Stage
      BY <1>1 DEF AddCache, Stage
    <2>3. HandlerTypeOK'
      BY <1>1, <1>h, HandlerTypeSame DEF AddCache, handlerVars
    <2> QED BY <1>1, <2>1, <2>2, <2>3 DEF AddCache, JoinGroups, TypeOK, HandlerTypeOK
  <1>2. ASSUME NEW k \in Kind, FillCache(k) PROVE TypeOK'
    <2>1. NetlinkTypeOK'
      BY <1>2, RefillType DEF FillCache, TypeOK
    <2>2. main' \in Stage /\ main'[2] \in Kind
      BY <1>2 DEF FillCache, AfterRefill, Stage, Kind
    <2>3. HandlerTypeOK'
      BY <1>2, <1>h, HandlerTypeSame DEF FillCache, handlerVars
    <2>4. m_state' \in DOMAIN stateMachine
      BY <1>2 DEF FillCache, TypeOK, stateMachine
    <2>5. todo' \subseteq Obj /\ (\A o \in todo' : live'[o] # Absent) /\ (todo' # {} => main'[1] = "foreach")
      <3>1. CASE k = "addr"
        <4>1. todo' = ToVisit("link")
          BY <1>2, <3>1 DEF FillCache, AfterRefill
        <4>2. \A o \in Objs("link") : o \in Obj /\ live'[o] = live[o]
          BY <1>2, <3>1 DEF FillCache, Refill, Objs
        <4>3. main'[1] = "foreach"
          BY <1>2, <3>1 DEF FillCache, AfterRefill
        <4> QED BY <4>1, <4>2, <4>3 DEF ToVisit
      <3>2. CASE k # "addr"
        <4>1. todo' = todo
          BY <1>2, <3>2 DEF FillCache, AfterRefill, Kind
        <4>2. todo = {}
          BY <1>2, <3>2 DEF FillCache, TypeOK
        <4> QED BY <4>1, <4>2
      <3> QED BY <3>1, <3>2
    <2> QED BY <2>1, <2>2, <2>3, <2>4, <2>5 DEF TypeOK, HandlerTypeOK
  <1>3. ASSUME NEW k \in Kind, ForeachDone(k) PROVE TypeOK'
    <2>1. NetlinkTypeOK'
      BY <1>3 DEF ForeachDone, TypeOK, NetlinkTypeOK, netlinkVars, Table
    <2>2. main' \in Stage
      BY <1>3 DEF ForeachDone, AfterForeach, Stage, Kind
    <2>3. HandlerTypeOK'
      BY <1>3, <1>h, HandlerTypeSame DEF ForeachDone, handlerVars
    <2>4. m_state' \in DOMAIN stateMachine
      BY <1>3 DEF ForeachDone, TypeOK, stateMachine
    <2>5. todo' \subseteq Obj /\ (\A o \in todo' : live'[o] # Absent) /\ (todo' # {} => main'[1] = "foreach")
      BY <1>3 DEF ForeachDone, netlinkVars, ToVisit, Objs
    <2> QED BY <2>1, <2>2, <2>3, <2>4, <2>5 DEF TypeOK, HandlerTypeOK
  <1>4. ASSUME NEW o \in Obj, InitCallback(o) PROVE TypeOK'
    <2>1. NetlinkTypeOK'
      BY <1>4 DEF InitCallback, TypeOK, NetlinkTypeOK, netlinkVars, Table
    <2>2. live[o] \in ValOf(o)
      BY <1>4 DEF InitCallback, TypeOK, NetlinkTypeOK, Table
    <2>3. HandlerTypeOK'
      BY <1>4, <1>h, <2>2, ProcessType DEF InitCallback
    <2> QED BY <1>4, <2>1, <2>3 DEF InitCallback, netlinkVars, TypeOK, HandlerTypeOK
  <1> QED BY <1>1, <1>2, <1>3, <1>4 DEF MainStep

LEMMA CacheThreadStepType == TypeOK /\ CacheThreadStep => TypeOK'
  <1> SUFFICES ASSUME TypeOK, CacheThreadStep PROVE TypeOK'
    OBVIOUS
  <1>h. HandlerTypeOK
    BY DEF TypeOK, HandlerTypeOK
  <1>1. CASE Poll
    <2>1. NetlinkTypeOK'
      BY <1>1, IncludeType DEF Poll, TypeOK
    <2>2. HandlerTypeOK'
      BY <1>1, <1>h, HandlerTypeSame DEF Poll, handlerVars
    <2>3. UNCHANGED <<main, todo, m_state>> /\ todo = {}
      BY <1>1 DEF Poll, mainVars, TypeOK
    <2> QED BY <2>1, <2>2, <2>3 DEF TypeOK, HandlerTypeOK
  <1>2. CASE PollFails
    <2>1. NetlinkTypeOK'
      BY <1>2 DEF PollFails, TypeOK, NetlinkTypeOK, Table
    <2>2. HandlerTypeOK'
      BY <1>2, <1>h, HandlerTypeSame DEF PollFails, handlerVars
    <2> QED BY <1>2, <2>1, <2>2 DEF PollFails, mainVars, TypeOK, HandlerTypeOK
  <1>3. CASE ChangeCallback
    <2>1. NetlinkTypeOK'
      BY <1>3 DEF ChangeCallback, TypeOK, NetlinkTypeOK, Table
    <2>2. pending \in Callback
      BY <1>3 DEF ChangeCallback, TypeOK, NetlinkTypeOK
    <2>3. HandlerTypeOK'
      BY <1>3, <1>h, <2>2, ProcessType DEF ChangeCallback, Callback
    <2> QED BY <1>3, <2>1, <2>3 DEF ChangeCallback, mainVars, TypeOK, HandlerTypeOK
  <1> QED BY <1>1, <1>2, <1>3 DEF CacheThreadStep

LEMMA KernelMovesType == TypeOK /\ KernelMoves => TypeOK'
  <1> SUFFICES ASSUME TypeOK, KernelMoves PROVE TypeOK'
    OBVIOUS
  <1>1. NetlinkTypeOK'
    BY KernelStepType DEF KernelMoves, TypeOK
  <1>2. HandlerTypeOK'
    BY HandlerTypeSame DEF KernelMoves, TypeOK, HandlerTypeOK, handlerVars
  <1>3. UNCHANGED <<live, main, todo, m_state>>
    BY DEF KernelMoves, mainVars, KernelStep, KernelLink, KernelAddr, KernelRoute, KernelSets
  <1> QED BY <1>1, <1>2, <1>3 DEF TypeOK, HandlerTypeOK

LEMMA StutterType == TypeOK /\ UNCHANGED vars => TypeOK'
  <1> SUFFICES ASSUME TypeOK, UNCHANGED vars PROVE TypeOK'
    OBVIOUS
  <1>1. NetlinkTypeOK'
    BY DEF TypeOK, NetlinkTypeOK, vars, netlinkVars, Table
  <1>2. HandlerTypeOK'
    BY HandlerTypeSame DEF TypeOK, HandlerTypeOK, vars, handlerVars
  <1> QED BY <1>1, <1>2 DEF TypeOK, HandlerTypeOK, vars, mainVars, netlinkVars

\* The monitor's state is always well formed: its walks visit only objects that
\* are in a cache, and every callback is made with a value of its object's kind.
THEOREM TypeCorrect == Spec => []TypeOK
  <1>1. TypeOK /\ [Next]_vars => TypeOK'
    BY MainStepType, CacheThreadStepType, KernelMovesType, StutterType DEF Next
  <1> QED BY <1>1, InitType, PTL DEF Spec

-----------------------------------------------------------------------------
(* The caches converge.                                                    *)

\* CacheConverges is not inductive: a cache that is filled must have joined its
\* group before (or the kernel could change it unheard), and messages are only
\* of joined groups (or one could be newest and yet older than the tables).
Joined == \A k \in Kind : Filled(k) \/ main = <<"refill", k>> => k \in groups
QueuedAreJoined == \A i \in 1..Len(queue) : KindOf(queue[i].obj) \in groups
ConvergeInv == TypeOK /\ Joined /\ QueuedAreJoined /\ CacheConverges

LEMMA StageOrder ==
    ASSUME TypeOK
    PROVE  /\ \A k \in Kind : AddCache(k) =>
                  \A j \in Kind : (Filled(j)' <=> Filled(j)) /\ (main' = <<"refill", j>> <=> j = k)
           /\ \A k \in Kind : FillCache(k) =>
                  /\ \A j \in Kind : Filled(j)' => Filled(j) \/ j = k
                  /\ \A j \in Kind : main' # <<"refill", j>>
           /\ \A k \in Kind : ForeachDone(k) =>
                  \A j \in Kind : Filled(j) /\ main' # <<"refill", j>>
  BY DEF AddCache, FillCache, ForeachDone, AfterRefill, AfterForeach, Filled, Kind

LEMMA JoinedStep == TypeOK /\ Joined /\ [Next]_vars => Joined'
  <1> SUFFICES ASSUME TypeOK, Joined, [Next]_vars PROVE Joined'
    OBVIOUS
  <1>1. ASSUME NEW k \in Kind, AddCache(k) PROVE Joined'
    BY <1>1, StageOrder DEF Joined, AddCache, JoinGroups
  <1>2. ASSUME NEW k \in Kind, FillCache(k) PROVE Joined'
    BY <1>2, StageOrder DEF Joined, FillCache, Refill
  <1>3. ASSUME NEW k \in Kind, ForeachDone(k) PROVE Joined'
    BY <1>3, StageOrder DEF Joined, ForeachDone, netlinkVars
  <1>4. CASE UNCHANGED <<main, groups>>
    BY <1>4 DEF Joined, Filled
  <1>5. CASE KernelMoves
    BY <1>4, <1>5 DEF KernelMoves, KernelStep, KernelLink, KernelAddr, KernelRoute, KernelSets, mainVars
  <1>6. CASE CacheThreadStep
    BY <1>4, <1>6 DEF CacheThreadStep, Poll, Include, PollFails, ChangeCallback, mainVars
  <1>7. ASSUME NEW o \in Obj, InitCallback(o) PROVE Joined'
    BY <1>4, <1>7 DEF InitCallback, netlinkVars
  <1>8. CASE UNCHANGED vars
    BY <1>4, <1>8 DEF vars, mainVars, netlinkVars
  <1> QED BY <1>1, <1>2, <1>3, <1>5, <1>6, <1>7, <1>8 DEF Next, MainStep

\* A change in the kernel: either it is queued as the newest message of its
\* object, or nobody has filled the cache of its kind, or it is lost.
LEMMA KernelSetsConverges ==
    ASSUME ConvergeInv, NEW o \in Obj, NEW v \in ValOf(o) \cup {Absent}, KernelSets(o, v),
           UNCHANGED main
    PROVE  QueuedAreJoined' /\ CacheConverges'
  <1> DEFINE m == [obj |-> o, val |-> v]
  <1>n. Len(queue) \in Nat /\ queue \in Seq(Message)
    BY LenProperties DEF ConvergeInv, TypeOK, NetlinkTypeOK
  <1>k. /\ \A p \in Obj : kernel'[p] = IF p = o THEN v ELSE kernel[p]
        /\ UNCHANGED <<groups, live>>
    BY DEF KernelSets, ConvergeInv, TypeOK, NetlinkTypeOK, Table
  <1>f. \A k \in Kind : Filled(k)' <=> Filled(k)
    BY DEF Filled
  <1>1. CASE KindOf(o) \notin groups
    <2>1. UNCHANGED <<queue, drops>>
      BY <1>1 DEF KernelSets
    <2>2. ~Filled(KindOf(o)) /\ \A i \in 1..Len(queue) : queue[i].obj # o
      BY <1>1, Kinds DEF ConvergeInv, Joined, QueuedAreJoined
    <2>3. QueuedAreJoined'
      BY <2>1, <1>k DEF ConvergeInv, QueuedAreJoined
    <2>4. CacheConverges'
      BY <2>1, <2>2, <1>k, <1>f, Kinds DEF ConvergeInv, CacheConverges, Lossless, LastAbout
    <2> QED BY <2>3, <2>4
  <1>2. CASE KindOf(o) \in groups /\ drops' = "unreported" /\ UNCHANGED queue
    BY <1>2, <1>k DEF ConvergeInv, QueuedAreJoined, CacheConverges, Lossless
  <1>3. CASE KindOf(o) \in groups /\ queue' = Append(queue, m) /\ UNCHANGED drops
    <2>1. /\ Len(queue') = Len(queue) + 1 /\ queue'[Len(queue) + 1] = m
          /\ \A i \in 1..Len(queue) : queue'[i] = queue[i]
      BY <1>3, <1>n
    <2>2. QueuedAreJoined'
      BY <2>1, <1>3, <1>n, <1>k DEF ConvergeInv, QueuedAreJoined
    <2>3. ASSUME Lossless, NEW p \in Obj, NEW i \in 1..Len(queue'), LastAbout(p, i)'
          PROVE  queue'[i].val = kernel'[p]
      <3>1. CASE p = o
        BY <2>1, <2>3, <3>1, <1>n, <1>k DEF LastAbout
      <3>2. CASE p # o
        <4>1. i \in 1..Len(queue) /\ LastAbout(p, i)
          BY <2>1, <2>3, <3>2, <1>n DEF LastAbout
        <4> QED BY <4>1, <2>1, <2>3, <3>2, <1>k DEF ConvergeInv, CacheConverges
      <3> QED BY <3>1, <3>2
    <2>4. ASSUME Lossless, NEW p \in Obj, \A i \in 1..Len(queue') : queue'[i].obj # p,
                 Filled(KindOf(p))
          PROVE  live'[p] = kernel'[p]
      <3>1. p # o /\ \A i \in 1..Len(queue) : queue[i].obj # p
        BY <2>1, <2>4, <1>n
      <3> QED BY <3>1, <2>4, <1>k DEF ConvergeInv, CacheConverges
    <2>5. Lossless' <=> Lossless
      BY <1>3 DEF Lossless
    <2>6. CacheConverges'
      BY <2>3, <2>4, <2>5, <1>f, Kinds DEF CacheConverges
    <2> QED BY <2>2, <2>6
  <1> QED BY <1>1, <1>2, <1>3 DEF KernelSets

LEMMA KernelMovesConverges == ConvergeInv /\ KernelMoves => QueuedAreJoined' /\ CacheConverges'
  <1> SUFFICES ASSUME ConvergeInv, KernelMoves PROVE QueuedAreJoined' /\ CacheConverges'
    OBVIOUS
  <1>m. UNCHANGED main
    BY DEF KernelMoves, mainVars
  <1>1. CASE \E l \in Link : KernelLink(l)
    BY <1>1, <1>m, Kinds, KernelSetsConverges DEF KernelLink, Obj
  <1>2. CASE \E a \in Addr : KernelAddr(a)
    BY <1>2, <1>m, Kinds, KernelSetsConverges DEF KernelAddr, Obj
  <1>3. CASE \E r \in Route : KernelRoute(r)
    BY <1>3, <1>m, Kinds, KernelSetsConverges DEF KernelRoute, Obj
  <1> QED BY <1>1, <1>2, <1>3 DEF KernelMoves, KernelStep

\* The message taken from the queue is either followed by another about its
\* object or brings the object's present value.
LEMMA PollConverges == ConvergeInv /\ Poll => QueuedAreJoined' /\ CacheConverges'
  <1> SUFFICES ASSUME ConvergeInv, Poll PROVE QueuedAreJoined' /\ CacheConverges'
    OBVIOUS
  <1> DEFINE o == Head(queue).obj
  <1>1. /\ Len(queue) \in Nat /\ queue[1] = Head(queue) /\ 1 \in 1..Len(queue)
        /\ Len(queue') = Len(queue) - 1
        /\ \A i \in 1..Len(queue') : queue'[i] = queue[i + 1]
    BY HeadTailProperties, LenProperties DEF ConvergeInv, TypeOK, NetlinkTypeOK, Poll, Include
  <1>2. Head(queue) \in Message
    BY HeadTailProperties DEF ConvergeInv, TypeOK, NetlinkTypeOK, Poll, Include
  <1>3. \A p \in Obj : live'[p] = IF p = o THEN Head(queue).val ELSE live[p]
    BY <1>2 DEF Poll, Include, Message, ConvergeInv, TypeOK, NetlinkTypeOK, Table
  <1>4. UNCHANGED <<kernel, groups, drops, main>>
    BY DEF Poll, Include, mainVars
  <1>5. QueuedAreJoined'
    BY <1>1, <1>4 DEF ConvergeInv, QueuedAreJoined
  <1>6. \A k \in Kind : Filled(k)' <=> Filled(k)
    BY <1>4 DEF Filled
  <1>7. ASSUME Lossless, NEW p \in Obj, NEW i \in 1..Len(queue'), LastAbout(p, i)'
        PROVE  queue'[i].val = kernel'[p]
    <2>1. i + 1 \in 1..Len(queue) /\ LastAbout(p, i + 1)
      <3>1. i + 1 \in 1..Len(queue) /\ queue[i + 1].obj = p
        BY <1>1, <1>7 DEF LastAbout
      <3>2. ASSUME NEW j \in (i + 1) + 1..Len(queue) PROVE queue[j].obj # p
        <4>1. j - 1 \in i + 1..Len(queue') /\ j - 1 \in 1..Len(queue') /\ (j - 1) + 1 = j
          BY <1>1, <3>2
        <4> QED BY <4>1, <1>1, <1>7 DEF LastAbout
      <3> QED BY <3>1, <3>2 DEF LastAbout
    <2> QED BY <2>1, <1>1, <1>4, <1>7 DEF ConvergeInv, CacheConverges
  <1>8. ASSUME Lossless, NEW p \in Obj, \A i \in 1..Len(queue') : queue'[i].obj # p,
               Filled(KindOf(p))
        PROVE  live'[p] = kernel'[p]
    <2>1. \A j \in 2..Len(queue) : queue[j].obj # p
      <3> SUFFICES ASSUME NEW j \in 2..Len(queue) PROVE queue[j].obj # p
        OBVIOUS
      <3>1. j - 1 \in 1..Len(queue') /\ (j - 1) + 1 = j
        BY <1>1
      <3> QED BY <3>1, <1>1, <1>8
    <2>2. CASE p = o
      <3>1. LastAbout(p, 1)
        BY <1>1, <2>1, <2>2 DEF LastAbout
      <3> QED BY <3>1, <1>1, <1>3, <1>4, <1>8, <2>2 DEF ConvergeInv, CacheConverges
    <2>3. CASE p # o
      <3>1. \A j \in 1..Len(queue) : queue[j].obj # p
        BY <1>1, <2>1, <2>3
      <3> QED BY <3>1, <1>3, <1>4, <1>8, <2>3 DEF ConvergeInv, CacheConverges
    <2> QED BY <2>2, <2>3
  <1>9. CacheConverges'
    BY <1>4, <1>6, <1>7, <1>8, Kinds DEF CacheConverges, Lossless
  <1> QED BY <1>5, <1>9

LEMMA FillCacheConverges ==
    ASSUME ConvergeInv, NEW k \in Kind, FillCache(k)
    PROVE  QueuedAreJoined' /\ CacheConverges'
  <1>1. UNCHANGED <<kernel, queue, drops, groups>>
    BY DEF FillCache, Refill
  <1>2. \A p \in Obj : live'[p] = IF KindOf(p) = k THEN kernel[p] ELSE live[p]
    BY DEF FillCache, Refill, Objs
  <1>3. \A j \in Kind : Filled(j)' => Filled(j) \/ j = k
    BY StageOrder DEF ConvergeInv
  <1>4. \A p \in Obj, i \in 1..Len(queue) : LastAbout(p, i)' <=> LastAbout(p, i)
    BY <1>1 DEF LastAbout
  <1> QED BY <1>1, <1>2, <1>3, <1>4, Kinds DEF ConvergeInv, QueuedAreJoined, CacheConverges, Lossless

\* Every other step leaves the tables, the queue and the caches alone.
LEMMA QuietConverges ==
    ASSUME ConvergeInv, UNCHANGED <<kernel, queue, live>>, groups \subseteq groups',
           Lossless' => Lossless, \A k \in Kind : Filled(k)' <=> Filled(k)
    PROVE  QueuedAreJoined' /\ CacheConverges'
  <1>1. \A p \in Obj, i \in 1..Len(queue) : LastAbout(p, i)' <=> LastAbout(p, i)
    BY DEF LastAbout
  <1> QED BY <1>1, Kinds DEF ConvergeInv, QueuedAreJoined, CacheConverges

LEMMA ConvergeInvStep == ConvergeInv /\ [Next]_vars => ConvergeInv'
  <1> SUFFICES ASSUME ConvergeInv, [Next]_vars PROVE QueuedAreJoined' /\ CacheConverges'
    BY JoinedStep, MainStepType, CacheThreadStepType, KernelMovesType, StutterType
       DEF ConvergeInv, Next
  <1>1. ASSUME NEW k \in Kind, AddCache(k) PROVE QueuedAreJoined' /\ CacheConverges'
    BY <1>1, StageOrder, QuietConverges DEF ConvergeInv, AddCache, JoinGroups, Lossless
  <1>2. ASSUME NEW k \in Kind, ForeachDone(k) PROVE QueuedAreJoined' /\ CacheConverges'
    <2>1. \A j \in Kind : Filled(j)
      BY <1>2, StageOrder DEF ConvergeInv
    <2>2. \A j \in Kind : Filled(j)'
      <3>1. main'[1] \in {"foreach", "run"}
        BY <1>2 DEF ForeachDone, AfterForeach, Kind
      <3>2. main' \notin {<<"join", "link">>, <<"refill", "link">>}
        BY <3>1
      <3> QED BY <3>1, <3>2 DEF Filled, Kind
    <2> QED BY <1>2, <2>1, <2>2, QuietConverges DEF ForeachDone, netlinkVars, Lossless
  <1>3. CASE UNCHANGED <<kernel, queue, live, groups, main>> /\ (Lossless' => Lossless)
    BY <1>3, QuietConverges DEF Filled
  <1>4. ASSUME NEW o \in Obj, InitCallback(o) PROVE QueuedAreJoined' /\ CacheConverges'
    BY <1>3, <1>4 DEF InitCallback, netlinkVars, Lossless
  <1>5. CASE ChangeCallback \/ PollFails
    BY <1>3, <1>5 DEF ChangeCallback, PollFails, mainVars, Lossless
  <1>6. CASE UNCHANGED vars
    BY <1>3, <1>6 DEF vars, netlinkVars, mainVars, Lossless
  <1> QED BY <1>1, <1>2, <1>4, <1>5, <1>6, FillCacheConverges, PollConverges, KernelMovesConverges
          DEF Next, MainStep, CacheThreadStep

LEMMA ConvergeInvInit == Init => ConvergeInv
  <1> SUFFICES ASSUME Init PROVE ConvergeInv
    OBVIOUS
  <1>1. queue = <<>> /\ Len(queue) = 0
    BY DEF Init, NetlinkInit
  <1>2. \A k \in Kind : ~Filled(k) /\ main # <<"refill", k>>
    BY DEF Init, Filled, Kind
  <1>3. Joined
    BY <1>2 DEF Joined
  <1>4. QueuedAreJoined /\ CacheConverges
    BY <1>1, <1>2, Kinds DEF QueuedAreJoined, CacheConverges
  <1> QED BY <1>3, <1>4, InitType DEF ConvergeInv

\* Until the kernel drops a message the caches converge on the kernel's tables:
\* joining before the dump, and replaying over it messages that may be older,
\* leaves no object with an old value in its cache and no message to correct it.
THEOREM CachesConverge == Spec => []CacheConverges
  <1>1. ConvergeInv => CacheConverges
    BY DEF ConvergeInv
  <1> QED BY <1>1, ConvergeInvInit, ConvergeInvStep, PTL DEF Spec

-----------------------------------------------------------------------------
(* The link feed implements LinkFeed.                                      *)

\* The static maps and the words last published agree, an operational interface
\* is up, and no handler runs before the state machine has its table.
FeedInv ==
    /\ \A n \in Name : adminSaid[n] = "up" <=> link_admin_states[n]
    /\ \A n \in Name : operSaid[n] = "add" <=> link_oper_states[n]
    /\ \A n \in Name : operSaid[n] = "add" => adminSaid[n] = "up"
Prepared == m_state = "INIT" => main[1] \in {"join", "refill"} /\ pending = NoCallback
LinkInv == TypeOK /\ FeedInv /\ Prepared

LEMMA LinkEventsHandled ==
    ASSUME m_state \in DOMAIN stateMachine, m_state # "INIT"
    PROVE  \A event \in LinkEvents : Handled(event)
  BY DEF Handled, stateMachine

\* Only an interface that is up is operational.
LEMMA LinkValues ==
    \A v \in LinkVal : /\ v.up \in BOOLEAN /\ v.oper \in {"UP", "DOWN", "UNKNOWN"}
                       /\ ~v.up => v.oper = "DOWN"
  <1> SUFFICES ASSUME NEW v \in LinkVal
               PROVE  v.up \in BOOLEAN /\ v.oper \in {"UP", "DOWN", "UNKNOWN"} /\ (~v.up => v.oper = "DOWN")
    OBVIOUS
  <1>1. CASE v = LinkDown
    BY <1>1 DEF LinkDown
  <1>2. CASE v \in [up : {TRUE}, oper : {"UP", "DOWN", "UNKNOWN"}]
    BY <1>2
  <1> QED BY <1>1, <1>2 DEF LinkVal

\* The two update functions: a word is published when the remembered state
\* changes, so it is the other word, and the two agree again.
LEMMA AdminAlternates ==
    ASSUME link_admin_states \in [Name -> BOOLEAN], adminSaid \in [Name -> {"none", "up", "down"}],
           FeedInv, NEW n \in Name, NEW b \in BOOLEAN, updateLinkAdminState(n, b)
    PROVE  /\ adminSaid' \in {adminSaid, [adminSaid EXCEPT ![n] = Feed!Flip(@, "up", "down")]}
           /\ adminSaid'[n] = "up" <=> b
           /\ \A m \in Name : adminSaid'[m] = "up" <=> link_admin_states'[m]
  <1>i. \A m \in Name : adminSaid[m] = "up" <=> link_admin_states[m]
    BY DEF FeedInv
  <1>u. \A m \in Name : link_admin_states'[m] = IF m = n THEN b ELSE link_admin_states[m]
    BY DEF updateLinkAdminState
  <1>1. CASE link_admin_states[n] = b
    <2>1. adminSaid' = adminSaid /\ \A m \in Name : link_admin_states'[m] = link_admin_states[m]
      BY <1>1, <1>u DEF updateLinkAdminState
    <2>2. adminSaid'[n] = "up" <=> b
      BY <1>1, <1>i, <2>1
    <2> QED BY <1>i, <2>1, <2>2
  <1>2. CASE link_admin_states[n] # b /\ b
    <2>1. ~link_admin_states[n]
      BY <1>2
    <2>2. /\ adminSaid' = [adminSaid EXCEPT ![n] = "up"]
          /\ Feed!Flip(adminSaid[n], "up", "down") = "up"
      BY <1>2, <1>i, <2>1 DEF updateLinkAdminState, Feed!Flip
    <2>3. \A m \in Name : adminSaid'[m] = "up" <=> link_admin_states'[m]
      BY <1>2, <1>i, <1>u, <2>2
    <2> QED BY <1>2, <2>2, <2>3
  <1>3. CASE link_admin_states[n] # b /\ ~b
    <2>1. link_admin_states[n]
      BY <1>3
    <2>2. /\ adminSaid' = [adminSaid EXCEPT ![n] = "down"]
          /\ Feed!Flip(adminSaid[n], "up", "down") = "down"
      BY <1>3, <1>i, <2>1 DEF updateLinkAdminState, Feed!Flip
    <2>3. \A m \in Name : adminSaid'[m] = "up" <=> link_admin_states'[m]
      BY <1>3, <1>i, <1>u, <2>2
    <2> QED BY <1>3, <2>2, <2>3
  <1> QED BY <1>1, <1>2, <1>3

LEMMA OperAlternates ==
    ASSUME link_oper_states \in [Name -> BOOLEAN], operSaid \in [Name -> {"none", "add", "delete"}],
           FeedInv, NEW n \in Name, NEW b \in BOOLEAN, updateLinkOperState(n, b)
    PROVE  /\ operSaid' \in {operSaid, [operSaid EXCEPT ![n] = Feed!Flip(@, "add", "delete")]}
           /\ operSaid'[n] = "add" <=> b
           /\ \A m \in Name : operSaid'[m] = "add" <=> link_oper_states'[m]
  <1>i. \A m \in Name : operSaid[m] = "add" <=> link_oper_states[m]
    BY DEF FeedInv
  <1>u. \A m \in Name : link_oper_states'[m] = IF m = n THEN b ELSE link_oper_states[m]
    BY DEF updateLinkOperState
  <1>1. CASE link_oper_states[n] = b
    <2>1. operSaid' = operSaid /\ \A m \in Name : link_oper_states'[m] = link_oper_states[m]
      BY <1>1, <1>u DEF updateLinkOperState
    <2>2. operSaid'[n] = "add" <=> b
      BY <1>1, <1>i, <2>1
    <2> QED BY <1>i, <2>1, <2>2
  <1>2. CASE link_oper_states[n] # b /\ b
    <2>1. ~link_oper_states[n]
      BY <1>2
    <2>2. /\ operSaid' = [operSaid EXCEPT ![n] = "add"]
          /\ Feed!Flip(operSaid[n], "add", "delete") = "add"
      BY <1>2, <1>i, <2>1 DEF updateLinkOperState, Feed!Flip
    <2>3. \A m \in Name : operSaid'[m] = "add" <=> link_oper_states'[m]
      BY <1>2, <1>i, <1>u, <2>2
    <2> QED BY <1>2, <2>2, <2>3
  <1>3. CASE link_oper_states[n] # b /\ ~b
    <2>1. link_oper_states[n]
      BY <1>3
    <2>2. /\ operSaid' = [operSaid EXCEPT ![n] = "delete"]
          /\ Feed!Flip(operSaid[n], "add", "delete") = "delete"
      BY <1>3, <1>i, <2>1 DEF updateLinkOperState, Feed!Flip
    <2>3. \A m \in Name : operSaid'[m] = "add" <=> link_oper_states'[m]
      BY <1>3, <1>i, <1>u, <2>2
    <2> QED BY <1>3, <2>2, <2>3
  <1> QED BY <1>1, <1>2, <1>3

\* One notification is one announcement of the abstract feed, or none.
LEMMA LinkHandlerFeeds ==
    ASSUME TypeOK, FeedInv, m_state # "INIT",
           NEW l \in Link, NEW v \in LinkVal, NEW action, processlink_rtnl(action, l, v)
    PROVE  FeedInv' /\ [Feed!Next]_(Feed!vars)
  <1> DEFINE n == NameOf[l]
  <1>1. n \in Name
    BY ObjectsAssumption
  <1>2. /\ link_admin_states \in [Name -> BOOLEAN] /\ link_oper_states \in [Name -> BOOLEAN]
        /\ adminSaid \in [Name -> {"none", "up", "down"}]
        /\ operSaid \in [Name -> {"none", "add", "delete"}]
    BY DEF TypeOK
  <1>3. CASE action = "delete"
    BY <1>3 DEF processlink_rtnl, FeedInv, Feed!vars
  <1>4. CASE action # "delete"
    <2>1. Handled(IF v.up THEN "LINK_ADMIN_UP" ELSE "LINK_ADMIN_DOWN")
      BY LinkEventsHandled DEF LinkEvents, TypeOK
    <2>2. Handled(IF v.oper = "UP" THEN "ADD_LINK" ELSE "DELETE_LINK")
      BY LinkEventsHandled DEF LinkEvents, TypeOK
    <2>3. updateLinkAdminState(n, v.up)
      BY <1>4, <2>1 DEF processlink_rtnl
    <2>4. IF v.oper = "UNKNOWN" THEN UNCHANGED <<link_oper_states, operSaid>>
          ELSE updateLinkOperState(n, v.oper = "UP")
      BY <1>4, <2>2 DEF processlink_rtnl
    <2>5. /\ adminSaid' \in {adminSaid, [adminSaid EXCEPT ![n] = Feed!Flip(@, "up", "down")]}
          /\ adminSaid'[n] = "up" <=> v.up
          /\ \A m \in Name : adminSaid'[m] = "up" <=> link_admin_states'[m]
      BY <1>1, <1>2, <2>3, LinkValues, AdminAlternates
    <2>6. /\ operSaid' \in {operSaid, [operSaid EXCEPT ![n] = Feed!Flip(@, "add", "delete")]}
          /\ v.oper # "UNKNOWN" => (operSaid'[n] = "add" <=> v.oper = "UP")
          /\ \A m \in Name : operSaid'[m] = "add" <=> link_oper_states'[m]
      <3>1. CASE v.oper = "UNKNOWN"
        BY <2>4, <3>1 DEF FeedInv
      <3>2. CASE v.oper # "UNKNOWN"
        BY <1>1, <1>2, <2>4, <3>2, OperAlternates
      <3> QED BY <3>1, <3>2
    <2>7. \A m \in Name \ {n} : adminSaid'[m] = adminSaid[m] /\ operSaid'[m] = operSaid[m]
      BY <1>1, <1>2, <2>5, <2>6
    <2>8. operSaid'[n] = "add" => adminSaid'[n] = "up"
      BY <1>1, <2>4, <2>5, <2>6, LinkValues DEF FeedInv
    <2>9. FeedInv'
      BY <2>5, <2>6, <2>7, <2>8 DEF FeedInv
    <2>10. Feed!Announce(n)
      BY <2>5, <2>6, <2>8 DEF Feed!Announce
    <2> QED BY <1>1, <2>9, <2>10 DEF Feed!Next
  <1> QED BY <1>3, <1>4

LEMMA ProcessFeeds ==
    ASSUME TypeOK, FeedInv, m_state # "INIT", NEW o \in Obj, NEW v \in ValOf(o), NEW action,
           Process(action, o, v)
    PROVE  FeedInv' /\ [Feed!Next]_(Feed!vars)
  <1>1. CASE o \in Link
    BY <1>1, Kinds, LinkHandlerFeeds DEF Process
  <1>2. CASE o \notin Link
    <2>1. UNCHANGED linkVars
      <3>1. CASE o \in Addr
        BY <3>1, Kinds DEF Process, processaddr_rtnl
      <3>2. CASE o \in Route
        BY <3>2, Kinds DEF Process, processroute_rtnl
      <3> QED BY <1>2, <3>1, <3>2 DEF Obj
    <2> QED BY <2>1 DEF linkVars, FeedInv, Feed!vars
  <1> QED BY <1>1, <1>2

LEMMA LinkInvInit == Init => LinkInv /\ Feed!Init
  <1> SUFFICES ASSUME Init PROVE LinkInv /\ Feed!Init
    OBVIOUS
  <1>1. FeedInv
    BY DEF Init, FeedInv
  <1>2. Prepared
    BY DEF Init, NetlinkInit, Prepared
  <1> QED BY <1>1, <1>2, InitType DEF LinkInv, Init, Feed!Init

LEMMA LinkInvStep == LinkInv /\ [Next]_vars => LinkInv' /\ [Feed!Next]_(Feed!vars)
  <1> SUFFICES ASSUME LinkInv, [Next]_vars
               PROVE  FeedInv' /\ Prepared' /\ [Feed!Next]_(Feed!vars)
    BY MainStepType, CacheThreadStepType, KernelMovesType, StutterType DEF LinkInv, Next
  <1>q. CASE UNCHANGED linkVars /\ Prepared'
    BY <1>q DEF LinkInv, FeedInv, linkVars, Feed!vars
  <1>1. ASSUME NEW k \in Kind, AddCache(k) PROVE UNCHANGED linkVars /\ Prepared'
    BY <1>1 DEF AddCache, JoinGroups, LinkInv, Prepared
  <1>2. ASSUME NEW k \in Kind, FillCache(k) PROVE UNCHANGED linkVars /\ Prepared'
    BY <1>2 DEF FillCache, Refill, LinkInv, Prepared, AfterRefill, Kind
  <1>3. ASSUME NEW k \in Kind, ForeachDone(k) PROVE UNCHANGED linkVars /\ Prepared'
    BY <1>3 DEF ForeachDone, netlinkVars, LinkInv, Prepared, Handled
  <1>4. ASSUME NEW o \in Obj, InitCallback(o) PROVE FeedInv' /\ Prepared' /\ [Feed!Next]_(Feed!vars)
    <2>1. m_state # "INIT" /\ live[o] \in ValOf(o)
      BY <1>4 DEF InitCallback, LinkInv, Prepared, TypeOK, NetlinkTypeOK, Table
    <2>2. Prepared'
      BY <1>4 DEF InitCallback, netlinkVars, LinkInv, Prepared
    <2> QED BY <1>4, <2>1, <2>2, ProcessFeeds DEF InitCallback, LinkInv
  <1>5. CASE ChangeCallback
    <2>1. m_state # "INIT" /\ pending \in Callback
      BY <1>5 DEF ChangeCallback, LinkInv, Prepared, TypeOK, NetlinkTypeOK
    <2>2. Prepared'
      BY <1>5 DEF ChangeCallback, mainVars, LinkInv, Prepared
    <2> QED BY <1>5, <2>1, <2>2, ProcessFeeds DEF ChangeCallback, LinkInv, Callback
  <1>6. CASE Poll
    BY <1>6, <1>q DEF Poll, mainVars, LinkInv, Prepared
  <1>7. CASE PollFails
    BY <1>7, <1>q DEF PollFails, mainVars, LinkInv, Prepared
  <1>8. CASE KernelMoves
    BY <1>8, <1>q DEF KernelMoves, KernelStep, KernelLink, KernelAddr, KernelRoute, KernelSets,
                      mainVars, LinkInv, Prepared
  <1>9. CASE UNCHANGED vars
    BY <1>9, <1>q DEF vars, mainVars, netlinkVars, LinkInv, Prepared
  <1> QED BY <1>q, <1>1, <1>2, <1>3, <1>4, <1>5, <1>6, <1>7, <1>8, <1>9
          DEF Next, MainStep, CacheThreadStep

\* Whatever is lost, late or repeated on the socket, what link subscribers hear
\* about each name is what LinkFeed allows: "up" and "down", "add" and "delete"
\* alternate, and no interface is operational that is not up.
THEOREM LinkFeedImplemented == Spec => LinkFeedSpec
  <1>1. Init => LinkInv /\ Feed!Init
    BY LinkInvInit
  <1>2. LinkInv /\ [Next]_vars => LinkInv' /\ [Feed!Next]_(Feed!vars)
    BY LinkInvStep
  <1> QED BY <1>1, <1>2, PTL DEF Spec, LinkFeedSpec, Feed!Spec

-----------------------------------------------------------------------------
(* The clones are current.                                                 *)

\* A walk either refreshes the clone or finds nothing to visit; afterwards only
\* a message can change the cache, and its callback refreshes the clone again.
Current(k) ==
    \/ clone[k] = CacheOf(k)
    \/ clone[k] = NoClone /\ \A o \in Objs(k) : live[o] = Absent
Walking(k) == main = <<"foreach", k>>
Walked(k) ==
    \/ main = <<"run", "all">>
    \/ k = "link" /\ main \in {<<"foreach", "addr">>, <<"foreach", "route">>}
    \/ k = "addr" /\ main = <<"foreach", "route">>
CloneStage(k) ==
    /\ Walked(k) => Current(k) \/ (pending # NoCallback /\ KindOf(pending.obj) = k)
    /\ Walking(k) => clone[k] = CacheOf(k) \/ (clone[k] = NoClone /\ ToVisit(k) \subseteq todo)
    /\ ~Walked(k) /\ ~Walking(k) => clone[k] = NoClone
CloneInv ==
    /\ pending # NoCallback => main = <<"run", "all">>
    /\ \A k \in Kind : CloneStage(k)

LEMMA ProcessClone ==
    ASSUME TypeOK, NEW o \in Obj, NEW v, NEW action, Process(action, o, v)
    PROVE  \A k \in Kind : clone'[k] = IF k = KindOf(o) THEN CacheOf(k) ELSE clone[k]
  <1>1. updateCloneConfig(KindOf(o))
    <2>1. CASE KindOf(o) = "link"
      BY <2>1 DEF Process, processlink_rtnl
    <2>2. CASE KindOf(o) = "addr"
      BY <2>2 DEF Process, processaddr_rtnl
    <2>3. CASE KindOf(o) = "route"
      BY <2>3 DEF Process, processroute_rtnl
    <2> QED BY <2>1, <2>2, <2>3, Kinds DEF Kind
  <1>2. clone = [k \in Kind |-> clone[k]]
    BY DEF TypeOK
  <1> QED BY <1>1, <1>2, Kinds DEF updateCloneConfig

LEMMA CloneSame ==
    ASSUME CloneInv, UNCHANGED <<clone, live, main, todo, pending>>
    PROVE  CloneInv'
  BY DEF CloneInv, CloneStage, Walked, Walking, Current, CacheOf, ToVisit

LEMMA CloneMainStep == TypeOK /\ CloneInv /\ MainStep => CloneInv'
  <1> SUFFICES ASSUME TypeOK, CloneInv, MainStep PROVE CloneInv'
    OBVIOUS
  <1>1. ASSUME NEW k \in Kind, AddCache(k) \/ (FillCache(k) /\ k # "addr") PROVE CloneInv'
    <2>1. /\ main[1] \in {"join", "refill"} /\ main'[1] \in {"join", "refill"}
          /\ UNCHANGED <<clone, pending>>
      BY <1>1 DEF AddCache, JoinGroups, FillCache, Refill, AfterRefill, Kind
    <2>2. \A j \in Kind : ~Walked(j) /\ ~Walking(j) /\ ~Walked(j)' /\ ~Walking(j)'
      BY <2>1 DEF Walked, Walking
    <2>3. pending = NoCallback
      BY <2>1 DEF CloneInv, CloneStage
    <2> QED BY <2>1, <2>2, <2>3 DEF CloneInv, CloneStage
  <1>2. ASSUME FillCache("addr") PROVE CloneInv'
    <2>1. main = <<"refill", "addr">> /\ main' = <<"foreach", "link">> /\ UNCHANGED <<clone, pending>>
      BY <1>2 DEF FillCache, Refill, AfterRefill
    <2>2. \A j \in Kind : ~Walked(j) /\ ~Walking(j) /\ ~Walked(j)' /\ (Walking(j)' <=> j = "link")
      BY <2>1 DEF Walked, Walking, Kind
    <2>3. pending = NoCallback /\ \A j \in Kind : clone[j] = NoClone
      BY <2>1, <2>2 DEF CloneInv, CloneStage
    <2>4. ToVisit("link")' \subseteq todo'
      <3>1. \A o \in Objs("link") : live'[o] = live[o]
        BY <1>2 DEF FillCache, Refill, Objs
      <3>2. todo' = ToVisit("link")
        BY <1>2, <2>1 DEF FillCache
      <3> QED BY <3>1, <3>2 DEF ToVisit
    <2> QED BY <2>1, <2>2, <2>3, <2>4 DEF CloneInv, CloneStage
  <1>3. ASSUME NEW k \in Kind, ForeachDone(k) PROVE CloneInv'
    <2>1. /\ Walking(k) /\ todo = {} /\ main' = AfterForeach[k]
          /\ UNCHANGED <<clone, live, pending>>
      BY <1>3 DEF ForeachDone, Walking, netlinkVars
    <2>2. Current(k)
      BY <2>1 DEF CloneInv, CloneStage, Current, ToVisit
    <2>3. pending = NoCallback
      BY <2>1 DEF CloneInv, CloneStage, Walking
    <2>4. \A j \in Kind : /\ Walked(j)' <=> Walked(j) \/ j = k
                          /\ Walking(j)' => ~Walked(j) /\ ~Walking(j) /\ todo' = ToVisit(j)
                          /\ ~Walked(j)' /\ ~Walking(j)' => ~Walked(j) /\ ~Walking(j)
      BY <1>3, <2>1 DEF ForeachDone, AfterForeach, Walked, Walking, Kind
    <2>5. \A j \in Kind : (Current(j)' <=> Current(j)) /\ ToVisit(j)' = ToVisit(j)
      BY <2>1 DEF Current, CacheOf, ToVisit
    <2>6. ASSUME NEW j \in Kind, Walked(j)' PROVE Current(j)'
      BY <2>2, <2>3, <2>4, <2>5, <2>6 DEF CloneInv, CloneStage
    <2>7. ASSUME NEW j \in Kind, Walking(j)' PROVE clone'[j] = NoClone /\ ToVisit(j)' \subseteq todo'
      BY <2>1, <2>4, <2>5, <2>7 DEF CloneInv, CloneStage
    <2>8. ASSUME NEW j \in Kind, ~Walked(j)', ~Walking(j)' PROVE clone'[j] = NoClone
      BY <2>1, <2>4, <2>8 DEF CloneInv, CloneStage
    <2>9. \A j \in Kind : CloneStage(j)'
      BY <2>6, <2>7, <2>8 DEF CloneStage
    <2> QED BY <2>1, <2>3, <2>9 DEF CloneInv
  <1>4. ASSUME NEW o \in Obj, InitCallback(o) PROVE CloneInv'
    <2>1. Walking(KindOf(o)) /\ UNCHANGED <<live, main, pending>>
      BY <1>4 DEF InitCallback, Walking, netlinkVars
    <2>2. \A k \in Kind : clone'[k] = IF k = KindOf(o) THEN CacheOf(k) ELSE clone[k]
      BY <1>4, ProcessClone DEF InitCallback
    <2>3. pending = NoCallback
      BY <2>1 DEF CloneInv, CloneStage, Walking
    <2>4. \A k \in Kind : /\ Walked(k)' <=> Walked(k)
                          /\ Walking(k)' <=> k = KindOf(o)
                          /\ Walking(k) <=> k = KindOf(o)
                          /\ CacheOf(k)' = CacheOf(k)
      BY <2>1, Kinds DEF Walked, Walking, CacheOf
    <2>5. \A k \in Kind : k # KindOf(o) => (Current(k)' <=> Current(k))
      BY <2>1, <2>2, <2>4 DEF Current
    <2>6. \A k \in Kind : Walked(k) => k # KindOf(o)
      BY <2>1 DEF Walked, Walking
    <2>7. ASSUME NEW k \in Kind, Walked(k)' PROVE Current(k)'
      BY <2>3, <2>4, <2>5, <2>6, <2>7 DEF CloneInv, CloneStage
    <2>8. ASSUME NEW k \in Kind, Walking(k)' PROVE clone'[k] = CacheOf(k)'
      BY <2>2, <2>4, <2>8
    <2>9. ASSUME NEW k \in Kind, ~Walked(k)', ~Walking(k)' PROVE clone'[k] = NoClone
      BY <2>2, <2>4, <2>9 DEF CloneInv, CloneStage
    <2>10. \A k \in Kind : CloneStage(k)'
      BY <2>7, <2>8, <2>9 DEF CloneStage
    <2> QED BY <2>1, <2>3, <2>10 DEF CloneInv
  <1>5. ASSUME NEW k \in Kind, FillCache(k) PROVE CloneInv'
    BY <1>1, <1>2, <1>5
  <1> QED BY <1>1, <1>3, <1>4, <1>5 DEF MainStep

LEMMA ClonePoll == TypeOK /\ CloneInv /\ Poll => CloneInv'
  <1> SUFFICES ASSUME TypeOK, CloneInv, Poll PROVE CloneInv'
    OBVIOUS
  <1> DEFINE o == Head(queue).obj
             new == Head(queue).val
  <1>1. o \in Obj /\ Table(live)
    BY HeadTailProperties DEF TypeOK, NetlinkTypeOK, Poll, Include, Message
  <1>2. main = <<"run", "all">> /\ UNCHANGED <<clone, main>> /\ pending = NoCallback
    BY DEF Poll, Include, mainVars
  <1>3. \A k \in Kind : Walked(k) /\ Walked(k)' /\ ~Walking(k)' /\ Current(k)
    <2>1. \A k \in Kind : Walked(k) /\ Walked(k)' /\ ~Walking(k)'
      BY <1>2 DEF Walked, Walking
    <2> QED BY <1>2, <2>1 DEF CloneInv, CloneStage
  <1>4. CASE live[o] = new
    <2>1. UNCHANGED <<live, pending>>
      BY <1>1, <1>2, <1>4 DEF Poll, Include, Table
    <2> QED BY <1>2, <1>3, <2>1 DEF CloneInv, CloneStage, Current, CacheOf
  <1>5. CASE live[o] # new
    <2>1. pending'.obj = o /\ pending' # NoCallback
      BY <1>5, IncludeCallback, MarkersAssumption DEF Poll, TypeOK
    <2>2. ASSUME NEW k \in Kind, k # KindOf(o) PROVE Current(k)'
      <3>1. \A p \in Objs(k) : live'[p] = live[p]
        BY <1>1, <2>2 DEF Poll, Include, Table, Objs
      <3> QED BY <1>2, <1>3, <3>1 DEF Current, CacheOf
    <2>3. \A k \in Kind : CloneStage(k)'
      BY <1>3, <2>1, <2>2 DEF CloneStage
    <2> QED BY <1>2, <2>3 DEF CloneInv
  <1> QED BY <1>4, <1>5

LEMMA CloneCallback == TypeOK /\ CloneInv /\ ChangeCallback => CloneInv'
  <1> SUFFICES ASSUME TypeOK, CloneInv, ChangeCallback PROVE CloneInv'
    OBVIOUS
  <1>1. pending.obj \in Obj /\ pending' = NoCallback /\ UNCHANGED <<live, main>>
    BY DEF ChangeCallback, mainVars, TypeOK, NetlinkTypeOK, Callback
  <1>2. \A k \in Kind : clone'[k] = IF k = KindOf(pending.obj) THEN CacheOf(k) ELSE clone[k]
    BY <1>1, ProcessClone DEF ChangeCallback
  <1>3. \A k \in Kind : Walked(k) /\ Walked(k)' /\ ~Walking(k)' /\ CacheOf(k)' = CacheOf(k)
    BY <1>1 DEF ChangeCallback, CloneInv, CloneStage, Walked, Walking, CacheOf
  <1>4. \A k \in Kind : Current(k)'
    BY <1>1, <1>2, <1>3 DEF CloneInv, CloneStage, Current
  <1>5. \A k \in Kind : CloneStage(k)'
    BY <1>3, <1>4 DEF CloneStage
  <1> QED BY <1>1, <1>5 DEF CloneInv

LEMMA CloneInvStep == TypeOK /\ CloneInv /\ [Next]_vars => CloneInv'
  <1> SUFFICES ASSUME TypeOK, CloneInv, [Next]_vars PROVE CloneInv'
    OBVIOUS
  <1>1. CASE KernelMoves
    BY <1>1, CloneSame DEF KernelMoves, KernelStep, KernelLink, KernelAddr, KernelRoute, KernelSets,
                           mainVars
  <1>2. CASE PollFails
    BY <1>2, CloneSame DEF PollFails, mainVars
  <1>3. CASE UNCHANGED vars
    BY <1>3, CloneSame DEF vars, mainVars, netlinkVars
  <1> QED BY <1>1, <1>2, <1>3, CloneMainStep, ClonePoll, CloneCallback DEF Next, CacheThreadStep

LEMMA CloneInvInit == Init => CloneInv
  <1> SUFFICES ASSUME Init PROVE CloneInv
    OBVIOUS
  <1>1. pending = NoCallback
    BY DEF Init, NetlinkInit
  <1>2. \A k \in Kind : clone[k] = NoClone /\ ~Walked(k) /\ ~Walking(k)
    BY DEF Init, Walked, Walking
  <1> QED BY <1>1, <1>2 DEF CloneInv, CloneStage

\* After initialize() the query interface reads what the caches hold whenever
\* no callback is under way, however many messages were lost.
THEOREM ClonesAreCurrent == Spec => []CloneIsCurrent
  <1>1. TypeOK /\ CloneInv => CloneIsCurrent
    BY DEF CloneInv, CloneStage, CloneIsCurrent, Initialized, Walked, Current
  <1>2. TypeOK /\ CloneInv /\ [Next]_vars => TypeOK' /\ CloneInv'
    BY CloneInvStep, MainStepType, CacheThreadStepType, KernelMovesType, StutterType DEF Next
  <1> QED BY <1>1, <1>2, InitType, CloneInvInit, PTL DEF Spec
=================================================================================
