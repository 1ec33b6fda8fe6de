-------------------------------- MODULE FeedProofs --------------------------------
(* What link, address and route subscribers are told, for any tables,      *)
(* queue length and numbers of lost messages.                              *)
EXTENDS NetLinkIfcProofs

-----------------------------------------------------------------------------
(* Where the state machine is, and what a callback under way is about.     *)

Order ==
    /\ main[1] \in {"join", "refill"} => m_state = "INIT"
    /\ main = <<"foreach", "link">> => m_state = "POPULATE_IFC"
    /\ main = <<"foreach", "addr">> => m_state = "POPULATE_ADDRESS"
    /\ main \in {<<"foreach", "route">>, <<"run", "all">>} => m_state = "RUNNING"

\* The cache already shows what the callback will tell.
PendingInv ==
    pending # NoCallback =>
        live[pending.obj] = IF pending.action = "delete" THEN Absent ELSE pending.val

BaseInv == TypeOK /\ CloneInv /\ Order /\ PendingInv

LEMMA BaseInit == Init => BaseInv
  <1> SUFFICES ASSUME Init PROVE BaseInv
    OBVIOUS
  <1>1. main = <<"join", "link">> /\ m_state = "INIT" /\ pending = NoCallback
    BY DEF Init, NetlinkInit
  <1> QED BY <1>1, InitType, CloneInvInit DEF BaseInv, Order, PendingInv

LEMMA OrderStep == TypeOK /\ Order /\ [Next]_vars => Order'
  <1> SUFFICES ASSUME TypeOK, Order, [Next]_vars PROVE Order'
    OBVIOUS
  <1>1. CASE UNCHANGED <<main, m_state>>
    BY <1>1 DEF Order
  <1>2. ASSUME NEW k \in Kind, AddCache(k) PROVE Order'
    BY <1>2 DEF AddCache, Order
  <1>3. ASSUME NEW k \in Kind, FillCache(k) PROVE Order'
    BY <1>3 DEF FillCache, AfterRefill, Kind, Order
  <1>4. ASSUME NEW k \in Kind, ForeachDone(k) PROVE Order'
    BY <1>4 DEF ForeachDone, AfterForeach, Handled, stateMachine, Kind, Order
  <1>5. CASE KernelMoves \/ CacheThreadStep \/ UNCHANGED vars
    BY <1>1, <1>5 DEF KernelMoves, CacheThreadStep, Poll, PollFails, ChangeCallback, mainVars, vars
  <1>6. ASSUME NEW o \in Obj, InitCallback(o) PROVE Order'
    BY <1>1, <1>6 DEF InitCallback
  <1> QED BY <1>2, <1>3, <1>4, <1>5, <1>6 DEF Next, MainStep

\* What a message taken from the queue does to its cache.
LEMMA PollPending ==
    ASSUME BaseInv, Poll
    PROVE  \E o \in Obj :
               /\ \A p \in Obj : p # o => live'[p] = live[p]
               /\ live[o] \in ValOf(o) \cup {Absent} /\ live'[o] \in ValOf(o) \cup {Absent}
               /\ \/ pending' = NoCallback /\ live'[o] = live[o]
                  \/ /\ pending' # NoCallback /\ pending'.obj = o /\ pending' \in Callback
                     /\ pending'.action = IF live[o] = Absent THEN "add"
                                          ELSE IF live'[o] = Absent THEN "delete" ELSE "change"
                     /\ pending'.val = IF live'[o] = Absent THEN live[o] ELSE live'[o]
  <1> DEFINE o == Head(queue).obj
             new == Head(queue).val
  <1>1. Include /\ NetlinkTypeOK
    BY DEF Poll, BaseInv, TypeOK
  <1>2. o \in Obj /\ new \in ValOf(o) \cup {Absent} /\ live[o] \in ValOf(o) \cup {Absent}
    BY <1>1, IncludeHead
  <1>3. \A p \in Obj : live'[p] = IF p = o THEN new ELSE live[p]
    BY <1>1, <1>2 DEF Include, NetlinkTypeOK, Table
  <1>4. CASE live[o] = new
    <2>1. pending' = NoCallback
      BY <1>1, <1>4 DEF Include
    <2> QED BY <1>2, <1>3, <1>4, <2>1
  <1>5. CASE live[o] # new
    <2>1. pending' \in Callback /\ pending'.obj = o /\ pending' # NoCallback
      BY <1>1, <1>5, IncludeCallback, MarkersAssumption
    <2>2. pending' = [obj |-> o,
                      action |-> IF live[o] = Absent THEN "add"
                                 ELSE IF new = Absent THEN "delete" ELSE "change",
                      val |-> IF new = Absent THEN live[o] ELSE new]
      BY <1>1, <1>5 DEF Include
    <2> HIDE DEF o, new
    <2>3. /\ pending'.action = IF live[o] = Absent THEN "add" ELSE IF new = Absent THEN "delete" ELSE "change"
          /\ pending'.val = IF new = Absent THEN live[o] ELSE new
      BY <2>2
    <2> QED BY <1>2, <1>3, <2>1, <2>3
  <1> QED BY <1>4, <1>5

LEMMA BaseStep == BaseInv /\ [Next]_vars => BaseInv'
  <1> SUFFICES ASSUME BaseInv, [Next]_vars PROVE BaseInv'
    OBVIOUS
  <1>1. TypeOK' /\ CloneInv' /\ Order'
    BY OrderStep, CloneInvStep, MainStepType, CacheThreadStepType, KernelMovesType, StutterType
       DEF BaseInv, Next
  <1> SUFFICES PendingInv'
    BY <1>1 DEF BaseInv
  <1>2. CASE UNCHANGED <<live, pending>>
    BY <1>2 DEF BaseInv, PendingInv
  <1>3. CASE pending' = NoCallback
    BY <1>3 DEF PendingInv
  <1>4. CASE Poll
    <2>1. Absent \notin Value /\ \A o \in Obj : ValOf(o) \subseteq Value
      BY Kinds, MarkersAssumption
    <2> QED BY <1>4, <2>1, PollPending DEF PendingInv
  <1>5. CASE KernelMoves
    BY <1>2, <1>5 DEF KernelMoves, KernelStep, KernelLink, KernelAddr, KernelRoute, KernelSets
  <1>6. CASE PollFails \/ ChangeCallback
    BY <1>2, <1>3, <1>6 DEF PollFails, ChangeCallback
  <1>7. CASE MainStep
    <2>1. main # <<"run", "all">>
      BY <1>7 DEF MainStep, AddCache, FillCache, InitCallback, ForeachDone
    <2>2. pending = NoCallback /\ UNCHANGED pending
      BY <1>7, <2>1 DEF MainStep, AddCache, JoinGroups, FillCache, Refill, InitCallback, ForeachDone,
                        netlinkVars, BaseInv, CloneInv
    <2> QED BY <1>3, <2>2
  <1>8. CASE UNCHANGED vars
    BY <1>2, <1>8 DEF vars, netlinkVars
  <1> QED BY <1>2, <1>3, <1>4, <1>5, <1>6, <1>7, <1>8 DEF Next, CacheThreadStep

-----------------------------------------------------------------------------
(* The address feed.                                                       *)

InClone(a) == clone["addr"] # NoClone /\ clone["addr"][a] # Absent

\* The walk of the addresses has been past a.
Past(a) ==
    main \in {<<"foreach", "route">>, <<"run", "all">>} \/ (main = <<"foreach", "addr">> /\ a \notin todo)

\* AddrFeedMatchesClone is not inductive: while a callback is under way the clone is
\* behind the cache for its object alone, and nothing is taken back before run().
AddrInv ==
    \A a \in Addr :
        /\ addrSaid[a] = "add" => InClone(a)
        /\ addrSaid[a] = "delete" => ~InClone(a) /\ Initialized
        /\ Past(a) /\ InClone(a) => addrSaid[a] \in {"add", "ignored"}
        /\ ~Past(a) => addrSaid[a] = "none"
        /\ pending # NoCallback =>
              InClone(a) <=> IF pending.obj = a THEN pending.action # "add" ELSE live[a] # Absent

LEMMA AddrsAreObjects ==
    /\ Objs("addr") = Addr /\ Addr \subseteq Obj
    /\ \A a \in Addr : Absent \notin ValOf(a)
    /\ \A a \in Addr : KindOf(a) = "addr"
  BY Kinds, MarkersAssumption DEF Objs, Obj

LEMMA CachesAreNotMissing == ASSUME TypeOK PROVE \A k \in Kind : CacheOf(k) # NoClone
  <1> SUFFICES ASSUME NEW k \in Kind PROVE CacheOf(k) # NoClone
    OBVIOUS
  <1>1. \A o \in Objs(k) : live[o] \in Value \cup {Absent}
    BY Kinds DEF TypeOK, NetlinkTypeOK, Table, Objs
  <1>2. CacheOf(k) \in [Objs(k) -> Value \cup {Absent}]
    BY <1>1 DEF CacheOf
  <1> QED BY <1>2, RoutesAssumption

\* A refreshed clone shows what the cache holds.
LEMMA RefreshedAddrs ==
    ASSUME TypeOK, clone["addr"] = CacheOf("addr")
    PROVE  \A a \in Addr : InClone(a) <=> live[a] # Absent
  BY CachesAreNotMissing, AddrsAreObjects DEF InClone, CacheOf, Kind

LEMMA CurrentAddrs ==
    ASSUME BaseInv, main \in {<<"foreach", "route">>, <<"run", "all">>}, pending = NoCallback
    PROVE  \A a \in Addr : InClone(a) <=> live[a] # Absent
  <1>1. Current("addr")
    BY DEF BaseInv, CloneInv, CloneStage, Walked, Kind
  <1> QED BY <1>1, RefreshedAddrs, AddrsAreObjects DEF Current, InClone, BaseInv

LEMMA AddrSame ==
    ASSUME AddrInv, UNCHANGED <<clone, addrSaid, main, todo>>,
           pending' = NoCallback \/ UNCHANGED <<pending, live>>
    PROVE  AddrInv'
  BY DEF AddrInv, InClone, Past, Initialized

\* A handler publishes an address that is new to the clone, or one that is gone.
LEMMA AddrHandled ==
    ASSUME TypeOK, TypeOK', NEW o \in Obj, NEW v, NEW action \in {"add", "change", "delete"},
           Process(action, o, v), UNCHANGED live,
           o \in Addr /\ action # "change" => Handled(AddrEvent(action, o))
    PROVE  /\ o \notin Addr => UNCHANGED <<clone["addr"], addrSaid>>
           /\ o \in Addr =>
                /\ \A a \in Addr : InClone(a)' <=> live[a] # Absent
                /\ \A a \in Addr : a # o => addrSaid'[a] = addrSaid[a]
                /\ action = "change" => addrSaid'[o] = addrSaid[o]
                /\ action # "change" => addrSaid'[o] \in {action, "ignored"}
  <1>c. \A k \in Kind : clone'[k] = IF k = KindOf(o) THEN CacheOf(k) ELSE clone[k]
    BY ProcessClone
  <1>1. ASSUME o \notin Addr PROVE UNCHANGED <<clone["addr"], addrSaid>>
    <2>1. KindOf(o) # "addr" /\ KindOf(o) \in Kind
      BY <1>1, Kinds
    <2>2. UNCHANGED addrSaid
      BY <2>1 DEF Process, processlink_rtnl, processroute_rtnl, Kind
    <2> QED BY <1>c, <2>1, <2>2 DEF Kind
  <1>2. ASSUME o \in Addr
        PROVE  /\ \A a \in Addr : InClone(a)' <=> live[a] # Absent
               /\ \A a \in Addr : a # o => addrSaid'[a] = addrSaid[a]
               /\ action = "change" => addrSaid'[o] = addrSaid[o]
               /\ action # "change" => addrSaid'[o] \in {action, "ignored"}
    <2>1. KindOf(o) = "addr" /\ processaddr_rtnl(action, o)
      BY <1>2, AddrsAreObjects DEF Process
    <2>2. clone'["addr"] = CacheOf("addr")'
      BY <1>c, <2>1 DEF Kind, CacheOf
    <2>3. \A a \in Addr : InClone(a)' <=> live'[a] # Absent
      <3>1. CacheOf("addr")' # NoClone
        BY CachesAreNotMissing, <2>2 DEF Kind, CacheOf, TypeOK
      <3> QED BY <2>2, <3>1, AddrsAreObjects DEF InClone, CacheOf
    <2>4. addrSaid \in [Addr -> {"none", "add", "delete", "ignored"}]
      BY DEF TypeOK
    <2>5. CASE action = "change"
      BY <2>1, <2>3, <2>5 DEF processaddr_rtnl
    <2>6. CASE action # "change"
      <3>1. PublishAddr(o, action)
        BY <1>2, <2>1, <2>6 DEF processaddr_rtnl
      <3> QED BY <1>2, <2>3, <2>4, <2>6, <3>1 DEF PublishAddr
    <2> QED BY <2>5, <2>6
  <1> QED BY <1>1, <1>2

LEMMA AddrInitCallback ==
    ASSUME BaseInv, BaseInv', AddrInv, NEW o \in Obj, InitCallback(o)
    PROVE  AddrInv'
  <1>1. /\ main = <<"foreach", KindOf(o)>> /\ o \in todo /\ todo' = todo \ {o} /\ Process("add", o, live[o])
        /\ UNCHANGED <<live, pending, main, m_state>>
    BY DEF InitCallback, netlinkVars
  <1>2. pending = NoCallback /\ ~Initialized
    BY <1>1 DEF BaseInv, CloneInv, Initialized
  <1>3. o \in Addr => Handled(AddrEvent("add", o))
    BY <1>1, AddrsAreObjects DEF BaseInv, Order, Handled, AddrEvent, stateMachine, AddAddrEvents
  <1>4. /\ o \notin Addr => UNCHANGED <<clone["addr"], addrSaid>>
        /\ o \in Addr =>
             /\ \A a \in Addr : InClone(a)' <=> live[a] # Absent
             /\ \A a \in Addr : a # o => addrSaid'[a] = addrSaid[a]
             /\ addrSaid'[o] \in {"add", "ignored"}
    BY <1>1, <1>3, AddrHandled DEF BaseInv
  <1>5. CASE o \notin Addr
    <2>1. \A a \in Addr : (InClone(a)' <=> InClone(a)) /\ (Past(a)' <=> Past(a))
      BY <1>1, <1>4, <1>5 DEF InClone, Past
    <2> QED BY <1>1, <1>2, <1>4, <1>5, <2>1 DEF AddrInv, Initialized
  <1>6. CASE o \in Addr
    <2>1. main = <<"foreach", "addr">> /\ live[o] # Absent
      BY <1>1, <1>6, AddrsAreObjects DEF BaseInv, TypeOK
    <2>2. clone["addr"] = CacheOf("addr") \/ (clone["addr"] = NoClone /\ ToVisit("addr") \subseteq todo)
      BY <2>1 DEF BaseInv, CloneInv, CloneStage, Walking, Kind
    <2>3. \A a \in Addr : InClone(a) => live[a] # Absent
      BY <2>2, RefreshedAddrs DEF InClone, BaseInv
    <2>4. \A a \in Addr : a # o /\ a \notin todo /\ live[a] # Absent => InClone(a)
      BY <2>2, RefreshedAddrs, AddrsAreObjects DEF ToVisit, BaseInv
    <2> QED BY <1>1, <1>2, <1>4, <1>6, <2>1, <2>3, <2>4 DEF AddrInv, Past, Initialized
  <1> QED BY <1>5, <1>6

LEMMA AddrForeachDone ==
    ASSUME BaseInv, BaseInv', AddrInv, NEW k \in Kind, ForeachDone(k)
    PROVE  AddrInv'
  <1>1. /\ main = <<"foreach", k>> /\ todo = {} /\ main' = AfterForeach[k]
        /\ UNCHANGED <<clone, addrSaid, live, pending>>
    BY DEF ForeachDone, netlinkVars
  <1>2. pending = NoCallback /\ ~Initialized
    BY <1>1 DEF BaseInv, CloneInv, Initialized
  <1>3. \A a \in Addr : InClone(a)' <=> InClone(a)
    BY <1>1 DEF InClone
  <1>4. CASE k = "link"
    <2>1. clone["addr"] = NoClone
      BY <1>1, <1>4 DEF BaseInv, CloneInv, CloneStage, Walked, Walking, Kind
    <2>2. \A a \in Addr : ~Past(a)
      BY <1>1, <1>4 DEF Past
    <2> QED BY <1>1, <1>2, <1>3, <2>1, <2>2 DEF AddrInv, InClone, Initialized
  <1>5. CASE k # "link"
    <2>1. \A a \in Addr : Past(a) /\ Past(a)'
      BY <1>1, <1>5 DEF Past, Kind, AfterForeach
    <2> QED BY <1>1, <1>2, <1>3, <2>1 DEF AddrInv, Initialized
  <1> QED BY <1>4, <1>5

LEMMA AddrPoll == ASSUME BaseInv, AddrInv, Poll PROVE AddrInv'
  <1>1. main = <<"run", "all">> /\ pending = NoCallback /\ UNCHANGED <<clone, addrSaid, main, todo>>
    BY DEF Poll, Include, mainVars
  <1>2. \A a \in Addr : InClone(a) <=> live[a] # Absent
    BY <1>1, CurrentAddrs
  <1>3. \A a \in Addr : (InClone(a)' <=> InClone(a)) /\ (Past(a)' <=> Past(a))
    BY <1>1 DEF InClone, Past
  <1>4. \A a \in Addr : pending' # NoCallback =>
            (InClone(a) <=> IF pending'.obj = a THEN pending'.action # "add" ELSE live'[a] # Absent)
    BY <1>2, PollPending, AddrsAreObjects
  <1> QED BY <1>1, <1>3, <1>4 DEF AddrInv, Initialized

LEMMA AddrCallback ==
    ASSUME BaseInv, BaseInv', AddrInv, ChangeCallback
    PROVE  AddrInv'
  <1> DEFINE o == pending.obj
             action == pending.action
  <1>1. /\ pending # NoCallback /\ pending \in Callback /\ Process(action, o, pending.val)
        /\ pending' = NoCallback /\ UNCHANGED <<live, main, todo, m_state>>
    BY DEF ChangeCallback, mainVars, BaseInv, TypeOK, NetlinkTypeOK
  <1>2. o \in Obj /\ action \in {"add", "change", "delete"} /\ pending.val \in ValOf(o)
    BY <1>1 DEF Callback
  <1>3. main = <<"run", "all">> /\ m_state = "RUNNING" /\ Initialized
    BY <1>1 DEF BaseInv, CloneInv, Order, Initialized
  <1>4. o \in Addr => Handled(AddrEvent(action, o))
    BY <1>3 DEF Handled, AddrEvent, stateMachine, AddAddrEvents, DeleteAddrEvents
  <1>5. /\ o \notin Addr => UNCHANGED <<clone["addr"], addrSaid>>
        /\ o \in Addr =>
             /\ \A a \in Addr : InClone(a)' <=> live[a] # Absent
             /\ \A a \in Addr : a # o => addrSaid'[a] = addrSaid[a]
             /\ action = "change" => addrSaid'[o] = addrSaid[o]
             /\ action # "change" => addrSaid'[o] \in {action, "ignored"}
    BY <1>1, <1>2, <1>4, AddrHandled DEF BaseInv
  <1>6. \A a \in Addr : Past(a) /\ Past(a)'
    BY <1>1, <1>3 DEF Past
  <1>7. o \in Addr => (live[o] = Absent <=> action = "delete")
    BY <1>1, <1>2, AddrsAreObjects DEF BaseInv, PendingInv
  <1> HIDE DEF o, action
  <1>8. CASE o \notin Addr
    <2>1. \A a \in Addr : InClone(a)' <=> InClone(a)
      BY <1>5, <1>8 DEF InClone
    <2> QED BY <1>1, <1>3, <1>5, <1>6, <1>8, <2>1 DEF AddrInv, Initialized
  <1>9. CASE o \in Addr
    <2>1. \A a \in Addr : a # o => (InClone(a)' <=> InClone(a))
      BY <1>1, <1>5, <1>9 DEF AddrInv, o
    <2>2. ASSUME NEW a \in Addr, a = o, action = "change" PROVE InClone(a) /\ InClone(a)'
      <3>1. InClone(a) <=> action # "add"
        BY <1>1, <2>2 DEF AddrInv, o, action
      <3>2. live[o] # Absent
        BY <1>7, <1>9, <2>2
      <3> QED BY <1>5, <1>9, <2>2, <3>1, <3>2
    <2>3. ASSUME NEW a \in Addr
          PROVE  /\ addrSaid'[a] = "add" => InClone(a)'
                 /\ addrSaid'[a] = "delete" => ~InClone(a)'
                 /\ InClone(a)' => addrSaid'[a] \in {"add", "ignored"}
      <3>1. CASE a # o
        BY <1>5, <1>6, <1>9, <2>1, <3>1 DEF AddrInv
      <3>2. CASE a = o /\ action = "change"
        <4>1. addrSaid'[a] = addrSaid[a] /\ InClone(a) /\ InClone(a)' /\ Past(a)
          BY <1>5, <1>6, <1>9, <2>2, <3>2
        <4> QED BY <4>1 DEF AddrInv
      <3>3. CASE a = o /\ action # "change"
        BY <1>2, <1>5, <1>7, <1>9, <3>3
      <3> QED BY <3>1, <3>2, <3>3
    <2> QED BY <1>1, <1>3, <1>6, <2>3 DEF AddrInv, Initialized
  <1> QED BY <1>8, <1>9

LEMMA AddrInvStep == BaseInv /\ AddrInv /\ [Next]_vars => AddrInv'
  <1> SUFFICES ASSUME BaseInv, AddrInv, [Next]_vars PROVE AddrInv'
    OBVIOUS
  <1>b. BaseInv'
    BY BaseStep
  <1>1. ASSUME NEW k \in Kind, AddCache(k) \/ FillCache(k) PROVE AddrInv'
    <2>1. /\ main[1] \in {"join", "refill"} /\ UNCHANGED <<clone, addrSaid, pending>>
          /\ main'[1] \in {"join", "refill"} \/ main' = <<"foreach", "link">>
      BY <1>1 DEF AddCache, JoinGroups, FillCache, Refill, AfterRefill, Kind
    <2>2. clone["addr"] = NoClone /\ pending = NoCallback
      BY <2>1 DEF BaseInv, CloneInv, CloneStage, Walked, Walking, Kind
    <2> QED BY <2>1, <2>2 DEF AddrInv, InClone, Initialized, Past
  <1>2. ASSUME NEW k \in Kind, ForeachDone(k) PROVE AddrInv'
    BY <1>b, <1>2, AddrForeachDone
  <1>3. ASSUME NEW o \in Obj, InitCallback(o) PROVE AddrInv'
    BY <1>b, <1>3, AddrInitCallback
  <1>4. CASE KernelMoves \/ PollFails \/ UNCHANGED vars
    BY <1>4, AddrSame DEF KernelMoves, KernelStep, KernelLink, KernelAddr, KernelRoute, KernelSets, PollFails,
                          mainVars, vars, netlinkVars
  <1>5. CASE Poll \/ ChangeCallback
    BY <1>b, <1>5, AddrPoll, AddrCallback
  <1> QED BY <1>1, <1>2, <1>3, <1>4, <1>5 DEF Next, MainStep, CacheThreadStep

LEMMA AddrInvInit == Init => AddrInv
  <1> SUFFICES ASSUME Init PROVE AddrInv
    OBVIOUS
  <1>1. main = <<"join", "link">> /\ pending = NoCallback /\ \A a \in Addr : addrSaid[a] = "none" /\ ~Past(a)
    BY DEF Init, NetlinkInit, Past
  <1> QED BY <1>1 DEF AddrInv

\* However many messages are lost, what NlType::address subscribers were told and
\* what getIpaddr answers agree at every moment.
THEOREM AddrFeedTrue == Spec => []AddrFeedMatchesClone
  <1>1. AddrInv => AddrFeedMatchesClone
    BY DEF AddrInv, AddrFeedMatchesClone, InClone, Past, Initialized
  <1> QED BY <1>1, BaseInit, BaseStep, AddrInvInit, AddrInvStep, PTL DEF Spec

LEMMA AddrTurns ==
    ASSUME BaseInv, AddrInv, NEW a \in Addr
    PROVE  /\ InitCallback(a) => addrSaid[a] = "none"
           /\ ChangeCallback /\ pending.obj = a =>
                 /\ pending.action = "add" => addrSaid[a] # "add"
                 /\ pending.action = "delete" => addrSaid[a] \in {"add", "ignored"}
  <1>1. InitCallback(a) => ~Past(a)
    BY AddrsAreObjects DEF InitCallback, Past
  <1>2. ChangeCallback => pending # NoCallback /\ Past(a)
    BY DEF ChangeCallback, BaseInv, CloneInv, Past
  <1> QED BY <1>1, <1>2 DEF AddrInv

\* However many messages are lost, what NlType::address subscribers hear of an address
\* alternates, so a script need not remember it.
THEOREM AddrMessagesInTurn == Spec => AddrMessagesAlternate
  <1> DEFINE InTurn == \A a \in Addr :
                 /\ InitCallback(a) => addrSaid[a] = "none"
                 /\ ChangeCallback /\ pending.obj = a =>
                       /\ pending.action = "add" => addrSaid[a] # "add"
                       /\ pending.action = "delete" => addrSaid[a] \in {"add", "ignored"}
  <1>1. BaseInv /\ AddrInv => [InTurn]_vars
    BY AddrTurns
  <1> QED BY <1>1, BaseInit, BaseStep, AddrInvInit, AddrInvStep, PTL DEF Spec, AddrMessagesAlternate

-----------------------------------------------------------------------------
(* The two route feeds.                                                    *)

\* initialize() has not been at r yet.
Unheard(r) ==
    \/ main[1] \in {"join", "refill"}
    \/ main \in {<<"foreach", "link">>, <<"foreach", "addr">>}
    \/ main = <<"foreach", "route">> /\ r \in todo

\* Subscribers were told that r has the value v.
Told(r, v) ==
    /\ v = Absent => routeSaid[r].op # "add"
    /\ v # Absent => routeSaid[r].op = "add" /\ routeSaid[r].gw = v
    /\ r \in DefaultDst /\ v \in Gateway => dfltSaid[r].op = "add" /\ dfltSaid[r].gw = v
    /\ dfltSaid[r].op = "add" /\ dfltSaid[r].gw # v
          => routeSaid[r].op # "none" /\ routeSaid[r].gw = NoGateway

\* What a callback under way is going to correct.
ToldBefore(r) ==
    /\ pending.action = "add" => Told(r, Absent)
    /\ pending.action = "delete" => Told(r, pending.val)

Mute(r) == routeSaid[r] = Silent /\ dfltSaid[r] = Silent

RouteInv ==
    \A r \in Route :
        /\ OnLink[r] = NoLink \/ Unheard(r) => Mute(r)
        /\ r \notin DefaultDst => dfltSaid[r] = Silent
        /\ OnLink[r] # NoLink /\ ~Unheard(r) =>
              IF pending # NoCallback /\ pending.obj = r THEN ToldBefore(r) ELSE Told(r, live[r])

LEMMA RoutesAreObjects ==
    /\ Objs("route") = Route /\ Route \subseteq Obj
    /\ \A r \in Route : KindOf(r) = "route" /\ ValOf(r) \subseteq RouteVal /\ Absent \notin ValOf(r)
    /\ Absent \notin RouteVal /\ NoGateway \notin Gateway /\ RouteVal = Gateway \cup {NoGateway}
  BY Kinds, MarkersAssumption DEF Objs, Obj, Value, RouteVal

LEMMA MuteIsTold == ASSUME NEW r \in Route, Mute(r) PROVE Told(r, Absent)
  BY RoutesAreObjects, MarkersAssumption DEF Mute, Silent, Told, RouteVal, Value

\* The handler leaves the other routes alone and tells of the new value.
LEMMA RouteHandled ==
    ASSUME TypeOK, NEW r \in Route, NEW gw \in RouteVal, NEW action \in {"add", "change", "delete"},
           processroute_rtnl(action, r, gw), m_state = "RUNNING",
           r \notin DefaultDst => dfltSaid[r] = Silent, OnLink[r] = NoLink => Mute(r),
           action = "delete" /\ OnLink[r] # NoLink => Told(r, gw)
    PROVE  /\ \A q \in Route : q # r => routeSaid'[q] = routeSaid[q] /\ dfltSaid'[q] = dfltSaid[q]
           /\ r \notin DefaultDst => dfltSaid'[r] = Silent
           /\ OnLink[r] = NoLink => Mute(r)'
           /\ OnLink[r] # NoLink => IF action = "delete" THEN Told(r, Absent)' ELSE Told(r, gw)'
           /\ dfltSaid'[r] # dfltSaid[r] /\ dfltSaid'[r].op = "delete"
                 => dfltSaid[r].op = "add" /\ dfltSaid[r].gw = dfltSaid'[r].gw
  <1> DEFINE oper == IF action = "delete" THEN "delete" ELSE "add"
             msg == [op |-> oper, gw |-> gw, named |-> Named(r)]
  <1>1. msg.op = oper /\ msg.gw = gw
    OBVIOUS
  <1>2. routeSaid \in [Route -> RouteMsg] /\ dfltSaid \in [Route -> RouteMsg]
    BY DEF TypeOK
  <1>3. Handled(IF oper = "add" THEN "ADD_IPROUTE" ELSE "DELETE_IPROUTE")
    BY DEF Handled, stateMachine, RouteEvents
  <1>4. /\ dfltSaid' = IF OnLink[r] # NoLink /\ gw # NoGateway /\ r \in DefaultDst
                       THEN [dfltSaid EXCEPT ![r] = msg] ELSE dfltSaid
        /\ routeSaid' = IF OnLink[r] # NoLink THEN [routeSaid EXCEPT ![r] = msg] ELSE routeSaid
    BY <1>3 DEF processroute_rtnl, PublishRoute
  <1> HIDE DEF msg
  <1>5. \A q \in Route : q # r => routeSaid'[q] = routeSaid[q] /\ dfltSaid'[q] = dfltSaid[q]
    BY <1>2, <1>4
  <1>6. /\ OnLink[r] = NoLink => Mute(r)'
        /\ r \notin DefaultDst => dfltSaid'[r] = Silent
    BY <1>4 DEF Mute
  <1>7. CASE OnLink[r] # NoLink
    <2>1. routeSaid'[r] = msg
      BY <1>2, <1>4, <1>7
    <2>2. CASE gw # NoGateway /\ r \in DefaultDst
      <3>1. dfltSaid'[r] = msg
        BY <1>2, <1>4, <1>7, <2>2
      <3>2. gw \in Gateway /\ gw # Absent /\ Absent \notin Gateway
        BY <2>2, RoutesAreObjects
      <3>3. action = "delete" => dfltSaid[r].op = "add" /\ dfltSaid[r].gw = gw
        BY <1>7, <2>2, <3>2 DEF Told
      <3>4. IF action = "delete" THEN Told(r, Absent)' ELSE Told(r, gw)'
        BY <1>1, <2>1, <3>1, <3>2 DEF Told
      <3>5. dfltSaid'[r].op = "delete" => dfltSaid[r].op = "add" /\ dfltSaid[r].gw = dfltSaid'[r].gw
        BY <1>1, <3>1, <3>3
      <3> QED BY <1>5, <1>6, <1>7, <3>4, <3>5
    <2>3. CASE ~(gw # NoGateway /\ r \in DefaultDst)
      <3>1. dfltSaid'[r] = dfltSaid[r]
        BY <1>4, <2>3
      <3>2. gw # Absent
        BY RoutesAreObjects
      <3>3. r \notin DefaultDst => dfltSaid[r].op = "none"
        BY DEF Silent
      <3>4. r \in DefaultDst => gw = NoGateway /\ gw \notin Gateway /\ Absent \notin Gateway
        BY <2>3, RoutesAreObjects
      <3> QED BY <1>1, <1>5, <1>6, <1>7, <2>1, <3>1, <3>2, <3>3, <3>4 DEF Told
    <2> QED BY <2>2, <2>3
  <1>8. CASE OnLink[r] = NoLink
    BY <1>4, <1>5, <1>6, <1>8
  <1> QED BY <1>7, <1>8

LEMMA OtherHandlers ==
    ASSUME NEW o \in Obj, o \notin Route, NEW v, NEW action, Process(action, o, v)
    PROVE  UNCHANGED routeVars
  BY Kinds DEF Process, processlink_rtnl, processaddr_rtnl, Obj

LEMMA RouteSame ==
    ASSUME RouteInv, UNCHANGED <<routeVars, main, todo, live, pending>>
    PROVE  RouteInv'
  BY DEF RouteInv, routeVars, Mute, Unheard, Told, ToldBefore

\* Steps that tell route subscribers nothing, while initialize() has not been at r.
LEMMA RouteQuiet ==
    ASSUME RouteInv, UNCHANGED routeVars, pending' = NoCallback,
           \A r \in Route : (OnLink[r] # NoLink /\ ~Unheard(r)' => Told(r, live'[r])) /\ (Unheard(r)' => Unheard(r))
    PROVE  RouteInv'
  BY DEF RouteInv, routeVars, Mute, Told

LEMMA RouteInitCallback == ASSUME BaseInv, RouteInv, NEW o \in Obj, InitCallback(o) PROVE RouteInv'
  <1>1. /\ main = <<"foreach", KindOf(o)>> /\ o \in todo /\ todo' = todo \ {o} /\ Process("add", o, live[o])
        /\ UNCHANGED <<live, pending, main>>
    BY DEF InitCallback, netlinkVars
  <1>2. pending = NoCallback
    BY <1>1 DEF BaseInv, CloneInv
  <1>3. CASE o \notin Route
    <2>1. UNCHANGED routeVars /\ KindOf(o) # "route"
      BY <1>1, <1>3, OtherHandlers, Kinds
    <2>2. \A r \in Route : (Unheard(r)' <=> Unheard(r))
      BY <1>1, <2>1 DEF Unheard
    <2>3. \A r \in Route : OnLink[r] # NoLink /\ ~Unheard(r) => Told(r, live[r])
      BY <1>2 DEF RouteInv
    <2> QED BY <1>1, <1>2, <2>1, <2>2, <2>3, RouteQuiet
  <1>4. CASE o \in Route
    <2>1. main = <<"foreach", "route">> /\ m_state = "RUNNING" /\ processroute_rtnl("add", o, live[o])
      BY <1>1, <1>4, RoutesAreObjects DEF BaseInv, Order, Process
    <2>2. live[o] \in RouteVal
      BY <1>1, <1>4, RoutesAreObjects DEF BaseInv, TypeOK, NetlinkTypeOK, Table
    <2>3. \A r \in Route : Unheard(r) <=> r \in todo
      BY <2>1 DEF Unheard
    <2>4. \A r \in Route : Unheard(r)' <=> r \in todo /\ r # o
      BY <1>1, <2>1 DEF Unheard
    <2>5. /\ \A q \in Route : q # o => routeSaid'[q] = routeSaid[q] /\ dfltSaid'[q] = dfltSaid[q]
          /\ o \notin DefaultDst => dfltSaid'[o] = Silent
          /\ OnLink[o] = NoLink => Mute(o)'
          /\ OnLink[o] # NoLink => Told(o, live[o])'
      <3>1. /\ o \notin DefaultDst => dfltSaid[o] = Silent
            /\ OnLink[o] = NoLink => Mute(o)
        BY <1>4 DEF RouteInv
      <3>2. \A gw \in RouteVal : OnLink[o] # NoLink /\ gw = live[o] /\ Told(o, gw)' => Told(o, live[o])'
        BY <1>1 DEF Told
      <3> QED BY <1>4, <2>1, <2>2, <3>1, <3>2, RouteHandled DEF BaseInv
    <2>6. ASSUME NEW r \in Route
          PROVE  /\ OnLink[r] = NoLink \/ Unheard(r)' => Mute(r)'
                 /\ r \notin DefaultDst => dfltSaid'[r] = Silent
                 /\ OnLink[r] # NoLink /\ ~Unheard(r)' => Told(r, live[r])'
      <3>1. CASE r = o
        BY <2>4, <2>5, <3>1
      <3>2. CASE r # o
        BY <1>1, <1>2, <2>3, <2>4, <2>5, <3>2 DEF RouteInv, Mute, Told
      <3> QED BY <3>1, <3>2
    <2> QED BY <1>1, <1>2, <2>6 DEF RouteInv, Told
  <1> QED BY <1>3, <1>4

LEMMA RouteForeachDone == ASSUME BaseInv, RouteInv, NEW k \in Kind, ForeachDone(k) PROVE RouteInv'
  <1>1. /\ main = <<"foreach", k>> /\ todo = {} /\ main' = AfterForeach[k]
        /\ UNCHANGED <<routeVars, live, pending>>
    BY DEF ForeachDone, netlinkVars
  <1>2. pending = NoCallback
    BY <1>1 DEF BaseInv, CloneInv
  <1>3. CASE k = "link"
    <2>1. \A r \in Route : Unheard(r) /\ Unheard(r)'
      BY <1>1, <1>3 DEF Unheard, AfterForeach
    <2> QED BY <1>1, <1>2, <2>1, RouteQuiet
  <1>4. CASE k = "addr"
    <2>1. main' = <<"foreach", "route">> /\ todo' = ToVisit("route")
      BY <1>1, <1>4 DEF ForeachDone, AfterForeach
    <2>2. \A r \in Route : Unheard(r)
      BY <1>1, <1>4 DEF Unheard
    <2>3. ASSUME NEW r \in Route, OnLink[r] # NoLink, ~Unheard(r)' PROVE Told(r, live'[r])
      <3>1. live'[r] = Absent
        BY <1>1, <2>1, <2>3, RoutesAreObjects DEF Unheard, ToVisit
      <3>2. Told(r, Absent)
        BY <2>2, MuteIsTold DEF RouteInv
      <3> QED BY <3>1, <3>2
    <2> QED BY <1>1, <1>2, <2>2, <2>3, RouteQuiet
  <1>5. CASE k = "route"
    <2>1. \A r \in Route : ~Unheard(r) /\ ~Unheard(r)'
      BY <1>1, <1>5 DEF Unheard, AfterForeach
    <2>2. \A r \in Route : OnLink[r] # NoLink => Told(r, live[r])
      BY <1>2, <2>1 DEF RouteInv
    <2> QED BY <1>1, <1>2, <2>1, <2>2, RouteQuiet
  <1> QED BY <1>3, <1>4, <1>5 DEF Kind

LEMMA RoutePoll == ASSUME BaseInv, RouteInv, Poll PROVE RouteInv'
  <1>1. main = <<"run", "all">> /\ pending = NoCallback /\ UNCHANGED <<routeVars, main, todo>>
    BY DEF Poll, Include, mainVars
  <1>2. \A r \in Route : ~Unheard(r) /\ ~Unheard(r)'
    BY <1>1 DEF Unheard
  <1>3. \A r \in Route : OnLink[r] # NoLink => Told(r, live[r])
    BY <1>1, <1>2 DEF RouteInv
  <1>4. ASSUME NEW r \in Route, OnLink[r] # NoLink
        PROVE  IF pending' # NoCallback /\ pending'.obj = r THEN ToldBefore(r)' ELSE Told(r, live'[r])
    <2>1. Told(r, live[r])
      BY <1>3, <1>4
    <2>2. CASE pending' # NoCallback /\ pending'.obj = r
      <3>1. /\ pending'.action = "add" => live[r] = Absent
            /\ pending'.action = "delete" => pending'.val = live[r]
        BY <2>2, PollPending, RoutesAreObjects
      <3>2. pending'.action = "add" => Told(r, Absent)
        BY <2>1, <3>1
      <3>3. pending'.action = "delete" => Told(r, pending'.val)
        BY <2>1, <3>1
      <3> QED BY <1>1, <2>2, <3>2, <3>3 DEF ToldBefore, Told, routeVars
    <2>3. CASE ~(pending' # NoCallback /\ pending'.obj = r)
      <3>1. live'[r] = live[r]
        BY <2>3, PollPending, RoutesAreObjects
      <3> QED BY <2>1, <2>3, <3>1
    <2> QED BY <2>2, <2>3
  <1> QED BY <1>1, <1>2, <1>4 DEF RouteInv, routeVars, Mute, Told

LEMMA RouteCallback ==
    ASSUME BaseInv, RouteInv, ChangeCallback
    PROVE  /\ RouteInv'
           /\ \A r \in Route :
                 dfltSaid'[r] # dfltSaid[r] /\ dfltSaid'[r].op = "delete" =>
                     dfltSaid[r].op = "add" /\ dfltSaid[r].gw = dfltSaid'[r].gw
  <1>1. /\ pending # NoCallback /\ pending \in Callback
        /\ Process(pending.action, pending.obj, pending.val)
        /\ pending' = NoCallback /\ UNCHANGED <<live, main, todo, m_state>>
    BY DEF ChangeCallback, mainVars, BaseInv, TypeOK, NetlinkTypeOK
  <1>2. PICK o \in Obj, action \in {"add", "change", "delete"}, v \in Value :
            v \in ValOf(o) /\ o = pending.obj /\ action = pending.action /\ v = pending.val
    BY <1>1 DEF Callback
  <1>3. main = <<"run", "all">> /\ m_state = "RUNNING"
    BY <1>1 DEF BaseInv, CloneInv, Order
  <1>4. \A r \in Route : ~Unheard(r) /\ ~Unheard(r)'
    BY <1>1, <1>3 DEF Unheard
  <1>5. live[o] = IF action = "delete" THEN Absent ELSE v
    BY <1>1, <1>2 DEF BaseInv, PendingInv
  <1>6. CASE o \notin Route
    <2>1. UNCHANGED routeVars
      BY <1>1, <1>2, <1>6, OtherHandlers
    <2>2. \A r \in Route : OnLink[r] # NoLink => Told(r, live[r])
      BY <1>2, <1>4, <1>6 DEF RouteInv
    <2> QED BY <1>1, <1>4, <2>1, <2>2, RouteQuiet DEF routeVars
  <1>7. CASE o \in Route
    <2>1. processroute_rtnl(action, o, v) /\ v \in RouteVal
      BY <1>1, <1>2, <1>7, RoutesAreObjects DEF Process
    <2>2. /\ o \notin DefaultDst => dfltSaid[o] = Silent
          /\ OnLink[o] = NoLink => Mute(o)
          /\ action = "delete" /\ OnLink[o] # NoLink => Told(o, v)
      BY <1>1, <1>2, <1>4, <1>7 DEF RouteInv, ToldBefore
    <2>3. /\ \A q \in Route : q # o => routeSaid'[q] = routeSaid[q] /\ dfltSaid'[q] = dfltSaid[q]
          /\ o \notin DefaultDst => dfltSaid'[o] = Silent
          /\ OnLink[o] = NoLink => Mute(o)'
          /\ OnLink[o] # NoLink => IF action = "delete" THEN Told(o, Absent)' ELSE Told(o, v)'
          /\ dfltSaid'[o] # dfltSaid[o] /\ dfltSaid'[o].op = "delete"
                => dfltSaid[o].op = "add" /\ dfltSaid[o].gw = dfltSaid'[o].gw
      BY <1>3, <1>7, <2>1, <2>2, RouteHandled DEF BaseInv
    <2>4. ASSUME NEW r \in Route
          PROVE  /\ OnLink[r] = NoLink => Mute(r)'
                 /\ r \notin DefaultDst => dfltSaid'[r] = Silent
                 /\ OnLink[r] # NoLink => Told(r, live[r])'
      <3>1. CASE r = o
        <4>1. OnLink[r] # NoLink => Told(r, live[r])'
          BY <1>1, <1>5, <2>3, <3>1 DEF Told
        <4> QED BY <2>3, <3>1, <4>1
      <3>2. CASE r # o
        BY <1>1, <1>2, <1>4, <2>3, <3>2 DEF RouteInv, Mute, Told
      <3> QED BY <3>1, <3>2
    <2>5. RouteInv'
      BY <1>1, <1>4, <2>4 DEF RouteInv, Told
    <2> QED BY <2>3, <2>5
  <1> QED BY <1>6, <1>7

\* No step but a callback, or a walk of initialize(), changes what was said.
LEMMA RouteInvStep == BaseInv /\ RouteInv /\ [Next]_vars => RouteInv'
  <1> SUFFICES ASSUME BaseInv, RouteInv, [Next]_vars PROVE RouteInv'
    OBVIOUS
  <1>1. ASSUME NEW k \in Kind, AddCache(k) \/ FillCache(k) PROVE RouteInv'
    <2>1. /\ main[1] \in {"join", "refill"} /\ UNCHANGED <<routeVars, pending>>
          /\ main'[1] \in {"join", "refill"} \/ main' = <<"foreach", "link">>
      BY <1>1 DEF AddCache, JoinGroups, FillCache, Refill, AfterRefill, Kind
    <2>2. pending = NoCallback /\ \A r \in Route : Unheard(r) /\ Unheard(r)'
      BY <2>1 DEF BaseInv, CloneInv, Unheard
    <2> QED BY <2>1, <2>2, RouteQuiet
  <1>2. ASSUME NEW k \in Kind, ForeachDone(k) PROVE RouteInv'
    BY <1>2, RouteForeachDone
  <1>3. ASSUME NEW o \in Obj, InitCallback(o) PROVE RouteInv'
    BY <1>3, RouteInitCallback
  <1>4. CASE KernelMoves \/ PollFails \/ UNCHANGED vars
    BY <1>4, RouteSame DEF KernelMoves, KernelStep, KernelLink, KernelAddr, KernelRoute, KernelSets, PollFails,
                           mainVars, vars, netlinkVars
  <1>5. CASE Poll \/ ChangeCallback
    BY <1>5, RoutePoll, RouteCallback
  <1> QED BY <1>1, <1>2, <1>3, <1>4, <1>5 DEF Next, MainStep, CacheThreadStep

LEMMA RouteInvInit == Init => RouteInv
  <1> SUFFICES ASSUME Init PROVE RouteInv
    OBVIOUS
  <1>1. \A r \in Route : Unheard(r) /\ Mute(r)
    BY DEF Init, Unheard, Mute
  <1> QED BY <1>1 DEF RouteInv, Mute

\* When nothing is on its way the caches hold the kernel's tables.
LEMMA QuiescentCaches == ASSUME ConvergeInv, Quiescent PROVE \A o \in Obj : live[o] = kernel[o]
  <1>1. Len(queue) = 0 /\ \A k \in Kind : Filled(k)
    BY DEF Quiescent, Initialized, Filled, Kind
  <1> QED BY <1>1, Kinds DEF ConvergeInv, CacheConverges, Quiescent

LEMMA QuiescentRoutes ==
    ASSUME BaseInv, ConvergeInv, RouteInv, Quiescent, NEW r \in Route
    PROVE  /\ OnLink[r] = NoLink => Mute(r)
           /\ OnLink[r] # NoLink => Told(r, kernel[r])
  BY QuiescentCaches, RoutesAreObjects DEF RouteInv, Unheard, Quiescent, Initialized

\* Then the clones hold them too.
LEMMA QuiescentClones == ASSUME BaseInv, ConvergeInv, Quiescent PROVE \A o \in Obj : Shown(o) = kernel[o]
  <1>1. \A o \in Obj : live[o] = kernel[o] /\ KindOf(o) \in Kind /\ o \in Objs(KindOf(o))
    BY QuiescentCaches, Kinds DEF Objs
  <1>2. \A k \in Kind : Current(k)
    BY DEF BaseInv, CloneInv, CloneStage, Walked, Quiescent, Initialized
  <1>3. ASSUME NEW o \in Obj, clone[KindOf(o)] = NoClone PROVE live[o] = Absent
    BY <1>1, <1>2, <1>3, CachesAreNotMissing DEF Current, BaseInv
  <1>4. ASSUME NEW o \in Obj, clone[KindOf(o)] # NoClone PROVE clone[KindOf(o)][o] = live[o]
    BY <1>1, <1>2, <1>4 DEF Current, CacheOf
  <1> QED BY <1>1, <1>3, <1>4 DEF Shown

\* The safety half of ClonesConverge: once all messages have been handled and none was
\* lost, getIpaddr, getInterfaces and getDefaultRoute read the kernel's own tables.
THEOREM QueriesShowKernel == Spec => [](Quiescent => \A o \in Obj : Shown(o) = kernel[o])
  <1> QED BY QuiescentClones, BaseInit, BaseStep, ConvergeInvInit, ConvergeInvStep, PTL DEF Spec

\* NlType::route subscribers know each route and its gateway once all messages have
\* been handled and none was lost.
THEOREM RouteFeedTrue == Spec => []RouteFeedMatchesKernel
  <1>1. BaseInv /\ ConvergeInv /\ RouteInv => RouteFeedMatchesKernel
    BY QuiescentRoutes DEF RouteFeedMatchesKernel, Mute, Told
  <1> QED BY <1>1, BaseInit, BaseStep, ConvergeInvInit, ConvergeInvStep, RouteInvInit, RouteInvStep, PTL DEF Spec

\* NlType::dfltroute subscribers know the gateway of every default route, but for one
\* that lost it without being deleted.
THEOREM DfltFeedTrue == Spec => []DfltFeedMatchesKernel
  <1>1. BaseInv /\ ConvergeInv /\ RouteInv => DfltFeedMatchesKernel
    BY QuiescentRoutes, RoutesAssumption DEF DfltFeedMatchesKernel, Told
  <1> QED BY <1>1, BaseInit, BaseStep, ConvergeInvInit, ConvergeInvStep, RouteInvInit, RouteInvStep, PTL DEF Spec

\* Lost messages or not, a delete on NlType::dfltroute names the gateway that the last
\* add of its route named.
THEOREM DeletesMatchAdds == Spec => DfltDeletesMatchAdds
  <1> DEFINE Matching == \A r \in Route :
                 dfltSaid'[r] # dfltSaid[r] /\ dfltSaid'[r].op = "delete" =>
                     dfltSaid[r].op = "add" /\ dfltSaid[r].gw = dfltSaid'[r].gw
  <1>1. BaseInv /\ RouteInv /\ [Next]_vars => [Matching]_vars
    <2> SUFFICES ASSUME BaseInv, RouteInv, [Next]_vars PROVE Matching
      OBVIOUS
    <2>1. CASE UNCHANGED dfltSaid
      BY <2>1
    <2>2. ASSUME NEW o \in Obj, InitCallback(o) PROVE Matching
      <3>1. CASE o \notin Route
        BY <2>1, <2>2, <3>1, OtherHandlers DEF InitCallback, routeVars
      <3>2. CASE o \in Route
        <4>1. processroute_rtnl("add", o, live[o]) /\ dfltSaid \in [Route -> RouteMsg]
          BY <2>2, <3>2, RoutesAreObjects DEF InitCallback, Process, BaseInv, TypeOK
        <4>2. \A r \in Route : dfltSaid'[r] = dfltSaid[r] \/ dfltSaid'[r].op = "add"
          BY <4>1 DEF processroute_rtnl
        <4> QED BY <4>2
      <3> QED BY <3>1, <3>2
    <2>3. CASE ChangeCallback
      BY <2>3, RouteCallback
    <2>4. ASSUME NEW k \in Kind, AddCache(k) \/ FillCache(k) \/ ForeachDone(k) PROVE Matching
      BY <2>1, <2>4 DEF AddCache, FillCache, ForeachDone, routeVars
    <2>5. CASE KernelMoves \/ Poll \/ PollFails \/ UNCHANGED vars
      BY <2>1, <2>5 DEF KernelMoves, Poll, PollFails, vars, routeVars
    <2> QED BY <2>2, <2>3, <2>4, <2>5 DEF Next, MainStep, CacheThreadStep
  <1> QED BY <1>1, BaseInit, BaseStep, RouteInvInit, RouteInvStep, PTL DEF Spec, DfltDeletesMatchAdds

-----------------------------------------------------------------------------
(* Addresses that are published by name.                                   *)

\* When the first i - 1 messages have been taken, the link cache knows l.
KnownAt(l, i) ==
    /\ \A j \in 1..i - 1 :
          queue[j].obj = l /\ (\A k \in j + 1..i - 1 : queue[k].obj # l) => queue[j].val # Absent
    /\ (\A j \in 1..i - 1 : queue[j].obj # l) => live[l] # Absent

\* Addresses are heard of only when the link cache has been filled and followed;
\* from then on the socket's order keeps it ahead of them.
NamedInv ==
    /\ "addr" \in groups => main[1] \notin {"join", "refill"} \/ main = <<"refill", "addr">>
    /\ Lossless =>
          /\ \A i \in 1..Len(queue) : queue[i].obj \in Addr => KnownAt(OnLink[queue[i].obj], i)
          /\ pending # NoCallback /\ pending.obj \in Addr => live[OnLink[pending.obj]] # Absent

LEMMA LinksOfAddrs ==
    \A a \in Addr : OnLink[a] \in Link /\ OnLink[a] \in Obj /\ OnLink[a] # NoLink /\ OnLink[a] # a
  BY ObjectsAssumption, MarkersAssumption DEF Obj

\* What the end of the queue knows of a link is what the kernel's table says.
LEMMA KnownAtEnd ==
    ASSUME ConvergeInv, Lossless, Filled("link"), NEW l \in Link, kernel[l] # Absent
    PROVE  KnownAt(l, Len(queue) + 1)
  <1>1. Len(queue) \in Nat /\ l \in Obj /\ KindOf(l) = "link"
    BY LenProperties, Kinds DEF ConvergeInv, TypeOK, NetlinkTypeOK, Obj
  <1>2. (Len(queue) + 1) - 1 = Len(queue)
    BY <1>1
  <1>3. \A j \in 1..Len(queue) :
           queue[j].obj = l /\ (\A k \in j + 1..Len(queue) : queue[k].obj # l) => queue[j].val = kernel[l]
    BY <1>1 DEF ConvergeInv, CacheConverges, LastAbout
  <1>4. (\A j \in 1..Len(queue) : queue[j].obj # l) => live[l] = kernel[l]
    BY <1>1 DEF ConvergeInv, CacheConverges
  <1> QED BY <1>2, <1>3, <1>4 DEF KnownAt

LEMMA NamedSame ==
    ASSUME NamedInv, UNCHANGED <<groups, queue, live>>, Lossless' => Lossless,
           pending' = NoCallback \/ UNCHANGED pending,
           main[1] \notin {"join", "refill"} => main'[1] \notin {"join", "refill"},
           UNCHANGED main \/ main[1] \notin {"join", "refill"}
    PROVE  NamedInv'
  BY DEF NamedInv, KnownAt

\* The kernel changes the addresses of the links it has.
LEMMA NamedKernelSets ==
    ASSUME BaseInv, ConvergeInv, NamedInv, NEW o \in Obj, NEW v \in ValOf(o) \cup {Absent},
           KernelSets(o, v), UNCHANGED main, o \in Addr => kernel[OnLink[o]] # Absent
    PROVE  NamedInv'
  <1>1. UNCHANGED <<groups, live, pending>>
    BY DEF KernelSets
  <1>2. CASE UNCHANGED queue
    <2>1. Lossless' => Lossless
      BY DEF KernelSets, Lossless
    <2> QED BY <1>1, <1>2, <2>1, NamedSame
  <1>3. CASE /\ KindOf(o) \in groups /\ UNCHANGED drops
             /\ queue' = Append(queue, [obj |-> o, val |-> v])
    <2>1. /\ Len(queue) \in Nat /\ Len(queue') = Len(queue) + 1
          /\ queue'[Len(queue) + 1].obj = o
          /\ \A i \in 1..Len(queue) : queue'[i] = queue[i]
      BY <1>3, LenProperties DEF BaseInv, TypeOK, NetlinkTypeOK
    <2>2. \A l \in Link, i \in 1..Len(queue) + 1 : KnownAt(l, i) => KnownAt(l, i)'
      <3> SUFFICES ASSUME NEW l \in Link, NEW i \in 1..Len(queue) + 1, KnownAt(l, i) PROVE KnownAt(l, i)'
        OBVIOUS
      <3>1. \A j \in 1..i - 1 : queue'[j] = queue[j] /\ \A k \in j + 1..i - 1 : queue'[k] = queue[k]
        BY <2>1
      <3> QED BY <1>1, <3>1 DEF KnownAt
    <2>3. ASSUME Lossless, o \in Addr PROVE KnownAt(OnLink[o], Len(queue) + 1)
      <3>1. Filled("link")
        <4>1. "addr" \in groups
          BY <1>3, <2>3, AddrsAreObjects
        <4> QED BY <4>1 DEF NamedInv, Filled
      <3> QED BY <2>3, <3>1, KnownAtEnd, LinksOfAddrs
    <2>4. ASSUME Lossless, NEW i \in 1..Len(queue'), queue'[i].obj \in Addr
          PROVE  KnownAt(OnLink[queue[i].obj], i)'
      <3>1. CASE i = Len(queue) + 1
        BY <2>1, <2>2, <2>3, <2>4, <3>1, LinksOfAddrs
      <3>2. CASE i # Len(queue) + 1
        <4>1. i \in 1..Len(queue)
          BY <2>1, <3>2
        <4> QED BY <4>1, <2>1, <2>2, <2>4, LinksOfAddrs DEF NamedInv
      <3> QED BY <3>1, <3>2
    <2> QED BY <1>1, <1>3, <2>4 DEF NamedInv, Lossless
  <1> QED BY <1>2, <1>3 DEF KernelSets

LEMMA NamedKernelMoves == ASSUME BaseInv, ConvergeInv, NamedInv, KernelMoves PROVE NamedInv'
  <1>m. UNCHANGED main
    BY DEF KernelMoves, mainVars
  <1>1. ASSUME NEW l \in Link, KernelLink(l) PROVE NamedInv'
    <2>1. l \in Obj /\ l \notin Addr /\ ValOf(l) = LinkVal
      BY Kinds, ObjectsAssumption DEF Obj
    <2> QED BY <1>m, <1>1, <2>1, NamedKernelSets DEF KernelLink
  <1>2. ASSUME NEW a \in Addr, KernelAddr(a) PROVE NamedInv'
    <2>1. a \in Obj /\ ValOf(a) = AddrVal
      BY Kinds DEF Obj
    <2> QED BY <1>m, <1>2, <2>1, NamedKernelSets DEF KernelAddr
  <1>3. ASSUME NEW r \in Route, KernelRoute(r) PROVE NamedInv'
    <2>1. r \in Obj /\ r \notin Addr
      BY ObjectsAssumption DEF Obj
    <2> QED BY <1>m, <1>3, <2>1, NamedKernelSets DEF KernelRoute
  <1> QED BY <1>1, <1>2, <1>3 DEF KernelMoves, KernelStep

\* Taking a message moves what is known from the queue into the cache.
LEMMA NamedPoll == ASSUME BaseInv, NamedInv, Poll PROVE NamedInv'
  <1> DEFINE o == Head(queue).obj
  <1>1. /\ Len(queue) \in Nat /\ queue[1] = Head(queue) /\ 1 \in 1..Len(queue)
        /\ Len(queue') = Len(queue) - 1
        /\ \A i \in 1..Len(queue') : queue'[i] = queue[i + 1]
    BY HeadTailProperties, LenProperties DEF BaseInv, TypeOK, NetlinkTypeOK, Poll, Include
  <1>2. o \in Obj /\ \A p \in Obj : live'[p] = IF p = o THEN Head(queue).val ELSE live[p]
    BY IncludeHead DEF Poll, Include, BaseInv, TypeOK, NetlinkTypeOK, Table
  <1>3. UNCHANGED <<groups, drops, main>>
    BY DEF Poll, Include, mainVars
  <1>4. ASSUME NEW l \in Link, NEW i \in 1..Len(queue'), KnownAt(l, i + 1) PROVE KnownAt(l, i)'
    <2>1. ASSUME NEW j \in 1..i - 1, queue'[j].obj = l, \A k \in j + 1..i - 1 : queue'[k].obj # l
          PROVE  queue'[j].val # Absent
      <3>1. j + 1 \in 1..(i + 1) - 1 /\ queue[j + 1] = queue'[j]
        BY <1>1
      <3>2. ASSUME NEW k \in (j + 1) + 1..(i + 1) - 1 PROVE queue[k].obj # l
        <4>1. k - 1 \in j + 1..i - 1 /\ k - 1 \in 1..Len(queue') /\ (k - 1) + 1 = k
          BY <1>1
        <4> QED BY <4>1, <1>1, <2>1
      <3> QED BY <3>1, <3>2, <2>1, <1>4 DEF KnownAt
    <2>2. ASSUME \A j \in 1..i - 1 : queue'[j].obj # l PROVE live'[l] # Absent
      <3>1. ASSUME NEW k \in 2..(i + 1) - 1 PROVE queue[k].obj # l
        <4>1. k - 1 \in 1..i - 1 /\ k - 1 \in 1..Len(queue') /\ (k - 1) + 1 = k
          BY <1>1
        <4> QED BY <4>1, <1>1, <2>2
      <3>2. 1 \in 1..(i + 1) - 1 /\ \A k \in 1..(i + 1) - 1 : k = 1 \/ k \in 2..(i + 1) - 1
        BY <1>1
      <3>3. CASE l = o
        BY <1>1, <1>2, <1>4, <3>1, <3>2, <3>3 DEF KnownAt
      <3>4. CASE l # o
        BY <1>1, <1>2, <1>4, <3>1, <3>2, <3>4 DEF KnownAt, Obj
      <3> QED BY <3>3, <3>4
    <2> QED BY <2>1, <2>2 DEF KnownAt
  <1>5. ASSUME Lossless, NEW i \in 1..Len(queue'), queue'[i].obj \in Addr
        PROVE  KnownAt(OnLink[queue[i].obj], i)'
    <2>1. i + 1 \in 1..Len(queue) /\ queue'[i] = queue[i + 1]
      BY <1>1
    <2> QED BY <2>1, <1>4, <1>5, LinksOfAddrs DEF NamedInv
  <1>6. ASSUME Lossless, pending' # NoCallback, pending'.obj \in Addr
        PROVE  live'[OnLink[pending'.obj]] # Absent
    <2>1. pending'.obj = o
      BY <1>6 DEF Poll, Include
    <2>2. KnownAt(OnLink[o], 1)
      BY <1>1, <1>6, <2>1 DEF NamedInv
    <2>3. live[OnLink[o]] # Absent
      BY <2>2 DEF KnownAt
    <2> QED BY <1>2, <1>6, <2>1, <2>3, LinksOfAddrs
  <1> QED BY <1>3, <1>5, <1>6 DEF NamedInv, Lossless

LEMMA NamedInvStep == BaseInv /\ ConvergeInv /\ NamedInv /\ [Next]_vars => NamedInv'
  <1> SUFFICES ASSUME BaseInv, ConvergeInv, NamedInv, [Next]_vars PROVE NamedInv'
    OBVIOUS
  <1>1. ASSUME NEW k \in Kind, AddCache(k) PROVE NamedInv'
    <2>1. UNCHANGED <<queue, live, pending, drops>> /\ groups' = groups \cup {k} /\ main' = <<"refill", k>>
      BY <1>1 DEF AddCache, JoinGroups
    <2>2. "addr" \in groups' => main' = <<"refill", "addr">>
      BY <1>1, <2>1 DEF AddCache, NamedInv
    <2> QED BY <2>1, <2>2 DEF NamedInv, KnownAt, Lossless
  <1>2. ASSUME NEW k \in Kind, FillCache(k) PROVE NamedInv'
    <2>1. UNCHANGED <<queue, groups, pending, drops>> /\ main = <<"refill", k>> /\ main' = AfterRefill[k]
      BY <1>2 DEF FillCache, Refill
    <2>2. "addr" \in groups => k = "addr" /\ main'[1] \notin {"join", "refill"}
      BY <2>1 DEF NamedInv, AfterRefill, Kind
    <2>3. CASE k = "addr"
      <3>1. \A l \in Link : live'[l] = live[l]
        BY <1>2, <2>3, ObjectsAssumption, AddrsAreObjects DEF FillCache, Refill, Obj
      <3> QED BY <2>1, <2>2, <3>1, LinksOfAddrs DEF NamedInv, KnownAt, Lossless, BaseInv, CloneInv
    <2>4. CASE k # "addr"
      <3>1. \A i \in 1..Len(queue) : queue[i].obj \notin Addr
        BY <2>2, <2>4, AddrsAreObjects DEF ConvergeInv, QueuedAreJoined
      <3>2. pending = NoCallback
        BY <2>1 DEF BaseInv, CloneInv
      <3> QED BY <2>1, <2>2, <2>4, <3>1, <3>2 DEF NamedInv
    <2> QED BY <2>3, <2>4
  <1>3. ASSUME NEW k \in Kind, ForeachDone(k) PROVE NamedInv'
    <2>1. main[1] = "foreach" /\ main'[1] \in {"foreach", "run"}
      BY <1>3 DEF ForeachDone, AfterForeach, Kind
    <2> QED BY <1>3, <2>1, NamedSame DEF ForeachDone, netlinkVars, Lossless
  <1>4. ASSUME NEW o \in Obj, InitCallback(o) PROVE NamedInv'
    BY <1>4, NamedSame DEF InitCallback, netlinkVars, Lossless
  <1>5. CASE ChangeCallback \/ PollFails \/ UNCHANGED vars
    BY <1>5, NamedSame DEF ChangeCallback, PollFails, vars, netlinkVars, mainVars, Lossless
  <1> QED BY <1>1, <1>2, <1>3, <1>4, <1>5, NamedKernelMoves, NamedPoll
          DEF Next, MainStep, CacheThreadStep

LEMMA NamedInvInit == Init => NamedInv
  <1> SUFFICES ASSUME Init PROVE NamedInv
    OBVIOUS
  <1>1. queue = <<>> /\ Len(queue) = 0 /\ groups = {} /\ pending = NoCallback
    BY DEF Init, NetlinkInit
  <1> QED BY <1>1 DEF NamedInv

\* A callback of the cache thread names the interface of the address it is about.
LEMMA NoneIgnored ==
    ASSUME BaseInv, NamedInv, [Next]_vars, Initialized, Lossless, NEW a \in Addr, addrSaid'[a] = "ignored"
    PROVE  addrSaid[a] = "ignored"
  <1>1. CASE UNCHANGED addrSaid
    BY <1>1
  <1>2. CASE ChangeCallback
    <2> DEFINE o == pending.obj
    <2>1. pending # NoCallback /\ pending \in Callback /\ o \in Obj /\ Process(pending.action, o, pending.val)
      BY <1>2 DEF ChangeCallback, BaseInv, TypeOK, NetlinkTypeOK, Callback
    <2>2. CASE o \notin Addr
      <3>1. KindOf(o) \in {"link", "route"}
        BY <2>1, <2>2, Kinds DEF Kind
      <3> QED BY <1>1, <2>1, <3>1 DEF Process, processlink_rtnl, processroute_rtnl
    <2>3. CASE o \in Addr
      <3>1. Named(o)
        BY <2>1, <2>3, LinksOfAddrs DEF NamedInv, Named
      <3>2. processaddr_rtnl(pending.action, o) /\ pending.action # "ignored"
        BY <2>1, <2>3, AddrsAreObjects DEF Process, Callback
      <3>3. addrSaid' = addrSaid \/ addrSaid' = [addrSaid EXCEPT ![o] = pending.action]
        BY <3>1, <3>2 DEF processaddr_rtnl, PublishAddr
      <3>4. addrSaid \in [Addr -> {"none", "add", "delete", "ignored"}]
        BY DEF BaseInv, TypeOK
      <3> QED BY <3>2, <3>3, <3>4
    <2> QED BY <2>2, <2>3
  <1>3. CASE MainStep
    BY <1>3 DEF MainStep, AddCache, FillCache, InitCallback, ForeachDone, Initialized
  <1>4. CASE KernelMoves \/ Poll \/ PollFails \/ UNCHANGED vars
    BY <1>1, <1>4 DEF KernelMoves, Poll, PollFails, vars
  <1> QED BY <1>2, <1>3, <1>4 DEF Next, CacheThreadStep

\* Until a message is lost, every address message that the cache thread handles finds
\* the name of its interface: only the walk of initialize() can ignore an address.
THEOREM EventsNamed == Spec => EventsNameTheirLink
  <1>1. BaseInv /\ NamedInv /\ [Next]_vars =>
            [Initialized /\ Lossless =>
                 \A a \in Addr : addrSaid'[a] = "ignored" => addrSaid[a] = "ignored"]_vars
    BY NoneIgnored
  <1> QED BY <1>1, BaseInit, BaseStep, ConvergeInvInit, ConvergeInvStep, NamedInvInit, NamedInvStep,
             PTL DEF Spec, EventsNameTheirLink

-----------------------------------------------------------------------------
(* What link subscribers are told.                                         *)

\* Message i says of an interface called n that it is there.
Says(n, i) ==
    /\ queue[i].obj \in Link /\ NameOf[queue[i].obj] = n
    /\ queue[i].val # Absent
NoneSays(n, i, j) == \A k \in i..j : ~Says(n, k)
NoneAbout(o, i, j) == \A k \in i..j : queue[k].obj # o

\* In table t the interface called n has value v; one that is gone was down.
HasValue(t, n, v) ==
    \/ \E l \in Link : NameOf[l] = n /\ t[l] = v /\ v # Absent
    \/ v = LinkDown /\ \A l \in Link : NameOf[l] = n => t[l] = Absent
OneEach(t) == \A l, m \in Link : l # m /\ NameOf[l] = NameOf[m] => Absent \in {t[l], t[m]}

\* The subscribers' last words on n are right for an interface with value v.
Agrees(n, v) ==
    /\ adminSaid[n] = "up" <=> v.up
    /\ v.oper = "UP" => operSaid[n] = "add"
    /\ operSaid[n] = "add" => v.up /\ v.oper # "DOWN"

\* A callback under way that will publish about n.
Telling(n) ==
    /\ pending # NoCallback /\ pending.action # "delete"
    /\ pending.obj \in Link /\ NameOf[pending.obj] = n

\* v is what the subscribers know of n, or will when all that has left the queue is told.
Known(n, v) ==
    IF ~Initialized THEN HasValue(live, n, v)
    ELSE IF Telling(n) THEN pending.val = v
    ELSE Agrees(n, v)

\* If nothing queued says anything of n, the kernel's value is known.
LastSaid ==
    Filled("link") =>
        \A n \in Name : NoneSays(n, 1, Len(queue)) =>
            \A v \in LinkVal : HasValue(kernel, n, v) => Known(n, v)

\* A message that repeats what is cached, so that no callback will tell it, says what is known.
Repeats ==
    \A n \in Name, k \in 1..Len(queue) :
        LET l == queue[k].obj
        IN  Says(n, k) /\ NoneSays(n, 1, k - 1) /\ NoneAbout(l, 1, k - 1) /\ live[l] = queue[k].val
                => Known(n, queue[k].val)

\* After the last message that says anything of n there is no other interface of that name.
Newest ==
    \A n \in Name, i \in 1..Len(queue) :
        Says(n, i) /\ NoneSays(n, i + 1, Len(queue)) =>
            LET l == queue[i].obj
            IN  /\ \A m \in Link : NameOf[m] = n /\ m # l => kernel[m] = Absent
                /\ kernel[l] = queue[i].val \/ (kernel[l] = Absent /\ queue[i].val = LinkDown)

\* A message brings a new value, and a name passes on from an interface that went down to one
\* that starts down.
Turns ==
    \A n \in Name, i, k \in 1..Len(queue) :
        /\ i < k /\ Says(n, i) /\ Says(n, k) /\ NoneSays(n, i + 1, k - 1)
        /\ NoneAbout(queue[k].obj, i + 1, k - 1)
        => IF queue[i].obj = queue[k].obj THEN queue[i].val # queue[k].val
           ELSE queue[i].val = LinkDown /\ queue[k].val = LinkDown

\* The walk of the links has been past every interface called n.
Walk(n) ==
    \A l \in Link : NameOf[l] = n /\ live[l] # Absent =>
        \/ main \in {<<"foreach", "addr">>, <<"foreach", "route">>}
        \/ main = <<"foreach", "link">> /\ l \notin todo

\* What initialize() has told by then.
Introduced ==
    /\ ~Filled("link") => \A l \in Link : live[l] = Absent
    /\ ~Initialized => OneEach(live)
    /\ ~Initialized => \A n \in Name, v \in LinkVal : Walk(n) /\ HasValue(live, n, v) => Agrees(n, v)

SaidInv ==
    /\ OneEach(kernel) /\ Introduced
    /\ Lossless => LastSaid /\ Repeats /\ Newest /\ Turns

\* SaidInv, with the invariants it is kept by.
LinkBase == BaseInv /\ LinkInv /\ ConvergeInv

LEMMA LinksAreObjects ==
    /\ \A l \in Link : l \in Obj /\ KindOf(l) = "link" /\ ValOf(l) = LinkVal /\ NameOf[l] \in Name
    /\ Absent \notin LinkVal /\ LinkDown \in LinkVal
  BY Kinds, ObjectsAssumption, MarkersAssumption DEF Obj, Value, LinkVal

LEMMA QueuedValues ==
    ASSUME TypeOK
    PROVE  /\ Len(queue) \in Nat
           /\ \A l \in Link : kernel[l] \in LinkVal \cup {Absent} /\ live[l] \in LinkVal \cup {Absent}
           /\ \A i \in 1..Len(queue) : queue[i].obj \in Obj
           /\ \A n \in Name, i \in 1..Len(queue) : Says(n, i) => queue[i].val \in LinkVal
  <1>1. Len(queue) \in Nat /\ \A i \in 1..Len(queue) : queue[i] \in Message
    BY LenProperties, ElementOfSeq DEF TypeOK, NetlinkTypeOK
  <1>2. \A i \in 1..Len(queue) : queue[i].obj \in Obj /\ queue[i].val \in ValOf(queue[i].obj) \cup {Absent}
    BY <1>1 DEF Message
  <1> QED BY <1>1, <1>2, LinksAreObjects DEF Says, TypeOK, NetlinkTypeOK, Table

\* A handler makes the words on its interface's name right and touches no other.
LEMMA LinkTold ==
    ASSUME TypeOK, FeedInv, m_state # "INIT", NEW o \in Obj, NEW v \in ValOf(o), NEW action,
           Process(action, o, v), NEW n \in Name
    PROVE  IF o \in Link /\ NameOf[o] = n /\ action # "delete" THEN Agrees(n, v)'
           ELSE UNCHANGED <<adminSaid[n], operSaid[n]>>
  <1>1. CASE o \notin Link
    <2>1. KindOf(o) \in {"addr", "route"}
      BY <1>1, Kinds DEF Kind
    <2> QED BY <1>1, <2>1 DEF Process, processaddr_rtnl, processroute_rtnl, linkVars
  <1>2. CASE o \in Link /\ action = "delete"
    BY <1>2, LinksAreObjects DEF Process, processlink_rtnl
  <1>3. CASE o \in Link /\ action # "delete"
    <2>1. processlink_rtnl(action, o, v) /\ v \in LinkVal /\ NameOf[o] \in Name
      BY <1>3, LinksAreObjects DEF Process
    <2>2. updateLinkAdminState(NameOf[o], v.up)
      <3>1. Handled(IF v.up THEN "LINK_ADMIN_UP" ELSE "LINK_ADMIN_DOWN")
        BY LinkEventsHandled DEF LinkEvents, TypeOK
      <3> QED BY <1>3, <2>1, <3>1 DEF processlink_rtnl
    <2>3. IF v.oper = "UNKNOWN" THEN UNCHANGED <<link_oper_states, operSaid>>
          ELSE updateLinkOperState(NameOf[o], v.oper = "UP")
      <3>1. Handled(IF v.oper = "UP" THEN "ADD_LINK" ELSE "DELETE_LINK")
        BY LinkEventsHandled DEF LinkEvents, TypeOK
      <3> QED BY <1>3, <2>1, <3>1 DEF processlink_rtnl
    <2>4. CASE NameOf[o] # n
      BY <2>1, <2>2, <2>3, <2>4 DEF updateLinkAdminState, updateLinkOperState, TypeOK
    <2>5. CASE NameOf[o] = n
      <3>1. adminSaid'[n] = "up" <=> v.up
        BY <2>1, <2>2, <2>5, LinkValues, AdminAlternates DEF TypeOK
      <3>2. v.oper # "UNKNOWN" => (operSaid'[n] = "add" <=> v.oper = "UP")
        BY <2>3, <2>5, OperAlternates DEF TypeOK
      <3>3. v.oper = "UNKNOWN" => v.up
        BY <2>1, LinkValues
      <3>4. v.oper = "UP" => v.up
        BY <2>1, LinkValues
      <3> QED BY <1>3, <2>1, <2>5, <3>1, <3>2, <3>3, <3>4, LinkValues DEF Agrees
    <2> QED BY <2>4, <2>5
  <1> QED BY <1>1, <1>2, <1>3

\* Steps that leave the kernel and the queue alone.
LEMMA QueueSame ==
    ASSUME SaidInv, Lossless, UNCHANGED <<kernel, queue>>
    PROVE  Newest' /\ Turns'
  <1>1. \A n \in Name, i \in 1..Len(queue) : Says(n, i)' <=> Says(n, i)
    BY DEF Says
  <1>2. \A n \in Name : \A i, j : NoneSays(n, i, j)' <=> NoneSays(n, i, j)
    BY DEF NoneSays, Says
  <1>3. \A o, i, j : NoneAbout(o, i, j)' <=> NoneAbout(o, i, j)
    BY DEF NoneAbout
  <1>4. Newest'
    BY <1>1, <1>2 DEF SaidInv, Newest
  <1>5. Turns'
    BY <1>1, <1>2, <1>3 DEF SaidInv, Turns
  <1> QED BY <1>4, <1>5

\* Steps that leave the tables, the caches and the queue alone.
LEMMA SaidQuiet ==
    ASSUME TypeOK, SaidInv, UNCHANGED <<kernel, queue, live>>, Lossless' => Lossless, Introduced',
           Filled("link")' => Filled("link"),
           \A n \in Name, v \in LinkVal : Known(n, v) => Known(n, v)'
    PROVE  SaidInv'
  <1>1. \A n \in Name, i \in 1..Len(queue) : Says(n, i)' <=> Says(n, i)
    BY DEF Says
  <1>2. \A n \in Name : \A i, j : NoneSays(n, i, j)' <=> NoneSays(n, i, j)
    BY DEF NoneSays, Says
  <1>3. \A o, i, j : NoneAbout(o, i, j)' <=> NoneAbout(o, i, j)
    BY DEF NoneAbout
  <1>4. OneEach(kernel)'
    BY DEF SaidInv, OneEach
  <1> SUFFICES ASSUME Lossless PROVE LastSaid' /\ Repeats' /\ Newest' /\ Turns'
    BY <1>4 DEF SaidInv
  <1>5. LastSaid'
    BY <1>2 DEF SaidInv, LastSaid, HasValue
  <1>6. Repeats'
    BY <1>1, <1>2, <1>3, QueuedValues DEF SaidInv, Repeats
  <1> QED BY <1>5, <1>6, QueueSame

\* A message joins the queue.
LEMMA Appended ==
    ASSUME TypeOK, NEW m, queue' = Append(queue, m), NEW N, N = Len(queue)
    PROVE  /\ Len(queue') = N + 1 /\ queue'[N + 1] = m /\ \A i \in 1..N : queue'[i] = queue[i]
           /\ \A n \in Name, i \in 1..N : Says(n, i)' <=> Says(n, i)
           /\ \A n \in Name, i \in 1..N + 1, j \in 0..N : NoneSays(n, i, j)' <=> NoneSays(n, i, j)
           /\ \A n \in Name, i \in 1..N + 1 :
                 NoneSays(n, i, N + 1)' => NoneSays(n, i, N) /\ ~Says(n, N + 1)'
           /\ \A o : \A i \in 1..N + 1, j \in 0..N : NoneAbout(o, i, j)' <=> NoneAbout(o, i, j)
  <1>1. N \in Nat /\ Len(queue') = N + 1 /\ queue'[N + 1] = m /\ \A i \in 1..N : queue'[i] = queue[i]
    BY LenProperties DEF TypeOK, NetlinkTypeOK
  <1>2. \A n \in Name, i \in 1..N : Says(n, i)' <=> Says(n, i)
    BY <1>1 DEF Says
  <1>3. \A n \in Name, i \in 1..N + 1, j \in 0..N : NoneSays(n, i, j)' <=> NoneSays(n, i, j)
    <2>1. \A i \in 1..N + 1, j \in 0..N : \A k \in i..j : k \in 1..N
      BY <1>1
    <2> QED BY <1>2, <2>1 DEF NoneSays
  <1>4. ASSUME NEW n \in Name, NEW i \in 1..N + 1, NoneSays(n, i, N + 1)'
        PROVE  NoneSays(n, i, N) /\ ~Says(n, N + 1)'
    <2>1. N + 1 \in i..N + 1 /\ \A k \in i..N : k \in i..N + 1 /\ k \in 1..N
      BY <1>1
    <2>2. \A k \in i..N + 1 : ~Says(n, k)'
      BY <1>4 DEF NoneSays
    <2>3. \A k \in i..N : ~Says(n, k)
      BY <1>2, <2>1, <2>2
    <2> QED BY <2>1, <2>2, <2>3 DEF NoneSays
  <1>5. ASSUME NEW o, NEW i \in 1..N + 1, NEW j \in 0..N PROVE NoneAbout(o, i, j)' <=> NoneAbout(o, i, j)
    <2>1. \A k \in i..j : k \in 1..N
      BY <1>1
    <2> QED BY <1>1, <2>1 DEF NoneAbout
  <1> QED BY <1>1, <1>2, <1>3, <1>4, <1>5

LEMMA IntroducedSame ==
    ASSUME Introduced, UNCHANGED <<live, main, todo, adminSaid, operSaid>>
    PROVE  Introduced'
  BY DEF Introduced, Filled, Initialized, OneEach, Walk, HasValue, Agrees

LEMMA KnownSame ==
    ASSUME UNCHANGED <<live, main, pending, adminSaid, operSaid>>
    PROVE  \A n \in Name, v \in LinkVal : Known(n, v)' <=> Known(n, v)
  BY DEF Known, Initialized, HasValue, Telling, Agrees

\* A change of an address or a route says nothing of an interface.
LEMMA SaidOtherSets ==
    ASSUME LinkBase, SaidInv, NEW o \in Obj, o \notin Link, NEW v, KernelSets(o, v),
           UNCHANGED <<main, todo, adminSaid, operSaid>>
    PROVE  SaidInv'
  <1>1. UNCHANGED <<groups, live, pending>> /\ (Lossless' => Lossless)
    BY DEF KernelSets, Lossless
  <1>2. \A l \in Link : kernel'[l] = kernel[l]
    BY DEF KernelSets, LinkBase, BaseInv, TypeOK, NetlinkTypeOK, Table
  <1>3. OneEach(kernel)' /\ Introduced'
    BY <1>1, <1>2, IntroducedSame DEF SaidInv, OneEach
  <1>4. \A n \in Name, w \in LinkVal : (Known(n, w)' <=> Known(n, w)) /\ (HasValue(kernel, n, w)' <=> HasValue(kernel, n, w))
    BY <1>1, <1>2, KnownSame DEF HasValue
  <1>t. TypeOK /\ (Filled("link")' <=> Filled("link"))
    BY DEF LinkBase, BaseInv, Filled
  <1> SUFFICES ASSUME Lossless' PROVE LastSaid' /\ Repeats' /\ Newest' /\ Turns'
    BY <1>3 DEF SaidInv
  <1>s. Lossless /\ LastSaid /\ Repeats /\ Newest /\ Turns
    BY <1>1 DEF SaidInv
  <1>5. CASE UNCHANGED queue
    <2>1. /\ \A n \in Name, i \in 1..Len(queue) : Says(n, i)' <=> Says(n, i)
          /\ \A n \in Name : \A i, j : NoneSays(n, i, j)' <=> NoneSays(n, i, j)
          /\ \A p, i, j : NoneAbout(p, i, j)' <=> NoneAbout(p, i, j)
      BY <1>5 DEF Says, NoneSays, NoneAbout
    <2>2. LastSaid'
      BY <1>5, <1>s, <1>t, <1>4, <2>1 DEF LastSaid
    <2>3. Repeats'
      BY <1>5, <1>s, <1>t, <1>1, <1>4, <2>1, QueuedValues DEF Repeats
    <2>4. Newest'
      BY <1>5, <1>s, <1>2, <2>1 DEF Newest, Says
    <2>5. Turns'
      BY <1>5, <1>s, <2>1 DEF Turns
    <2> QED BY <2>2, <2>3, <2>4, <2>5
  <1>6. CASE queue' = Append(queue, [obj |-> o, val |-> v])
    <2> DEFINE m == [obj |-> o, val |-> v]
    <2>1. PICK N : N = Len(queue)
      OBVIOUS
    <2>2. N \in Nat
      BY <1>t, <2>1, QueuedValues
    <2>a. /\ Len(queue') = N + 1 /\ queue'[N + 1] = m /\ \A i \in 1..N : queue'[i] = queue[i]
          /\ \A n \in Name, i \in 1..N : Says(n, i)' <=> Says(n, i)
          /\ \A n \in Name, i \in 1..N + 1, j \in 0..N : NoneSays(n, i, j)' <=> NoneSays(n, i, j)
          /\ \A n \in Name, i \in 1..N + 1 : NoneSays(n, i, N + 1)' => NoneSays(n, i, N)
          /\ \A p : \A i \in 1..N + 1, j \in 0..N : NoneAbout(p, i, j)' <=> NoneAbout(p, i, j)
      BY <1>t, <1>6, <2>1, Appended
    <2>3. \A n \in Name, i \in 1..N + 1 : Says(n, i)' => i \in 1..N /\ Says(n, i)
      <3>1. \A n \in Name : ~Says(n, N + 1)'
        BY <2>a DEF Says
      <3> QED BY <2>2, <2>a, <3>1
    <2>4. LastSaid'
      <3> SUFFICES ASSUME Filled("link"), NEW n \in Name, NoneSays(n, 1, N + 1)', NEW w \in LinkVal, HasValue(kernel, n, w)
                   PROVE  Known(n, w)'
        BY <1>t, <1>4, <2>a DEF LastSaid
      <3> QED BY <1>s, <1>4, <2>1, <2>2, <2>a DEF LastSaid
    <2>5. Repeats'
      <3> SUFFICES ASSUME NEW n \in Name, NEW k \in 1..N, Says(n, k), NoneSays(n, 1, k - 1)',
                          NoneAbout(queue[k].obj, 1, k - 1)', live[queue[k].obj] = queue[k].val
                   PROVE  Known(n, queue[k].val)'
        <4> SUFFICES ASSUME NEW n \in Name, NEW k \in 1..N + 1, Says(n, k)', NoneSays(n, 1, k - 1)',
                            NoneAbout(queue[k].obj, 1, k - 1)', live'[queue'[k].obj] = queue'[k].val
                     PROVE  Known(n, queue[k].val)'
          BY <2>a DEF Repeats
        <4> QED BY <1>1, <2>3, <2>a DEF NoneAbout, Known
      <3>1. 1 \in 1..N + 1 /\ k - 1 \in 0..N
        BY <2>2
      <3>2. NoneSays(n, 1, k - 1) /\ NoneAbout(queue[k].obj, 1, k - 1)
        BY <2>a, <3>1
      <3>3. Known(n, queue[k].val) /\ queue[k].val \in LinkVal
        BY <1>s, <1>t, <2>1, <3>2, QueuedValues DEF Repeats
      <3> QED BY <1>4, <2>a, <3>3 DEF Known
    <2>6. Newest'
      <3> SUFFICES ASSUME NEW n \in Name, NEW i \in 1..N + 1, Says(n, i)', NoneSays(n, i + 1, N + 1)'
                   PROVE  LET l == queue'[i].obj
                          IN  /\ \A p \in Link : NameOf[p] = n /\ p # l => kernel'[p] = Absent
                              /\ kernel'[l] = queue'[i].val \/ (kernel'[l] = Absent /\ queue'[i].val = LinkDown)
        BY <2>a DEF Newest
      <3>1. i \in 1..N /\ Says(n, i) /\ i + 1 \in 1..N + 1 /\ queue'[i] = queue[i]
        BY <2>2, <2>3, <2>a
      <3>2. NoneSays(n, i + 1, N)
        BY <2>a, <3>1
      <3> QED BY <1>s, <1>2, <2>1, <3>1, <3>2 DEF Newest, Says
    <2>7. Turns'
      <3> SUFFICES ASSUME NEW n \in Name, NEW i \in 1..N + 1, NEW k \in 1..N + 1, i < k, Says(n, i)', Says(n, k)',
                          NoneSays(n, i + 1, k - 1)', NoneAbout(queue[k].obj, i + 1, k - 1)'
                   PROVE  IF queue'[i].obj = queue'[k].obj THEN queue'[i].val # queue'[k].val
                          ELSE queue'[i].val = LinkDown /\ queue'[k].val = LinkDown
        BY <2>a DEF Turns
      <3>1. i \in 1..N /\ k \in 1..N /\ Says(n, i) /\ Says(n, k) /\ i + 1 \in 1..N + 1 /\ k - 1 \in 0..N
        BY <2>2, <2>3
      <3>2. NoneSays(n, i + 1, k - 1)
        BY <2>a, <3>1
      <3>3. NoneAbout(queue[k].obj, i + 1, k - 1)
        <4>1. \A p \in i + 1..k - 1 : p \in 1..N
          BY <2>2
        <4> QED BY <2>a, <3>1, <4>1 DEF NoneAbout
      <3> QED BY <1>s, <2>1, <2>a, <3>1, <3>2, <3>3 DEF Turns
    <2> QED BY <2>4, <2>5, <2>6, <2>7
  <1> QED BY <1>5, <1>6 DEF KernelSets

\* A link changes: what KernelLink allows is what Newest and Turns describe.
LinkMayTake(o, v) ==
    /\ kernel[o] = Absent => v = LinkDown /\ \A m \in Link : NameOf[m] = NameOf[o] => kernel[m] = Absent
    /\ v = Absent => kernel[o] = LinkDown

LEMMA SaidLinkQueued ==
    ASSUME LinkBase, SaidInv, NEW o \in Link, NEW v \in LinkVal \cup {Absent}, LinkMayTake(o, v),
           kernel[o] # v, kernel' = [kernel EXCEPT ![o] = v], queue' = Append(queue, [obj |-> o, val |-> v]),
           UNCHANGED <<main, todo, live, pending, drops, adminSaid, operSaid>>, Lossless
    PROVE  LastSaid' /\ Repeats' /\ Newest' /\ Turns'
  <1> DEFINE m == [obj |-> o, val |-> v]
  <1>t. TypeOK /\ (Filled("link")' <=> Filled("link")) /\ o \in Obj /\ KindOf(o) = "link"
    BY LinksAreObjects DEF LinkBase, BaseInv, Filled
  <1>s. LastSaid /\ Repeats /\ Newest /\ Turns /\ OneEach(kernel) /\ Introduced
    BY DEF SaidInv
  <1>k. \A l \in Link : kernel'[l] = IF l = o THEN v ELSE kernel[l]
    BY LinksAreObjects DEF LinkBase, BaseInv, TypeOK, NetlinkTypeOK, Table
  <1>m. LinkMayTake(o, v)
    OBVIOUS
  <1>n. \A n \in Name, w \in LinkVal : Known(n, w)' <=> Known(n, w)
    BY KnownSame
  <1>1. PICK N : N = Len(queue)
    OBVIOUS
  <1>2. N \in Nat
    BY <1>t, <1>1, QueuedValues
  <1>a. /\ Len(queue') = N + 1 /\ queue'[N + 1] = m /\ \A i \in 1..N : queue'[i] = queue[i]
        /\ \A n \in Name, i \in 1..N : Says(n, i)' <=> Says(n, i)
        /\ \A n \in Name, i \in 1..N + 1, j \in 0..N : NoneSays(n, i, j)' <=> NoneSays(n, i, j)
        /\ \A n \in Name, i \in 1..N + 1 : NoneSays(n, i, N + 1)' => NoneSays(n, i, N) /\ ~Says(n, N + 1)'
        /\ \A p : \A i \in 1..N + 1, j \in 0..N : NoneAbout(p, i, j)' <=> NoneAbout(p, i, j)
    BY <1>t, <1>1, Appended
  <1>b. /\ \A n \in Name : Says(n, N + 1)' <=> n = NameOf[o] /\ v # Absent
        /\ queue'[N + 1].obj = o /\ queue'[N + 1].val = v
    BY <1>a, LinksAreObjects DEF Says
  <1>c. /\ \A i \in 1..N : queue[i].obj = o /\ NoneAbout(o, i + 1, N) => queue[i].val = kernel[o]
        /\ NoneAbout(o, 1, N) /\ Filled("link") => live[o] = kernel[o]
    BY <1>t, <1>1 DEF LinkBase, ConvergeInv, CacheConverges, LastAbout, NoneAbout
  <1> HIDE DEF m
  <1>4. LastSaid'
    <2> SUFFICES ASSUME Filled("link"), NEW n \in Name, NoneSays(n, 1, N + 1)', NEW w \in LinkVal, HasValue(kernel, n, w)'
                 PROVE  Known(n, w)
      BY <1>t, <1>n, <1>a DEF LastSaid
    <2>1. \A w2 \in LinkVal : HasValue(kernel, n, w2) => Known(n, w2)
      BY <1>s, <1>1, <1>2, <1>a DEF LastSaid
    <2>2. CASE n # NameOf[o]
      <3>1. HasValue(kernel, n, w)
        BY <1>k, <2>2 DEF HasValue
      <3> QED BY <2>1, <3>1
    <2>3. CASE n = NameOf[o]
      <3>1. v = Absent
        BY <1>2, <1>a, <1>b, <2>3
      <3>2. kernel[o] = LinkDown
        BY <1>m, <3>1 DEF LinkMayTake
      <3>3. HasValue(kernel, n, LinkDown)
        BY <2>3, <3>2, LinksAreObjects DEF HasValue
      <3>4. \A l \in Link : NameOf[l] = n => kernel'[l] = Absent
        BY <1>k, <1>s, <2>3, <3>1, <3>2, LinksAreObjects DEF OneEach
      <3>5. w = LinkDown
        BY <3>4 DEF HasValue
      <3> QED BY <2>1, <3>3, <3>5
    <2> QED BY <2>2, <2>3
  <1>5. Repeats'
    <2> SUFFICES ASSUME NEW n \in Name, NEW k \in 1..N + 1, Says(n, k)', NoneSays(n, 1, k - 1)',
                        NoneAbout(queue[k].obj, 1, k - 1)', live[queue'[k].obj] = queue'[k].val
                 PROVE  Known(n, queue[k].val)'
      BY <1>a DEF Repeats
    <2>1. CASE k = N + 1
      <3>1. 1 \in 1..N + 1 /\ N \in 0..N /\ k - 1 = N
        BY <1>2, <2>1
      <3>2. NoneAbout(o, 1, N)
        <4>1. \A p \in 1..N : queue'[p].obj # o
          BY <1>b, <2>1, <3>1 DEF NoneAbout
        <4> QED BY <1>a, <4>1 DEF NoneAbout
      <3>3. v # Absent /\ live[o] = v
        BY <1>b, <2>1
      <3>4. ~Filled("link")
        BY <1>c, <3>2, <3>3
      <3> QED BY <1>s, <3>3, <3>4 DEF Introduced
    <2>2. CASE k # N + 1
      <3>1. k \in 1..N /\ 1 \in 1..N + 1 /\ k - 1 \in 0..N /\ queue'[k] = queue[k]
        BY <1>2, <1>a, <2>2
      <3>2. Says(n, k) /\ NoneSays(n, 1, k - 1)
        BY <1>a, <3>1
      <3>3. NoneAbout(queue[k].obj, 1, k - 1)
        <4>1. \A p \in 1..k - 1 : p \in 1..N
          BY <1>2, <3>1
        <4> QED BY <1>a, <3>1, <4>1 DEF NoneAbout
      <3>4. Known(n, queue[k].val) /\ queue[k].val \in LinkVal
        BY <1>s, <1>t, <1>1, <3>1, <3>2, <3>3, QueuedValues DEF Repeats
      <3> QED BY <1>n, <3>1, <3>4 DEF Known
    <2> QED BY <2>1, <2>2
  <1>6. Newest'
    <2> SUFFICES ASSUME NEW n \in Name, NEW i \in 1..N + 1, Says(n, i)', NoneSays(n, i + 1, N + 1)'
                 PROVE  LET l == queue'[i].obj
                        IN  /\ \A p \in Link : NameOf[p] = n /\ p # l => kernel'[p] = Absent
                            /\ kernel'[l] = queue'[i].val \/ (kernel'[l] = Absent /\ queue'[i].val = LinkDown)
      BY <1>a DEF Newest
    <2>1. CASE i = N + 1
      <3>1. n = NameOf[o] /\ v # Absent
        BY <1>b, <2>1
      <3>2. \A p \in Link : NameOf[p] = n /\ p # o => kernel[p] = Absent
        BY <1>m, <1>s, <3>1 DEF LinkMayTake, OneEach
      <3> QED BY <1>b, <1>k, <2>1, <3>2
    <2>2. CASE i # N + 1
      <3>1. i \in 1..N /\ Says(n, i) /\ i + 1 \in 1..N + 1 /\ queue'[i] = queue[i]
        BY <1>2, <1>a, <2>2
      <3>2. NoneSays(n, i + 1, N) /\ ~Says(n, N + 1)'
        BY <1>a, <3>1
      <3> DEFINE l == queue[i].obj
      <3>3. /\ \A p \in Link : NameOf[p] = n /\ p # l => kernel[p] = Absent
            /\ kernel[l] = queue[i].val \/ (kernel[l] = Absent /\ queue[i].val = LinkDown)
            /\ l \in Link /\ NameOf[l] = n
        BY <1>s, <1>1, <3>1, <3>2 DEF Newest, Says
      <3>4. CASE n # NameOf[o]
        BY <1>k, <3>1, <3>3, <3>4
      <3>5. CASE n = NameOf[o]
        <4>1. v = Absent /\ kernel[o] = LinkDown /\ LinkDown # Absent
          BY <1>b, <1>m, <3>2, <3>5, LinksAreObjects DEF LinkMayTake
        <4>2. l = o
          BY <3>3, <3>5, <4>1
        <4> QED BY <1>k, <3>1, <3>3, <4>1, <4>2
      <3> QED BY <3>4, <3>5
    <2> QED BY <2>1, <2>2
  <1>7. Turns'
    <2> SUFFICES ASSUME NEW n \in Name, NEW i \in 1..N + 1, NEW k \in 1..N + 1, i < k, Says(n, i)', Says(n, k)',
                        NoneSays(n, i + 1, k - 1)', NoneAbout(queue[k].obj, i + 1, k - 1)'
                 PROVE  IF queue'[i].obj = queue'[k].obj THEN queue'[i].val # queue'[k].val
                        ELSE queue'[i].val = LinkDown /\ queue'[k].val = LinkDown
      BY <1>a DEF Turns
    <2>1. i \in 1..N /\ Says(n, i) /\ i + 1 \in 1..N + 1 /\ k - 1 \in 0..N /\ queue'[i] = queue[i]
      BY <1>2, <1>a
    <2>2. NoneSays(n, i + 1, k - 1)
      BY <1>a, <2>1
    <2>3. \A p \in i + 1..k - 1 : queue[p].obj # queue'[k].obj
      <3>1. \A p \in i + 1..k - 1 : p \in 1..N
        BY <1>2, <2>1
      <3> QED BY <1>a, <3>1 DEF NoneAbout
    <2>4. CASE k = N + 1
      <3>1. n = NameOf[o] /\ v # Absent /\ k - 1 = N
        BY <1>2, <1>b, <2>4
      <3>2. NoneAbout(o, i + 1, N)
        BY <1>b, <2>3, <2>4, <3>1 DEF NoneAbout
      <3>3. CASE queue[i].obj = o
        BY <1>b, <1>c, <2>1, <2>4, <3>2, <3>3
      <3>4. CASE queue[i].obj # o
        <4>1. /\ kernel[o] = Absent
              /\ kernel[queue[i].obj] = queue[i].val \/ queue[i].val = LinkDown
              /\ queue[i].obj \in Link /\ NameOf[queue[i].obj] = n /\ queue[i].val # Absent
          BY <1>s, <1>1, <2>1, <2>2, <3>1, <3>4 DEF Newest, Says
        <4> QED BY <1>b, <1>m, <2>1, <2>4, <3>1, <3>4, <4>1 DEF LinkMayTake
      <3> QED BY <3>3, <3>4
    <2>5. CASE k # N + 1
      <3>1. k \in 1..N /\ Says(n, k) /\ queue'[k] = queue[k]
        BY <1>2, <1>a, <2>5
      <3>2. NoneAbout(queue[k].obj, i + 1, k - 1)
        BY <2>3, <3>1 DEF NoneAbout
      <3> QED BY <1>s, <1>1, <2>1, <2>2, <3>1, <3>2 DEF Turns
    <2> QED BY <2>4, <2>5
  <1> QED BY <1>4, <1>5, <1>6, <1>7

LEMMA SaidLinkSets ==
    ASSUME LinkBase, SaidInv, NEW o \in Link, NEW v \in LinkVal \cup {Absent}, LinkMayTake(o, v),
           KernelSets(o, v), UNCHANGED <<main, todo, adminSaid, operSaid>>
    PROVE  SaidInv'
  <1>1. UNCHANGED <<groups, live, pending>> /\ kernel' = [kernel EXCEPT ![o] = v] /\ kernel[o] # v
    BY DEF KernelSets
  <1>k. \A l \in Link : kernel'[l] = IF l = o THEN v ELSE kernel[l]
    BY <1>1, LinksAreObjects DEF LinkBase, BaseInv, TypeOK, NetlinkTypeOK, Table
  <1>2. OneEach(kernel)' /\ Introduced'
    <2>1. OneEach(kernel)'
      BY <1>k DEF SaidInv, OneEach, LinkMayTake
    <2> QED BY <1>1, <2>1, IntroducedSame DEF SaidInv
  <1>3. CASE "link" \notin groups
    <2>1. UNCHANGED <<queue, drops>>
      BY <1>3, LinksAreObjects DEF KernelSets
    <2>2. ~Filled("link")'
      BY <1>3 DEF LinkBase, ConvergeInv, Joined, Filled, Kind
    <2>3. \A n \in Name, i \in 1..Len(queue') : ~Says(n, i)'
      BY <1>3, <2>1, LinksAreObjects DEF LinkBase, ConvergeInv, QueuedAreJoined, Says
    <2> QED BY <1>2, <2>2, <2>3 DEF SaidInv, LastSaid, Repeats, Newest, Turns
  <1>4. CASE drops' = "unreported"
    BY <1>2, <1>4 DEF SaidInv, Lossless
  <1>5. CASE queue' = Append(queue, [obj |-> o, val |-> v]) /\ UNCHANGED drops
    <2> SUFFICES ASSUME Lossless PROVE LastSaid' /\ Repeats' /\ Newest' /\ Turns'
      BY <1>2, <1>5 DEF SaidInv, Lossless
    <2> QED BY <1>1, <1>5, SaidLinkQueued
  <1> QED BY <1>3, <1>4, <1>5, LinksAreObjects DEF KernelSets

LEMMA SaidKernelMoves == ASSUME LinkBase, SaidInv, KernelMoves PROVE SaidInv'
  <1>m. UNCHANGED <<main, todo, adminSaid, operSaid>>
    BY DEF KernelMoves, mainVars, linkVars
  <1>1. ASSUME NEW l \in Link, KernelLink(l) PROVE SaidInv'
    BY <1>m, <1>1, SaidLinkSets DEF KernelLink, LinkMayTake
  <1>2. ASSUME NEW a \in Addr, KernelAddr(a) PROVE SaidInv'
    BY <1>m, <1>2, SaidOtherSets, ObjectsAssumption DEF KernelAddr, Obj
  <1>3. ASSUME NEW r \in Route, KernelRoute(r) PROVE SaidInv'
    BY <1>m, <1>3, SaidOtherSets, ObjectsAssumption DEF KernelRoute, Obj
  <1> QED BY <1>1, <1>2, <1>3 DEF KernelMoves, KernelStep

\* The head of the queue is taken: what is left moves up by one.
LEMMA Taken ==
    ASSUME TypeOK, queue # <<>>, queue' = Tail(queue), NEW N, N = Len(queue)
    PROVE  /\ N \in Nat \ {0} /\ Len(queue') = N - 1 /\ queue[1] = Head(queue)
           /\ \A i \in 1..N - 1 : queue'[i] = queue[i + 1]
           /\ \A n \in Name, i \in 1..N - 1 : Says(n, i)' <=> Says(n, i + 1)
           /\ \A n \in Name, i \in 1..N, j \in 0..N - 1 : NoneSays(n, i, j)' => NoneSays(n, i + 1, j + 1)
           /\ \A p : \A i \in 1..N, j \in 0..N - 1 : NoneAbout(p, i, j)' => NoneAbout(p, i + 1, j + 1)
  <1>1. /\ N \in Nat \ {0} /\ Len(queue') = N - 1 /\ queue[1] = Head(queue)
        /\ \A i \in 1..N - 1 : queue'[i] = queue[i + 1]
    BY HeadTailProperties, LenProperties DEF TypeOK, NetlinkTypeOK
  <1>2. \A n \in Name, i \in 1..N - 1 : Says(n, i)' <=> Says(n, i + 1)
    BY <1>1 DEF Says
  <1>s. \A i \in 1..N, j \in 0..N - 1 : \A k \in i + 1..j + 1 : k - 1 \in i..j /\ k - 1 \in 1..N - 1 /\ (k - 1) + 1 = k
    BY <1>1
  <1>3. ASSUME NEW n \in Name, NEW i \in 1..N, NEW j \in 0..N - 1, NoneSays(n, i, j)'
        PROVE  NoneSays(n, i + 1, j + 1)
    <2>1. \A k \in i..j : ~Says(n, k)'
      BY <1>3 DEF NoneSays
    <2>2. ASSUME NEW k \in i + 1..j + 1 PROVE ~Says(n, k)
      <3>1. k - 1 \in i..j /\ k - 1 \in 1..N - 1 /\ (k - 1) + 1 = k
        BY <1>s
      <3> QED BY <1>2, <2>1, <3>1
    <2> QED BY <2>2 DEF NoneSays
  <1>4. ASSUME NEW p, NEW i \in 1..N, NEW j \in 0..N - 1, NoneAbout(p, i, j)'
        PROVE  NoneAbout(p, i + 1, j + 1)
    <2>1. ASSUME NEW k \in i + 1..j + 1 PROVE queue[k].obj # p
      <3>1. k - 1 \in i..j /\ k - 1 \in 1..N - 1 /\ (k - 1) + 1 = k
        BY <1>s
      <3> QED BY <1>1, <1>4, <3>1 DEF NoneAbout
    <2> QED BY <2>1 DEF NoneAbout
  <1> QED BY <1>1, <1>2, <1>3, <1>4

\* A message that says something of n makes its value the known one, by the callback it
\* causes or because it repeats what is known.
LEMMA PollKnown ==
    ASSUME LinkBase, SaidInv, Poll, NEW o, NEW w, o = Head(queue).obj, w = Head(queue).val
    PROVE  /\ o \in Obj /\ \A p \in Obj : live'[p] = IF p = o THEN w ELSE live[p]
           /\ \A n \in Name, v \in LinkVal : Known(n, v) /\ ~Says(n, 1) => Known(n, v)'
           /\ Lossless => \A n \in Name : Says(n, 1) => Known(n, w)'
  <1>1. o \in Obj /\ \A p \in Obj : live'[p] = IF p = o THEN w ELSE live[p]
    BY IncludeHead DEF Poll, Include, LinkBase, BaseInv, TypeOK, NetlinkTypeOK, Table
  <1>2. /\ Initialized /\ Initialized' /\ UNCHANGED <<adminSaid, operSaid>> /\ pending = NoCallback
        /\ queue # <<>> /\ queue' = Tail(queue)
    BY DEF Poll, Include, Initialized, mainVars, linkVars
  <1>3. Len(queue) \in Nat \ {0} /\ queue[1] = Head(queue) /\ TypeOK
    BY <1>2, Taken DEF LinkBase, BaseInv
  <1>4. \A n \in Name, v \in LinkVal : Known(n, v) <=> Agrees(n, v)
    BY <1>2 DEF Known, Telling
  <1>5. \A n \in Name, v \in LinkVal : Agrees(n, v)' <=> Agrees(n, v)
    BY <1>2 DEF Agrees
  <1>6. pending' = IF live[o] = w THEN NoCallback
                   ELSE [obj |-> o,
                         action |-> IF live[o] = Absent THEN "add" ELSE IF w = Absent THEN "delete" ELSE "change",
                         val |-> IF w = Absent THEN live[o] ELSE w]
    BY DEF Poll, Include
  <1>7. live[o] # w => pending' # NoCallback
    BY IncludeCallback, MarkersAssumption, <1>3 DEF Poll, TypeOK
  <1>8. \A n \in Name : Telling(n)' <=> o \in Link /\ NameOf[o] = n /\ w # Absent /\ live[o] # w
    BY <1>6, <1>7 DEF Telling
  <1>9. \A n \in Name : Telling(n)' => pending'.val = w
    BY <1>6, <1>8
  <1>10. \A n \in Name : Says(n, 1) <=> o \in Link /\ NameOf[o] = n /\ w # Absent
    BY <1>3 DEF Says
  <1>11. ASSUME NEW n \in Name, NEW v \in LinkVal, Known(n, v), ~Says(n, 1) PROVE Known(n, v)'
    <2>1. ~Telling(n)' /\ Agrees(n, v)'
      BY <1>4, <1>5, <1>8, <1>10, <1>11
    <2> QED BY <1>2, <2>1 DEF Known
  <1>12. ASSUME Lossless, NEW n \in Name, Says(n, 1) PROVE Known(n, w)'
    <2>1. CASE live[o] # w
      BY <1>2, <1>8, <1>9, <1>10, <1>12, <2>1 DEF Known
    <2>2. CASE live[o] = w
      <3>1. 1 \in 1..Len(queue) /\ queue[1].obj = o /\ queue[1].val = w /\ w \in LinkVal
        BY <1>3, <1>12, QueuedValues
      <3>2. NoneSays(n, 1, 1 - 1) /\ NoneAbout(o, 1, 1 - 1)
        BY DEF NoneSays, NoneAbout
      <3>3. Agrees(n, w)
        BY <1>4, <1>12, <2>2, <3>1, <3>2 DEF SaidInv, Repeats
      <3>4. ~Telling(n)' /\ Agrees(n, w)'
        <4>1. Agrees(n, w)'
          BY <1>2, <3>3 DEF Agrees
        <4> QED BY <1>8, <2>2, <4>1
      <3> QED BY <1>2, <3>4 DEF Known
    <2> QED BY <2>1, <2>2
  <1> QED BY <1>1, <1>11, <1>12

LEMMA SaidPoll == ASSUME LinkBase, SaidInv, Poll PROVE SaidInv'
  <1>i. Initialized /\ Initialized' /\ UNCHANGED <<kernel, main, drops>> /\ queue # <<>> /\ queue' = Tail(queue)
    BY DEF Poll, Include, Initialized, mainVars
  <1>1. PICK o, w, N : o = Head(queue).obj /\ w = Head(queue).val /\ N = Len(queue)
    OBVIOUS
  <1>p. /\ o \in Obj /\ \A p \in Obj : live'[p] = IF p = o THEN w ELSE live[p]
        /\ \A n \in Name, v \in LinkVal : Known(n, v) /\ ~Says(n, 1) => Known(n, v)'
        /\ Lossless => \A n \in Name : Says(n, 1) => Known(n, w)'
    BY <1>1, PollKnown
  <1>t. TypeOK
    BY DEF LinkBase, BaseInv
  <1>a. /\ N \in Nat \ {0} /\ Len(queue') = N - 1 /\ queue[1] = Head(queue)
        /\ \A i \in 1..N - 1 : queue'[i] = queue[i + 1]
        /\ \A n \in Name, i \in 1..N - 1 : Says(n, i)' <=> Says(n, i + 1)
        /\ \A n \in Name, i \in 1..N, j \in 0..N - 1 : NoneSays(n, i, j)' => NoneSays(n, i + 1, j + 1)
        /\ \A p : \A i \in 1..N, j \in 0..N - 1 : NoneAbout(p, i, j)' => NoneAbout(p, i + 1, j + 1)
    BY <1>i, <1>t, <1>1, Taken
  <1>f. Filled("link") /\ Filled("link")'
    BY <1>i DEF Filled, Initialized
  <1>2. OneEach(kernel)' /\ Introduced'
    BY <1>i, <1>f DEF SaidInv, OneEach, Introduced
  <1> SUFFICES ASSUME Lossless' PROVE LastSaid' /\ Repeats' /\ Newest' /\ Turns'
    BY <1>2 DEF SaidInv
  <1>s. Lossless /\ LastSaid /\ Repeats /\ Newest /\ Turns
    BY <1>i DEF SaidInv, Lossless
  <1>h. \A n \in Name : Says(n, 1) <=> o \in Link /\ NameOf[o] = n /\ w # Absent
    BY <1>1, <1>a DEF Says
  <1>n. ASSUME NEW n \in Name, NEW k \in 2..N + 1, NoneSays(n, 2, k - 1), ~Says(n, 1) PROVE NoneSays(n, 1, k - 1)
    <2>1. \A j \in 1..k - 1 : j = 1 \/ j \in 2..k - 1
      BY <1>a
    <2> QED BY <1>n, <2>1 DEF NoneSays
  <1>4. LastSaid'
    <2> SUFFICES ASSUME NEW n \in Name, NoneSays(n, 1, N - 1)', NEW v \in LinkVal, HasValue(kernel, n, v)
                 PROVE  Known(n, v)'
      BY <1>i, <1>a DEF LastSaid, HasValue
    <2>1. NoneSays(n, 1 + 1, (N - 1) + 1) /\ (N - 1) + 1 = N /\ 1 + 1 = 2
      <3>1. 1 \in 1..N /\ N - 1 \in 0..N - 1 /\ (N - 1) + 1 = N
        BY <1>a
      <3> QED BY <1>a, <3>1
    <2>2. CASE ~Says(n, 1)
      <3>1. NoneSays(n, 1, N)
        <4>1. N + 1 \in 2..N + 1 /\ (N + 1) - 1 = N
          BY <1>a
        <4> QED BY <1>n, <2>1, <2>2, <4>1
      <3> QED BY <1>s, <1>f, <1>p, <1>1, <2>2, <3>1 DEF LastSaid
    <2>3. CASE Says(n, 1)
      <3>1. 1 \in 1..N
        BY <1>a
      <3>2. /\ \A m \in Link : NameOf[m] = n /\ m # o => kernel[m] = Absent
            /\ kernel[o] = w \/ (kernel[o] = Absent /\ w = LinkDown)
        BY <1>s, <1>1, <1>a, <2>1, <2>3, <3>1 DEF Newest
      <3>3. v = w
        BY <1>h, <2>3, <3>2 DEF HasValue
      <3> QED BY <1>p, <1>s, <2>3, <3>3
    <2> QED BY <2>2, <2>3
  <1>5. Repeats'
    <2> SUFFICES ASSUME NEW n \in Name, NEW k \in 1..N - 1, Says(n, k)', NoneSays(n, 1, k - 1)',
                        NoneAbout(queue[k].obj, 1, k - 1)', live'[queue'[k].obj] = queue'[k].val
                 PROVE  Known(n, queue[k].val)'
      BY <1>a DEF Repeats
    <2>1. PICK p, x : p = queue'[k].obj /\ x = queue'[k].val
      OBVIOUS
    <2>2. /\ k + 1 \in 1..N /\ k + 1 \in 2..N + 1 /\ (k + 1) - 1 = k /\ 1 \in 1..N /\ k - 1 \in 0..N - 1
          /\ (k - 1) + 1 = k /\ 1 < k + 1 /\ 1 + 1 = 2
      BY <1>a
    <2>3. Says(n, k + 1) /\ NoneSays(n, 2, k) /\ p = queue[k + 1].obj /\ x = queue[k + 1].val
      BY <1>a, <2>1, <2>2
    <2>4. \A q \in 2..k : queue[q].obj # p
      <3>1. \A q \in 1..k - 1 : queue'[q].obj # p
        BY <2>1 DEF NoneAbout
      <3>2. ASSUME NEW q \in 2..k PROVE queue[q].obj # p
        <4>1. q - 1 \in 1..k - 1 /\ q - 1 \in 1..N - 1 /\ (q - 1) + 1 = q
          BY <1>a
        <4> QED BY <1>a, <3>1, <4>1
      <3> QED BY <3>2
    <2>5. p \in Link /\ NameOf[p] = n /\ x # Absent /\ x \in LinkVal /\ live'[p] = x
      BY <1>t, <1>1, <2>1, <2>2, <2>3, QueuedValues DEF Says
    <2>6. CASE ~Says(n, 1)
      <3>1. p # o
        BY <1>h, <1>p, <2>5, <2>6
      <3>2. NoneSays(n, 1, k)
        BY <1>n, <2>2, <2>3, <2>6
      <3>3. NoneAbout(p, 1, k)
        <4>1. \A q \in 1..k : q = 1 \/ q \in 2..k
          BY <2>2
        <4> QED BY <1>1, <1>a, <2>4, <3>1, <4>1 DEF NoneAbout
      <3>4. live[p] = x
        BY <1>p, <2>5, <3>1, LinksAreObjects
      <3>5. Known(n, x)
        BY <1>s, <1>1, <2>2, <2>3, <3>2, <3>3, <3>4 DEF Repeats
      <3>6. Known(n, x)'
        BY <1>p, <2>5, <2>6, <3>5
      <3> QED BY <2>1, <3>6 DEF Known, Agrees
    <2>7. CASE Says(n, 1)
      <3>1. NoneSays(n, 1 + 1, (k + 1) - 1) /\ NoneAbout(queue[k + 1].obj, 1 + 1, (k + 1) - 1)
        BY <2>2, <2>3, <2>4 DEF NoneAbout
      <3>2. IF o = p THEN w # x ELSE w = LinkDown /\ x = LinkDown
        <4>1. 1 \in 1..Len(queue) /\ k + 1 \in 1..Len(queue) /\ 1 < k + 1 /\ queue[1].obj = o /\ queue[1].val = w
          BY <1>1, <1>a, <2>2
        <4>2. Turns /\ Says(n, 1) /\ Says(n, k + 1) /\ queue[k + 1].obj = p /\ queue[k + 1].val = x
          BY <1>s, <2>3, <2>7
        <4> QED BY <3>1, <4>1, <4>2 DEF Turns
      <3>3. w = x
        BY <1>p, <2>5, <3>2, LinksAreObjects
      <3>4. Known(n, x)'
        BY <1>p, <1>s, <2>7, <3>3
      <3> QED BY <2>1, <3>4 DEF Known, Agrees
    <2> QED BY <2>6, <2>7
  <1>6. Newest'
    <2> SUFFICES ASSUME NEW n \in Name, NEW i \in 1..N - 1, Says(n, i)', NoneSays(n, i + 1, N - 1)'
                 PROVE  LET l == queue'[i].obj
                        IN  /\ \A p \in Link : NameOf[p] = n /\ p # l => kernel'[p] = Absent
                            /\ kernel'[l] = queue'[i].val \/ (kernel'[l] = Absent /\ queue'[i].val = LinkDown)
      BY <1>a DEF Newest
    <2>1. i + 1 \in 1..N /\ N - 1 \in 0..N - 1 /\ (N - 1) + 1 = N
      BY <1>a
    <2>2. Says(n, i + 1) /\ NoneSays(n, (i + 1) + 1, N) /\ queue'[i] = queue[i + 1]
      BY <1>a, <2>1
    <2> QED BY <1>i, <1>s, <1>1, <2>1, <2>2 DEF Newest
  <1>7. Turns'
    <2> SUFFICES ASSUME NEW n \in Name, NEW i \in 1..N - 1, NEW k \in 1..N - 1, i < k, Says(n, i)', Says(n, k)',
                        NoneSays(n, i + 1, k - 1)', NoneAbout(queue[k].obj, i + 1, k - 1)'
                 PROVE  IF queue'[i].obj = queue'[k].obj THEN queue'[i].val # queue'[k].val
                        ELSE queue'[i].val = LinkDown /\ queue'[k].val = LinkDown
      BY <1>a DEF Turns
    <2>1. /\ i + 1 \in 1..N /\ k + 1 \in 1..N /\ k - 1 \in 0..N - 1 /\ i + 1 < k + 1
          /\ (k - 1) + 1 = (k + 1) - 1
      BY <1>a
    <2>2. /\ Says(n, i + 1) /\ Says(n, k + 1) /\ NoneSays(n, (i + 1) + 1, (k + 1) - 1)
          /\ queue'[i] = queue[i + 1] /\ queue'[k] = queue[k + 1]
      BY <1>a, <2>1
    <2>3. NoneAbout(queue[k + 1].obj, (i + 1) + 1, (k + 1) - 1)
      <3>1. PICK p : p = queue'[k].obj
        OBVIOUS
      <3>2. NoneAbout(p, i + 1, k - 1)'
        BY <3>1 DEF NoneAbout
      <3> QED BY <1>a, <2>1, <2>2, <3>1, <3>2
    <2> QED BY <1>s, <1>1, <2>1, <2>2, <2>3 DEF Turns
  <1> QED BY <1>4, <1>5, <1>6, <1>7

LEMMA SaidAddCache == ASSUME LinkBase, SaidInv, NEW k \in Kind, AddCache(k) PROVE SaidInv'
  <1>1. /\ UNCHANGED <<kernel, queue, live, drops, todo, adminSaid, operSaid>>
        /\ main = <<"join", k>> /\ main' = <<"refill", k>> /\ TypeOK
    BY DEF AddCache, JoinGroups, linkVars, LinkBase, BaseInv
  <1>2. Filled("link")' <=> Filled("link")
    BY StageOrder, <1>1 DEF Kind
  <1>3. ~Initialized /\ ~Initialized'
    BY <1>1 DEF Initialized
  <1>4. \A n \in Name : Walk(n)' => Walk(n)
    BY <1>1 DEF Walk
  <1>5. Introduced'
    BY <1>1, <1>2, <1>3, <1>4 DEF SaidInv, Introduced, OneEach, HasValue, Agrees
  <1>6. \A n \in Name, v \in LinkVal : Known(n, v) => Known(n, v)'
    BY <1>1, <1>3 DEF Known, HasValue
  <1> QED BY <1>1, <1>2, <1>5, <1>6, SaidQuiet DEF Lossless

\* Filling the link cache makes the kernel's values known; the other fills leave it alone.
LEMMA SaidFillCache == ASSUME LinkBase, SaidInv, NEW k \in Kind, FillCache(k) PROVE SaidInv'
  <1>1. /\ UNCHANGED <<kernel, queue, drops, adminSaid, operSaid>>
        /\ main = <<"refill", k>> /\ main' = AfterRefill[k] /\ TypeOK
    BY DEF FillCache, Refill, linkVars, LinkBase, BaseInv
  <1>2. \A l \in Link : live'[l] = IF k = "link" THEN kernel[l] ELSE live[l]
    BY LinksAreObjects DEF FillCache, Refill, Objs
  <1>3. ~Initialized /\ ~Initialized'
    BY <1>1 DEF Initialized, AfterRefill, Kind
  <1>4. CASE k = "link"
    <2>1. /\ ~Filled("link") /\ Filled("link")' /\ main' = <<"join", "route">>
          /\ \A l \in Link : live[l] = Absent
      BY <1>1, <1>4 DEF Filled, AfterRefill, SaidInv, Introduced
    <2>2. \A n \in Name, v \in LinkVal : HasValue(kernel, n, v) => Known(n, v)'
      BY <1>2, <1>3, <1>4 DEF Known, HasValue
    <2>3. Introduced'
      <3>1. ASSUME NEW n \in Name, NEW v \in LinkVal, Walk(n)', HasValue(live, n, v)'
            PROVE  Agrees(n, v)'
        <4>1. v = LinkDown
          BY <2>1, <3>1 DEF Walk, HasValue
        <4>2. Walk(n) /\ HasValue(live, n, v)
          BY <2>1, <4>1 DEF Walk, HasValue
        <4> QED BY <1>1, <1>3, <4>2 DEF SaidInv, Introduced, Agrees
      <3>2. OneEach(live)'
        BY <1>2, <1>4 DEF SaidInv, OneEach
      <3> QED BY <2>1, <3>1, <3>2 DEF Introduced
    <2>4. OneEach(kernel)'
      BY <1>1 DEF SaidInv, OneEach
    <2> SUFFICES ASSUME Lossless PROVE LastSaid' /\ Repeats' /\ Newest' /\ Turns'
      BY <1>1, <2>3, <2>4 DEF SaidInv, Lossless
    <2>5. LastSaid'
      BY <1>1, <2>2 DEF LastSaid, HasValue
    <2>6. Repeats'
      <3> SUFFICES ASSUME NEW n \in Name, NEW i \in 1..Len(queue), Says(n, i), live'[queue[i].obj] = queue[i].val
                   PROVE  Known(n, queue[i].val)'
        BY <1>1 DEF Repeats, Says
      <3>1. queue[i].val \in LinkVal /\ HasValue(kernel, n, queue[i].val)
        BY <1>1, <1>2, <1>4, QueuedValues DEF Says, HasValue
      <3> QED BY <1>1, <2>2, <3>1 DEF Known, HasValue
    <2>7. Newest' /\ Turns'
      <3>1. UNCHANGED <<kernel, queue>> /\ Lossless /\ SaidInv
        BY <1>1
      <3> QED BY <3>1, QueueSame
    <2> QED BY <2>5, <2>6, <2>7
  <1>5. CASE k # "link"
    <2>1. /\ \A l \in Link : live'[l] = live[l]
          /\ Filled("link") /\ Filled("link")'
      BY <1>1, <1>2, <1>5 DEF Filled, AfterRefill, Kind
    <2>2. \A n \in Name : Walk(n)' => Walk(n)
      <3>1. CASE main' = <<"foreach", "link">>
        <4>1. \A l \in Link : live[l] # Absent => l \in todo'
          BY <3>1, LinksAreObjects DEF FillCache, ToVisit, Objs
        <4>2. \A n \in Name : Walk(n)' => \A l \in Link : NameOf[l] = n => live[l] = Absent
          BY <2>1, <3>1, <4>1 DEF Walk
        <4> QED BY <4>2 DEF Walk
      <3>2. CASE main'[1] = "join"
        BY <2>1, <3>2 DEF Walk
      <3> QED BY <1>1, <1>5, <3>1, <3>2 DEF AfterRefill, Kind
    <2>3. Introduced'
      BY <1>1, <1>3, <2>1, <2>2 DEF SaidInv, Introduced, OneEach, HasValue, Agrees
    <2>4. \A n \in Name, v \in LinkVal : Known(n, v) => Known(n, v)'
      BY <1>3, <2>1 DEF Known, HasValue
    <2>5. OneEach(kernel)'
      BY <1>1 DEF SaidInv, OneEach
    <2> SUFFICES ASSUME Lossless PROVE LastSaid' /\ Repeats' /\ Newest' /\ Turns'
      BY <1>1, <2>3, <2>5 DEF SaidInv, Lossless
    <2>6. LastSaid'
      BY <1>1, <2>1, <2>4 DEF SaidInv, LastSaid, HasValue, NoneSays, Says
    <2>7. Repeats'
      <3> SUFFICES ASSUME NEW n \in Name, NEW i \in 1..Len(queue), Says(n, i), NoneSays(n, 1, i - 1),
                          NoneAbout(queue[i].obj, 1, i - 1), live'[queue[i].obj] = queue[i].val
                   PROVE  Known(n, queue[i].val)'
        BY <1>1 DEF Repeats, Says, NoneSays, NoneAbout
      <3>1. queue[i].val \in LinkVal /\ live[queue[i].obj] = queue[i].val
        BY <1>1, <2>1, QueuedValues DEF Says
      <3>2. Known(n, queue[i].val)
        BY <3>1 DEF SaidInv, Repeats
      <3> QED BY <1>1, <2>4, <3>1, <3>2 DEF Known, HasValue
    <2>8. Newest' /\ Turns'
      <3>1. UNCHANGED <<kernel, queue>> /\ Lossless /\ SaidInv
        BY <1>1
      <3> QED BY <3>1, QueueSame
    <2> QED BY <2>6, <2>7, <2>8
  <1> QED BY <1>4, <1>5

\* The walk of the links tells each interface that is cached; then run() takes over.
LEMMA SaidInitCallback == ASSUME LinkBase, SaidInv, NEW o \in Obj, InitCallback(o) PROVE SaidInv'
  <1>1. /\ UNCHANGED <<kernel, queue, live, drops, main, pending>> /\ todo' = todo \ {o}
        /\ main = <<"foreach", KindOf(o)>> /\ o \in todo /\ Process("add", o, live[o]) /\ TypeOK
    BY DEF InitCallback, netlinkVars, LinkBase, BaseInv
  <1>2. ~Initialized /\ ~Initialized'
    BY <1>1 DEF Initialized
  <1>3. live[o] \in ValOf(o) /\ live[o] # Absent
    BY <1>1 DEF TypeOK, NetlinkTypeOK, Table
  <1>4. m_state # "INIT" /\ FeedInv
    BY <1>1 DEF LinkBase, LinkInv, Prepared
  <1>5. \A n \in Name : IF o \in Link /\ NameOf[o] = n THEN Agrees(n, live[o])'
                        ELSE UNCHANGED <<adminSaid[n], operSaid[n]>>
    <2>1. PICK w : w = live[o]
      OBVIOUS
    <2>2. \A n \in Name : IF o \in Link /\ NameOf[o] = n THEN Agrees(n, w)'
                          ELSE UNCHANGED <<adminSaid[n], operSaid[n]>>
      BY <1>1, <1>3, <1>4, <2>1, LinkTold
    <2> QED BY <1>1, <2>1, <2>2 DEF Agrees
  <1>6. ASSUME NEW n \in Name, NEW v \in LinkVal, Walk(n)', HasValue(live, n, v)
        PROVE  Agrees(n, v)'
    <2>1. CASE o \in Link /\ NameOf[o] = n
      <3>1. v = live[o]
        BY <1>2, <1>3, <1>6, <2>1 DEF SaidInv, Introduced, OneEach, HasValue
      <3> QED BY <1>1, <1>5, <2>1, <3>1 DEF Agrees
    <2>2. CASE ~(o \in Link /\ NameOf[o] = n)
      <3>1. Walk(n)
        BY <1>1, <1>6, <2>2 DEF Walk
      <3>2. Agrees(n, v)
        BY <1>2, <1>6, <3>1 DEF SaidInv, Introduced
      <3> QED BY <1>5, <2>2, <3>2 DEF Agrees
    <2> QED BY <2>1, <2>2
  <1>7. Introduced'
    BY <1>1, <1>2, <1>6 DEF SaidInv, Introduced, Filled, OneEach, HasValue
  <1>8. \A n \in Name, v \in LinkVal : Known(n, v) => Known(n, v)'
    BY <1>1, <1>2 DEF Known, HasValue
  <1> QED BY <1>1, <1>7, <1>8, SaidQuiet DEF Lossless, Filled

LEMMA SaidForeachDone == ASSUME LinkBase, SaidInv, NEW k \in Kind, ForeachDone(k) PROVE SaidInv'
  <1>1. /\ UNCHANGED <<kernel, queue, live, drops, pending, adminSaid, operSaid>> /\ todo = {}
        /\ main = <<"foreach", k>> /\ main' = AfterForeach[k] /\ TypeOK
    BY DEF ForeachDone, netlinkVars, linkVars, LinkBase, BaseInv
  <1>2. ~Initialized /\ (Initialized' <=> k = "route")
    BY <1>1 DEF Initialized, AfterForeach, Kind
  <1>3. \A n \in Name : Walk(n)
    BY <1>1 DEF Walk, Kind
  <1>4. Filled("link") /\ Filled("link")'
    BY <1>1 DEF Filled, AfterForeach, Kind
  <1>5. \A n \in Name, v \in LinkVal : HasValue(live, n, v) => Agrees(n, v)'
    BY <1>1, <1>2, <1>3 DEF SaidInv, Introduced, Agrees
  <1>6. Introduced'
    BY <1>1, <1>2, <1>4, <1>5 DEF SaidInv, Introduced, OneEach, HasValue
  <1>7. \A n \in Name, v \in LinkVal : Known(n, v) => Known(n, v)'
    <2> SUFFICES ASSUME NEW n \in Name, NEW v \in LinkVal, HasValue(live, n, v) PROVE Known(n, v)'
      BY <1>2 DEF Known
    <2>1. CASE k = "route"
      <3>1. pending' = NoCallback
        BY <1>1, <1>2 DEF LinkBase, BaseInv, CloneInv, Initialized
      <3> QED BY <1>2, <1>5, <2>1, <3>1 DEF Known, Telling
    <2>2. CASE k # "route"
      BY <1>1, <1>2, <2>2 DEF Known, HasValue
    <2> QED BY <2>1, <2>2
  <1> QED BY <1>1, <1>4, <1>6, <1>7, SaidQuiet DEF Lossless

\* A callback tells what was to be told.
LEMMA SaidCallback == ASSUME LinkBase, SaidInv, ChangeCallback PROVE SaidInv'
  <1>1. /\ UNCHANGED <<kernel, queue, live, drops, main, todo>> /\ pending # NoCallback /\ pending' = NoCallback
        /\ Process(pending.action, pending.obj, pending.val) /\ pending \in Callback /\ TypeOK
    BY DEF ChangeCallback, mainVars, LinkBase, BaseInv, TypeOK, NetlinkTypeOK
  <1>2. Initialized /\ Initialized'
    BY <1>1 DEF LinkBase, BaseInv, CloneInv, Initialized
  <1>3. m_state # "INIT" /\ FeedInv
    BY <1>1 DEF LinkBase, LinkInv, Prepared
  <1>4. PICK o, w, action : o = pending.obj /\ w = pending.val /\ action = pending.action
    OBVIOUS
  <1>5. o \in Obj /\ w \in ValOf(o) /\ Process(action, o, w)
    BY <1>1, <1>4 DEF Callback
  <1>6. \A n \in Name : IF o \in Link /\ NameOf[o] = n /\ action # "delete" THEN Agrees(n, w)'
                        ELSE UNCHANGED <<adminSaid[n], operSaid[n]>>
    BY <1>1, <1>3, <1>5, LinkTold
  <1>7. Introduced'
    BY <1>1, <1>2 DEF SaidInv, Introduced, Filled
  <1>8. ASSUME NEW n \in Name, NEW v \in LinkVal, Known(n, v) PROVE Known(n, v)'
    <2>1. Telling(n) <=> o \in Link /\ NameOf[o] = n /\ action # "delete"
      BY <1>1, <1>4 DEF Telling
    <2>2. CASE Telling(n)
      <3>1. v = w
        BY <1>2, <1>4, <1>8, <2>2 DEF Known
      <3> QED BY <1>1, <1>2, <1>6, <2>1, <2>2, <3>1 DEF Known, Telling
    <2>3. CASE ~Telling(n)
      <3>1. Agrees(n, v)
        BY <1>2, <1>8, <2>3 DEF Known
      <3>2. Agrees(n, v)'
        BY <1>6, <2>1, <2>3, <3>1 DEF Agrees
      <3> QED BY <1>1, <1>2, <3>2 DEF Known, Telling
    <2> QED BY <2>2, <2>3
  <1> QED BY <1>1, <1>7, <1>8, SaidQuiet DEF Lossless, Filled

LEMMA SaidInvStep == LinkBase /\ SaidInv /\ [Next]_vars => SaidInv'
  <1> SUFFICES ASSUME LinkBase, SaidInv, [Next]_vars PROVE SaidInv'
    OBVIOUS
  <1>1. CASE PollFails \/ UNCHANGED vars
    <2>1. /\ UNCHANGED <<kernel, queue, live, main, todo, pending, adminSaid, operSaid>>
          /\ Lossless' => Lossless
      BY <1>1 DEF PollFails, vars, netlinkVars, mainVars, linkVars, Lossless
    <2>2. Introduced' /\ \A n \in Name, v \in LinkVal : Known(n, v)' <=> Known(n, v)
      BY <2>1, IntroducedSame, KnownSame DEF SaidInv
    <2> QED BY <2>1, <2>2, SaidQuiet DEF LinkBase, BaseInv, Filled
  <1> QED BY <1>1, SaidKernelMoves, SaidPoll, SaidAddCache, SaidFillCache, SaidInitCallback, SaidForeachDone,
             SaidCallback DEF Next, MainStep, CacheThreadStep

LEMMA SaidInvInit == Init => SaidInv
  <1> SUFFICES ASSUME Init PROVE SaidInv
    OBVIOUS
  <1>1. queue = <<>> /\ Len(queue) = 0 /\ main = <<"join", "link">> /\ \A l \in Link : live[l] = Absent
    BY LinksAreObjects DEF Init, NetlinkInit
  <1>2. ~Filled("link") /\ ~Initialized
    BY <1>1 DEF Filled, Initialized
  <1>3. OneEach(kernel) /\ OneEach(live)
    BY <1>1 DEF Init, NetlinkInit, OneEach
  <1>4. ASSUME NEW n \in Name, NEW v \in LinkVal, HasValue(live, n, v) PROVE Agrees(n, v)
    <2>1. v = LinkDown
      BY <1>1, <1>4 DEF HasValue
    <2> QED BY <2>1 DEF Init, Agrees, LinkDown
  <1>5. Introduced
    BY <1>1, <1>3, <1>4 DEF Introduced
  <1> QED BY <1>1, <1>2, <1>3, <1>5 DEF SaidInv, LastSaid, Repeats, Newest, Turns

LEMMA LinkBaseInvariant == (Init => LinkBase) /\ (LinkBase /\ [Next]_vars => LinkBase')
  BY BaseInit, BaseStep, LinkInvInit, LinkInvStep, ConvergeInvInit, ConvergeInvStep DEF LinkBase

\* When nothing is on its way the kernel's value of every name is known.
LEMMA QuiescentLinks ==
    ASSUME LinkBase, SaidInv, Quiescent, NEW n \in Name, NEW v \in LinkVal, HasValue(kernel, n, v)
    PROVE  Agrees(n, v)
  <1>1. Filled("link") /\ NoneSays(n, 1, Len(queue)) /\ Lossless /\ Initialized /\ ~Telling(n)
    BY DEF Quiescent, Initialized, Filled, NoneSays, Telling
  <1> QED BY <1>1 DEF SaidInv, LastSaid, Known

\* Then the last words on every name are right.
LEMMA RightWords == LinkBase /\ SaidInv => LinkFeedMatchesKernel
  <1> SUFFICES ASSUME LinkBase, SaidInv, Quiescent, NEW n \in Name
               PROVE  LET up == {l \in Link : NameOf[l] = n /\ kernel[l] \notin {Absent, LinkDown}}
                      IN  /\ adminSaid[n] = "up" <=> up # {}
                          /\ \A l \in up : kernel[l].oper = "UP" => operSaid[n] = "add"
                          /\ operSaid[n] = "add" => \E l \in up : kernel[l].oper # "DOWN"
    BY DEF LinkFeedMatchesKernel
  <1> DEFINE up == {l \in Link : NameOf[l] = n /\ kernel[l] \notin {Absent, LinkDown}}
  <1>1. OneEach(kernel) /\ \A l \in Link : kernel[l] \in LinkVal \cup {Absent}
    BY QueuedValues DEF SaidInv, LinkBase, BaseInv
  <1>2. \A v \in LinkVal : v # LinkDown => v.up
    BY DEF LinkVal
  <1>3. ~LinkDown.up /\ LinkDown.oper = "DOWN"
    BY DEF LinkDown
  <1>4. CASE up = {}
    <2>1. HasValue(kernel, n, LinkDown)
      BY <1>1, <1>4, LinksAreObjects DEF HasValue
    <2>2. Agrees(n, LinkDown)
      BY <2>1, QuiescentLinks, LinksAreObjects
    <2> QED BY <1>3, <1>4, <2>2 DEF Agrees
  <1>5. ASSUME NEW l \in up PROVE /\ adminSaid[n] = "up" <=> up # {}
                                  /\ \A m \in up : kernel[m].oper = "UP" => operSaid[n] = "add"
                                  /\ operSaid[n] = "add" => \E m \in up : kernel[m].oper # "DOWN"
    <2>1. l \in Link /\ NameOf[l] = n /\ kernel[l] \in LinkVal /\ kernel[l] # LinkDown /\ kernel[l] # Absent
      BY <1>1, <1>5
    <2>2. \A m \in up : m = l
      BY <1>1, <2>1 DEF OneEach
    <2>3. HasValue(kernel, n, kernel[l])
      BY <2>1 DEF HasValue
    <2>4. Agrees(n, kernel[l])
      BY <2>1, <2>3, QuiescentLinks
    <2>5. kernel[l].up
      BY <1>2, <2>1
    <2> QED BY <1>5, <2>2, <2>4, <2>5 DEF Agrees
  <1> QED BY <1>4, <1>5

\* Although the removal of a link publishes nothing and messages older than the first dump
\* are replayed over it, link subscribers end up with the right words on every name.
THEOREM LinkFeedTrue == Spec => []LinkFeedMatchesKernel
  <1> QED BY RightWords, LinkBaseInvariant, SaidInvInit, SaidInvStep, PTL DEF Spec
=================================================================================
