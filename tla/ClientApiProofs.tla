----------------------------- MODULE ClientApiProofs -----------------------------
(* Theorems about ClientApi, for any clients, subscribers, objects and     *)
(* numbers of notifications and queries.                                   *)
EXTENDS ClientApi, SequenceTheorems, TLAPS

-----------------------------------------------------------------------------
(* What a walk has found when it has seen some of the objects of a clone.  *)

PartlyRight(q, seen, acc) ==
    /\ q.op = "getInterfaces" => acc = seen \cap Ether
    /\ q.op = "getIpaddr" => acc = {a \in seen : OnLink[a] = q.ifc}
    /\ q.op = "getDefaultRoute" =>
          \/ acc = {} /\ Candidates(seen) = {}
          \/ \E r \in Best(seen) : acc = {r}

LEMMA QueryFacts ==
    ASSUME NEW q \in Query
    PROVE  /\ q.op \in {"getIpaddr", "getInterfaces", "getDefaultRoute"}
           /\ Walked(q) \in Kind /\ Needed(q) \subseteq Kind /\ "link" \in Needed(q)
           /\ q.op = "getIpaddr" => q.ifc \in Link
  BY DEF Query, Walked, Needed, Kind

LEMMA KindFacts ==
    /\ Objs("link") = Link /\ Objs("addr") = Addr /\ Objs("route") = Route
    /\ \A o \in Obj : KindOf(o) \in Kind /\ o \in Objs(KindOf(o))
    /\ \A k \in Kind : Objs(k) \subseteq Obj
  BY QueriesAssumption DEF Objs, KindOf, Obj, Kind

\* One more object.
LEMMA VisitedRight ==
    ASSUME NEW q \in Query, NEW seen \in SUBSET Objs(Walked(q)), NEW o \in Objs(Walked(q)), NEW acc,
           PartlyRight(q, seen, acc)
    PROVE  PartlyRight(q, seen \cup {o}, Visited(q, o, acc))
  <1>1. CASE q.op = "getInterfaces"
    BY <1>1 DEF PartlyRight, Visited, get_interfaces_cb
  <1>2. CASE q.op = "getIpaddr"
    BY <1>2 DEF PartlyRight, Visited, get_ip_addr_cb
  <1>3. CASE q.op = "getDefaultRoute"
    <2>1. Walked(q) = "route" /\ o \in Route /\ seen \subseteq Route
      BY <1>3, KindFacts DEF Walked
    <2>2. \A r \in Route : Priority[r] \in Nat
      BY QueriesAssumption
    <2>3. MaxPriority \in Nat
      BY QueriesAssumption
    <2>4. Visited(q, o, acc) = get_default_route_cb(o, acc)
      BY <1>3 DEF Visited
    <2>5. Candidates(seen \cup {o}) =
              IF o \in Usable /\ Priority[o] < MaxPriority THEN Candidates(seen) \cup {o} ELSE Candidates(seen)
      BY <2>1 DEF Candidates
    <2>6. Candidates(seen) \subseteq Route
      BY <2>1 DEF Candidates
    <2>7. CASE ~(o \in Usable /\ Priority[o] < MaxPriority)
      BY <1>3, <2>4, <2>5, <2>7 DEF PartlyRight, get_default_route_cb, Best
    <2>8. CASE o \in Usable /\ Priority[o] < MaxPriority /\ acc = {} /\ Candidates(seen) = {}
      <3>1. get_default_route_cb(o, acc) = {o}
        BY <2>8 DEF get_default_route_cb
      <3>2. Candidates(seen \cup {o}) = {o}
        BY <2>5, <2>8
      <3>3. o \in Best(seen \cup {o})
        BY <2>1, <2>2, <3>2 DEF Best
      <3> QED BY <1>3, <2>4, <3>1, <3>3 DEF PartlyRight
    <2>9. ASSUME o \in Usable /\ Priority[o] < MaxPriority, NEW r \in Best(seen), acc = {r}
          PROVE  PartlyRight(q, seen \cup {o}, Visited(q, o, acc))
      <3>1. r \in Candidates(seen) /\ r \in Route /\ \A s \in Candidates(seen) : Priority[r] <= Priority[s]
        BY <2>6 DEF Best
      <3>2. Candidates(seen \cup {o}) = Candidates(seen) \cup {o}
        BY <2>5, <2>9
      <3>3. CASE Priority[o] < Priority[r]
        <4>1. get_default_route_cb(o, acc) = {o}
          BY <2>9, <3>3 DEF get_default_route_cb
        <4>2. \A s \in Candidates(seen) \cup {o} : Priority[o] <= Priority[s]
          BY <2>1, <2>2, <2>6, <3>1, <3>3
        <4>3. o \in Best(seen \cup {o})
          BY <3>2, <4>2 DEF Best
        <4> QED BY <1>3, <2>4, <4>1, <4>3 DEF PartlyRight
      <3>4. CASE ~(Priority[o] < Priority[r])
        <4>1. get_default_route_cb(o, acc) = {r}
          BY <2>9, <3>4 DEF get_default_route_cb
        <4>2. \A s \in Candidates(seen) \cup {o} : Priority[r] <= Priority[s]
          BY <2>1, <2>2, <3>1, <3>4
        <4>3. r \in Best(seen \cup {o})
          BY <3>1, <3>2, <4>2 DEF Best
        <4> QED BY <1>3, <2>4, <4>1, <4>3 DEF PartlyRight
      <3> QED BY <3>3, <3>4
    <2> QED BY <1>3, <2>7, <2>8, <2>9 DEF PartlyRight
  <1> QED BY <1>1, <1>2, <1>3, QueryFacts

\* Nothing has been seen.
LEMMA NothingSeen == ASSUME NEW q \in Query PROVE PartlyRight(q, {}, {})
  BY DEF PartlyRight, Candidates

\* Everything has been seen.
LEMMA AllSeen ==
    ASSUME NEW q \in Query, NEW have, NEW s, NEW acc, Needed(q) \subseteq have,
           PartlyRight(q, s[Walked(q)], acc), q.op = "getIpaddr" => q.ifc \in s["link"]
    PROVE  (IF q.op = "getDefaultRoute" THEN DefaultRoute(acc, s["link"]) ELSE Found(acc))
               \in Answers(q, have, s)
  <1>1. CASE q.op = "getInterfaces"
    BY <1>1 DEF PartlyRight, Answers, Walked
  <1>2. CASE q.op = "getIpaddr"
    BY <1>2 DEF PartlyRight, Answers, Walked
  <1>3. CASE q.op = "getDefaultRoute"
    <2>1. Answers(q, have, s) = IF Best(s["route"]) = {} THEN {Failed}
                               ELSE {DefaultRoute({r}, s["link"]) : r \in Best(s["route"])}
      BY <1>3 DEF Answers
    <2>2. CASE acc = {} /\ Candidates(s["route"]) = {}
      <3>1. Best(s["route"]) = {}
        BY <2>2 DEF Best
      <3>2. DefaultRoute(acc, s["link"]) = Failed
        BY <2>2 DEF DefaultRoute
      <3> QED BY <1>3, <2>1, <3>1, <3>2
    <2>3. CASE \E r \in Best(s["route"]) : acc = {r}
      BY <1>3, <2>1, <2>3
    <2> QED BY <1>3, <2>2, <2>3 DEF PartlyRight, Walked
  <1> QED BY <1>1, <1>2, <1>3, QueryFacts

-----------------------------------------------------------------------------
(* The inductive invariant.                                                *)

Holds(t) == call[t] # None /\ call[t].walking

DataInv ==
    /\ live \in [Kind -> SUBSET Obj] /\ clone \in [Kind -> SUBSET Obj]
    /\ \A k \in Kind : live[k] \subseteq Objs(k) /\ clone[k] \subseteq Objs(k)
    /\ pointer \in [Kind -> {"null", "freed", "valid"}]
    /\ kind \in Kind
    /\ call \in [Thread -> Call \cup {None}]
    /\ answer \in [Thread -> Answer \cup {None}]
    /\ \A t \in Thread : call[t] # None /\ ~call[t].walking => call[t].acc = {}

\* How many times the owner holds the mutex, from where it is.
Held ==
    IF owner = None THEN 0
    ELSE IF owner \in Client THEN 1
    ELSE (IF pc = "loop" /\ Head(says) # "dfltroute" THEN 2 ELSE 1) + (IF Holds(Monitor) THEN 1 ELSE 0)

MutexInv ==
    /\ owner \in Thread \cup {None}
    /\ depth = Held
    /\ \A t \in Client : Holds(t) <=> owner = t
    /\ pc \notin {"idle", "lock"} <=> owner = Monitor
    /\ call[Monitor] # None => pc = "loop"
    /\ stage = "config" => pc = "idle"

CacheInv ==
    /\ \A k \in Kind : /\ pointer[k] = "freed" => pc = "clone" /\ kind = k
                       /\ pointer[k] = "null" => clone[k] = {}
    /\ pc \in {"handle", "loop"} => clone[kind] = live[kind] /\ pointer[kind] = "valid"

WalkInv ==
    \A t \in Thread : Holds(t) =>
        LET q == call[t].query
        IN  /\ \A k \in Needed(q) : pointer[k] = "valid"
            /\ call[t].todo \subseteq clone[Walked(q)]
            /\ q.op = "getIpaddr" => q.ifc \in clone["link"]
            /\ PartlyRight(q, clone[Walked(q)] \ call[t].todo, call[t].acc)

IInv == DataInv /\ MutexInv /\ CacheInv /\ WalkInv

LEMMA CallFacts ==
    ASSUME DataInv, NEW t \in Thread, call[t] # None
    PROVE  /\ call[t] \in Call /\ call[t].query \in Query
           /\ call[t].walking \in BOOLEAN /\ call[t].todo \subseteq Obj /\ call[t].acc \subseteq Obj
  BY DEF DataInv, Call

LEMMA InitIInv == Init => IInv
  <1> SUFFICES ASSUME Init PROVE IInv
    OBVIOUS
  <1> USE DEF Init
  <1>1. DataInv
    BY KindFacts DEF DataInv, Kind
  <1>2. \A t \in Thread : ~Holds(t)
    BY DEF Holds
  <1>3. None \notin Thread
    BY MarkersAssumption
  <1>4. MutexInv
    BY <1>2, <1>3 DEF MutexInv, Held, Thread
  <1>5. CacheInv
    BY DEF CacheInv
  <1>6. WalkInv
    BY <1>2 DEF WalkInv
  <1> QED BY <1>1, <1>4, <1>5, <1>6 DEF IInv

-----------------------------------------------------------------------------
(* Steps of a query.                                                       *)

\* What a step that begins, moves or ends t's query does to the other threads.
Others(t) == \A u \in Thread \ {t} : call'[u] = call[u]

LEMMA CallUpdated ==
    ASSUME DataInv, NEW t \in Thread, NEW c \in Call \cup {None}, call' = [call EXCEPT ![t] = c]
    PROVE  call' \in [Thread -> Call \cup {None}] /\ call'[t] = c /\ Others(t)
  BY DEF DataInv, Others

LEMMA BeginIInv ==
    ASSUME IInv, NEW t \in Thread, NEW q \in Query, Begin(t, q),
           t = Monitor => pc = "loop", UNCHANGED <<mutexVars, monitorVars, cacheVars, says>>
    PROVE  IInv'
  <1> DEFINE new == [query |-> q, walking |-> FALSE, todo |-> {}, acc |-> {}]
  <1>1. /\ new \in Call /\ call' = [call EXCEPT ![t] = new] /\ call' \in [Thread -> Call \cup {None}]
        /\ call'[t] = new /\ Others(t) /\ call[t] = None /\ new # None /\ UNCHANGED answer
    <2>1. new \in Call /\ new # None
      <3>1. new \in Call
        BY DEF Call
      <3> QED BY <3>1, MarkersAssumption
    <2>2. call' = [call EXCEPT ![t] = new] /\ call[t] = None /\ UNCHANGED answer
      BY DEF Begin
    <2> QED BY <2>1, <2>2, CallUpdated DEF IInv
  <1>2. /\ UNCHANGED <<owner, depth, pc, says, stage, kind, live, clone, pointer>>
    BY DEF mutexVars, monitorVars, cacheVars
  <1>3. \A u \in Thread : Holds(u)' <=> Holds(u)
    BY <1>1 DEF Holds, Others
  <1>4. DataInv'
    BY <1>1, <1>2 DEF IInv, DataInv, Others
  <1>5. Held' = Held
    BY <1>2, <1>3 DEF Held, Thread
  <1>6. MutexInv'
    BY <1>1, <1>2, <1>3, <1>5 DEF IInv, MutexInv, Others, Thread
  <1>7. CacheInv'
    BY <1>2 DEF IInv, CacheInv
  <1>8. WalkInv'
    <2> SUFFICES ASSUME NEW u \in Thread, Holds(u)'
                 PROVE  LET c == call'[u]
                        IN  /\ \A k \in Needed(c.query) : pointer'[k] = "valid"
                            /\ c.todo \subseteq clone'[Walked(c.query)]
                            /\ c.query.op = "getIpaddr" => c.query.ifc \in clone'["link"]
                            /\ PartlyRight(c.query, clone'[Walked(c.query)] \ c.todo, c.acc)
      BY DEF WalkInv
    <2>1. u # t
      BY <1>1, <1>3 DEF Holds
    <2> QED BY <2>1, <1>1, <1>2, <1>3 DEF IInv, WalkInv, Others
  <1> QED BY <1>4, <1>6, <1>7, <1>8 DEF IInv

LEMMA ReturnIInv ==
    ASSUME IInv, NEW t \in Thread, NEW a \in Answer, call[t] # None, Return(t, a),
           IF Holds(t) THEN unlock ELSE UNCHANGED mutexVars,
           UNCHANGED <<monitorVars, cacheVars, says>>
    PROVE  IInv'
  <1>1. call' \in [Thread -> Call \cup {None}] /\ call'[t] = None /\ Others(t)
    BY CallUpdated DEF Return, IInv
  <1>2. answer' \in [Thread -> Answer \cup {None}]
    BY DEF Return, IInv, DataInv
  <1>3. UNCHANGED <<pc, says, stage, kind, live, clone, pointer>>
    BY DEF monitorVars, cacheVars
  <1>4. ~Holds(t)' /\ \A u \in Thread \ {t} : Holds(u)' <=> Holds(u)
    BY <1>1 DEF Holds, Others
  <1>5. DataInv'
    BY <1>1, <1>2, <1>3 DEF IInv, DataInv, Others
  <1>6. MutexInv'
    <2>1. Monitor \notin Client /\ None \notin Thread
      BY SubscribersAssumption, MarkersAssumption
    <2>2. call'[Monitor] # None => pc' = "loop"
      BY <1>1, <1>3 DEF IInv, MutexInv, Others, Thread
    <2>3. stage' = "config" => pc' = "idle"
      BY <1>3 DEF IInv, MutexInv
    <2>4. CASE t = Monitor
      <3>1. pc = "loop" /\ owner = Monitor
        BY <2>4 DEF IInv, MutexInv
      <3>2. depth = (IF Head(says) # "dfltroute" THEN 2 ELSE 1) + (IF Holds(Monitor) THEN 1 ELSE 0)
        BY <3>1, <2>1 DEF IInv, MutexInv, Held, Thread
      <3>3. owner' = Monitor /\ depth' = IF Head(says) # "dfltroute" THEN 2 ELSE 1
        BY <3>1, <3>2, <2>4 DEF unlock, mutexVars
      <3>4. Held' = depth'
        BY <1>3, <1>4, <2>1, <2>4, <3>1, <3>3 DEF Held, Thread
      <3> QED BY <1>3, <1>4, <2>1, <2>2, <2>3, <2>4, <3>1, <3>3, <3>4 DEF IInv, MutexInv, Thread
    <2>5. CASE t \in Client /\ Holds(t)
      <3>1. owner = t /\ depth = 1
        BY <2>1, <2>5 DEF IInv, MutexInv, Held, Thread
      <3>2. owner' = None /\ depth' = 0
        BY <3>1, <2>5 DEF unlock
      <3>3. \A u \in Client : ~Holds(u)'
        BY <1>4, <2>1, <2>5, <3>1 DEF IInv, MutexInv, Thread
      <3> QED BY <1>3, <2>1, <2>2, <2>3, <2>5, <3>1, <3>2, <3>3 DEF IInv, MutexInv, Held, Thread
    <2>6. CASE t \in Client /\ ~Holds(t)
      <3>1. UNCHANGED <<owner, depth>> /\ \A u \in Thread : Holds(u)' <=> Holds(u)
        BY <1>4, <2>6 DEF mutexVars
      <3>2. Held' = Held
        BY <1>3, <3>1 DEF Held, Thread
      <3> QED BY <1>3, <2>1, <2>2, <2>3, <3>1, <3>2 DEF IInv, MutexInv, Thread
    <2> QED BY <2>4, <2>5, <2>6 DEF Thread
  <1>7. CacheInv'
    BY <1>3 DEF IInv, CacheInv
  <1>8. WalkInv'
    <2> SUFFICES ASSUME NEW u \in Thread, Holds(u)'
                 PROVE  LET c == call'[u]
                        IN  /\ \A k \in Needed(c.query) : pointer'[k] = "valid"
                            /\ c.todo \subseteq clone'[Walked(c.query)]
                            /\ c.query.op = "getIpaddr" => c.query.ifc \in clone'["link"]
                            /\ PartlyRight(c.query, clone'[Walked(c.query)] \ c.todo, c.acc)
      BY DEF WalkInv
    <2> QED BY <1>1, <1>3, <1>4 DEF IInv, WalkInv, Others
  <1> QED BY <1>5, <1>6, <1>7, <1>8 DEF IInv

LEMMA AnswerFacts ==
    /\ Failed \in Answer
    /\ \A objs \in SUBSET Obj : Found(objs) \in Answer
    /\ \A objs \in SUBSET Obj : \A links : DefaultRoute(objs, links) \in Answer
  BY DEF Failed, Found, DefaultRoute, Answer

\* A query that holds no clone back: where its walk may begin, nothing has been freed.
LEMMA MayEnter ==
    ASSUME IInv, NEW t \in Thread, call[t] # None, owner \in {None, t}
    PROVE  \A k \in Kind : pointer[k] # "freed"
  <1>1. Monitor \notin Client /\ None \notin Thread
    BY SubscribersAssumption, MarkersAssumption
  <1>2. pc # "clone"
    BY <1>1 DEF IInv, MutexInv, Thread
  <1> QED BY <1>2 DEF IInv, CacheInv

LEMMA EnterIInv ==
    ASSUME IInv, NEW t \in Thread, Enter(t), UNCHANGED <<monitorVars, cacheVars, says>>
    PROVE  IInv'
  <1> DEFINE q == call[t].query
             c == [call[t] EXCEPT !.walking = TRUE, !.todo = clone[Walked(q)]]
  <1>1. call[t] # None /\ ~call[t].walking /\ ~Holds(t) /\ owner \in {None, t}
    BY DEF Enter, lock, MayLock, Holds
  <1>2. call[t] \in Call /\ q \in Query /\ call[t].acc = {} /\ call[t].acc \subseteq Obj
    BY <1>1, CallFacts DEF IInv, DataInv
  <1>3. CASE ~MayWalk(q)
    <2>1. Return(t, Failed) /\ UNCHANGED mutexVars
      BY <1>3 DEF Enter
    <2> QED BY <2>1, <1>1, ReturnIInv, AnswerFacts
  <1>4. CASE MayWalk(q)
    <2>1. /\ lock(t) /\ UNCHANGED answer
          /\ call' = [call EXCEPT ![t].walking = TRUE, ![t].todo = clone[Walked(q)]]
      BY <1>4 DEF Enter
    <2>2. Walked(q) \in Kind /\ Needed(q) \subseteq Kind
      BY <1>2, QueryFacts
    <2>3. clone[Walked(q)] \subseteq Objs(Walked(q)) /\ clone[Walked(q)] \subseteq Obj
      BY <2>2, KindFacts DEF IInv, DataInv
    <2>4. /\ c \in Call /\ c.query = q /\ c.walking = TRUE /\ c.todo = clone[Walked(q)]
          /\ c.acc = call[t].acc /\ c # None
      BY <1>2, <2>3, MarkersAssumption DEF Call
    <2>5. call' = [call EXCEPT ![t] = c]
      BY <2>1 DEF IInv, DataInv
    <2>6. call' \in [Thread -> Call \cup {None}] /\ call'[t] = c /\ Others(t)
      BY <2>4, <2>5, CallUpdated DEF IInv
    <2>7. UNCHANGED <<pc, says, stage, kind, live, clone, pointer>>
      BY DEF monitorVars, cacheVars
    <2>8. Holds(t)' /\ \A u \in Thread \ {t} : Holds(u)' <=> Holds(u)
      BY <2>4, <2>6 DEF Holds, Others
    <2>9. DataInv'
      BY <2>1, <2>4, <2>6, <2>7 DEF IInv, DataInv, Others
    <2>10. MutexInv'
      <3>1. Monitor \notin Client /\ None \notin Thread
        BY SubscribersAssumption, MarkersAssumption
      <3>2. owner' = t /\ depth' = depth + 1
        BY <2>1 DEF lock, MayLock
      <3>3. CASE t = Monitor
        <4>1. pc = "loop" /\ owner = Monitor
          BY <1>1, <3>3 DEF IInv, MutexInv
        <4>2. Held' = Held + 1
          BY <1>1, <2>7, <2>8, <3>1, <3>2, <3>3, <4>1 DEF Held
        <4> QED BY <2>7, <2>8, <3>1, <3>2, <3>3, <4>1, <4>2 DEF IInv, MutexInv, Thread
      <3>4. CASE t \in Client
        <4>1. owner = None /\ depth = 0
          BY <1>1, <3>1, <3>4 DEF IInv, MutexInv, Held
        <4>2. \A u \in Client : Holds(u)' <=> owner' = u
          BY <2>8, <3>1, <3>2, <3>4, <4>1 DEF IInv, MutexInv, Thread
        <4>3. Held' = 1
          BY <3>1, <3>2, <3>4 DEF Held, Thread
        <4>4. call'[Monitor] = call[Monitor] /\ owner # Monitor /\ owner' # Monitor
          BY <2>6, <3>1, <3>2, <3>4, <4>1 DEF Others, Thread
        <4> QED BY <2>7, <3>2, <4>1, <4>2, <4>3, <4>4 DEF IInv, MutexInv
      <3> QED BY <3>3, <3>4 DEF Thread
    <2>11. CacheInv'
      BY <2>7 DEF IInv, CacheInv
    <2>12. WalkInv'
      <3> SUFFICES ASSUME NEW u \in Thread, Holds(u)'
                   PROVE  LET d == call'[u]
                          IN  /\ \A k \in Needed(d.query) : pointer'[k] = "valid"
                              /\ d.todo \subseteq clone'[Walked(d.query)]
                              /\ d.query.op = "getIpaddr" => d.query.ifc \in clone'["link"]
                              /\ PartlyRight(d.query, clone'[Walked(d.query)] \ d.todo, d.acc)
        BY DEF WalkInv
      <3>1. CASE u = t
        <4>1. \A k \in Needed(q) : pointer[k] = "valid"
          BY <1>1, <1>4, <2>2, MayEnter DEF MayWalk, IInv, DataInv
        <4>2. PartlyRight(q, {}, {})
          BY <1>2, NothingSeen
        <4>3. clone'[Walked(q)] \ c.todo = {}
          BY <2>4, <2>7
        <4>4. q.op = "getIpaddr" => q.ifc \in clone'["link"]
          BY <1>4, <2>7 DEF MayWalk
        <4>5. PartlyRight(q, clone'[Walked(q)] \ c.todo, c.acc)
          <5>1. c.acc = {}
            BY <1>2, <2>4
          <5> QED BY <4>2, <4>3, <5>1
        <4> HIDE DEF c
        <4> QED BY <2>4, <2>6, <2>7, <3>1, <4>1, <4>4, <4>5
      <3>2. CASE u # t
        BY <2>6, <2>7, <2>8, <3>2 DEF IInv, WalkInv, Others
      <3> QED BY <3>1, <3>2
    <2> QED BY <2>9, <2>10, <2>11, <2>12 DEF IInv
  <1> QED BY <1>3, <1>4

LEMMA VisitIInv ==
    ASSUME IInv, NEW t \in Thread, NEW o \in Obj, Visit(t, o), UNCHANGED <<monitorVars, cacheVars, says>>
    PROVE  IInv'
  <1> DEFINE q == call[t].query
             c == [call[t] EXCEPT !.todo = @ \ {o}, !.acc = Visited(q, o, @)]
  <1>1. /\ call[t] # None /\ call[t].walking /\ Holds(t) /\ o \in call[t].todo
        /\ UNCHANGED <<answer, owner, depth>>
        /\ call' = [call EXCEPT ![t].todo = @ \ {o}, ![t].acc = Visited(q, o, @)]
    BY DEF Visit, Holds, mutexVars
  <1>2. /\ call[t] \in Call /\ q \in Query /\ call[t].acc \subseteq Obj /\ call[t].todo \subseteq Obj
    BY <1>1, CallFacts DEF IInv
  <1>3. Visited(q, o, call[t].acc) \subseteq Obj
    BY <1>2 DEF Visited, get_ip_addr_cb, get_interfaces_cb, get_default_route_cb
  <1>4. /\ c \in Call /\ c.query = q /\ c.walking = TRUE /\ c.todo = call[t].todo \ {o}
        /\ c.acc = Visited(q, o, call[t].acc)
    BY <1>1, <1>2, <1>3 DEF Call
  <1>5. c # None
    BY <1>4, MarkersAssumption
  <1>6. call' = [call EXCEPT ![t] = c]
    BY <1>1 DEF IInv, DataInv
  <1> HIDE DEF c
  <1>7. call' \in [Thread -> Call \cup {None}] /\ call'[t] = c /\ Others(t)
    BY <1>4, <1>6, CallUpdated DEF IInv
  <1>8. UNCHANGED <<pc, says, stage, kind, live, clone, pointer>>
    BY DEF monitorVars, cacheVars
  <1>9. \A u \in Thread : Holds(u)' <=> Holds(u)
    BY <1>1, <1>4, <1>5, <1>7 DEF Holds, Others
  <1>10. DataInv'
    BY <1>1, <1>4, <1>7, <1>8 DEF IInv, DataInv, Others
  <1>11. MutexInv'
    <2>1. Held' = Held
      BY <1>1, <1>8, <1>9 DEF Held, Thread
    <2>2. call'[Monitor] # None => call[Monitor] # None
      BY <1>1, <1>7 DEF Others, Thread
    <2> QED BY <1>1, <1>8, <1>9, <2>1, <2>2 DEF IInv, MutexInv, Thread
  <1>12. CacheInv'
    BY <1>8 DEF IInv, CacheInv
  <1>13. WalkInv'
    <2> SUFFICES ASSUME NEW u \in Thread, Holds(u)'
                 PROVE  LET d == call'[u]
                        IN  /\ \A k \in Needed(d.query) : pointer'[k] = "valid"
                            /\ d.todo \subseteq clone'[Walked(d.query)]
                            /\ d.query.op = "getIpaddr" => d.query.ifc \in clone'["link"]
                            /\ PartlyRight(d.query, clone'[Walked(d.query)] \ d.todo, d.acc)
      BY DEF WalkInv
    <2>1. CASE u = t
      <3> DEFINE seen == clone[Walked(q)] \ call[t].todo
      <3>1. /\ \A k \in Needed(q) : pointer[k] = "valid"
            /\ call[t].todo \subseteq clone[Walked(q)]
            /\ q.op = "getIpaddr" => q.ifc \in clone["link"]
            /\ PartlyRight(q, seen, call[t].acc)
        BY <1>1 DEF IInv, WalkInv
      <3>2. clone[Walked(q)] \subseteq Objs(Walked(q))
        BY <1>2, QueryFacts DEF IInv, DataInv
      <3>3. seen \in SUBSET Objs(Walked(q)) /\ o \in Objs(Walked(q))
        BY <1>1, <3>1, <3>2
      <3>4. PartlyRight(q, seen \cup {o}, Visited(q, o, call[t].acc))
        BY <1>2, <3>1, <3>3, VisitedRight
      <3>5. clone[Walked(q)] \ (call[t].todo \ {o}) = seen \cup {o}
        BY <1>1, <3>1
      <3> HIDE DEF seen
      <3>6. PartlyRight(q, clone'[Walked(q)] \ c.todo, c.acc)
        BY <1>4, <1>8, <3>4, <3>5
      <3> QED BY <1>4, <1>7, <1>8, <2>1, <3>1, <3>6
    <2>2. CASE u # t
      BY <1>7, <1>8, <1>9, <2>2 DEF IInv, WalkInv, Others
    <2> QED BY <2>1, <2>2
  <1> QED BY <1>10, <1>11, <1>12, <1>13 DEF IInv

\* What a walk that is over has found.
LEMMA LeaveAnswers ==
    ASSUME IInv, NEW t \in Thread, Leave(t)
    PROVE  \E a \in Answer :
               /\ Return(t, a) /\ Holds(t) /\ unlock
               /\ \A have, s : /\ Needed(call[t].query) \subseteq have
                               /\ \A k \in Needed(call[t].query) : s[k] = clone[k]
                               => a \in Answers(call[t].query, have, s)
  <1> DEFINE q == call[t].query
             a == IF q.op = "getDefaultRoute" THEN DefaultRoute(call[t].acc, clone["link"])
                  ELSE Found(call[t].acc)
  <1>1. Return(t, a) /\ Holds(t) /\ unlock /\ call[t] # None /\ call[t].todo = {}
    BY DEF Leave, Holds
  <1>2. q \in Query /\ call[t].acc \subseteq Obj
    BY <1>1, CallFacts DEF IInv
  <1>3. a \in Answer
    BY <1>2, AnswerFacts
  <1>4. ASSUME NEW have, NEW s, Needed(q) \subseteq have, \A k \in Needed(q) : s[k] = clone[k]
        PROVE  a \in Answers(q, have, s)
    <2>1. "link" \in Needed(q) /\ Walked(q) \in Needed(q)
      BY DEF Needed
    <2>2. s["link"] = clone["link"] /\ s[Walked(q)] = clone[Walked(q)]
      BY <1>4, <2>1
    <2>3. /\ q.op = "getIpaddr" => q.ifc \in clone["link"]
          /\ PartlyRight(q, clone[Walked(q)] \ call[t].todo, call[t].acc)
      BY <1>1 DEF IInv, WalkInv
    <2>4. clone[Walked(q)] \ call[t].todo = s[Walked(q)]
      BY <1>1, <2>2
    <2>5. PartlyRight(q, s[Walked(q)], call[t].acc)
      BY <2>3, <2>4
    <2>6. (IF q.op = "getDefaultRoute" THEN DefaultRoute(call[t].acc, s["link"]) ELSE Found(call[t].acc))
              \in Answers(q, have, s)
      BY <1>2, <1>4, <2>2, <2>3, <2>5, AllSeen
    <2> QED BY <2>2, <2>6
  <1> QED BY <1>1, <1>3, <1>4

LEMMA LeaveIInv ==
    ASSUME IInv, NEW t \in Thread, Leave(t), UNCHANGED <<monitorVars, cacheVars, says>>
    PROVE  IInv'
  <1>1. PICK a \in Answer : Return(t, a) /\ Holds(t) /\ unlock
    BY LeaveAnswers
  <1>2. call[t] # None
    BY DEF Leave
  <1> QED BY <1>1, <1>2, ReturnIInv

-----------------------------------------------------------------------------
(* Steps of the monitor's thread.                                          *)

\* While it is not publishing and has the mutex, no query walks.
LEMMA Alone ==
    ASSUME IInv, pc \notin {"idle", "lock", "loop"}
    PROVE  /\ owner = Monitor /\ depth = 1 /\ call[Monitor] = None
           /\ \A t \in Thread : ~Holds(t)
           /\ stage # "config"
  <1>1. Monitor \notin Client /\ None \notin Thread
    BY SubscribersAssumption, MarkersAssumption
  <1>2. owner = Monitor /\ call[Monitor] = None /\ stage # "config"
    BY DEF IInv, MutexInv
  <1>3. \A t \in Thread : ~Holds(t)
    BY <1>1, <1>2 DEF IInv, MutexInv, Holds, Thread
  <1>4. depth = 1
    BY <1>1, <1>2, <1>3 DEF IInv, MutexInv, Held, Thread
  <1> QED BY <1>2, <1>3, <1>4

LEMMA SameCalls ==
    ASSUME UNCHANGED queryVars
    PROVE  UNCHANGED <<call, answer>> /\ \A t \in Thread : Holds(t)' <=> Holds(t)
  BY DEF queryVars, Holds

LEMMA SameData ==
    ASSUME DataInv, UNCHANGED <<call, answer, live, clone, pointer, kind>>
    PROVE  DataInv'
  BY DEF DataInv

LEMMA SameWalks ==
    ASSUME WalkInv, UNCHANGED <<call, clone, pointer>>
    PROVE  WalkInv'
  BY DEF WalkInv, Holds

LEMMA ConfigureIInv == ASSUME IInv, NEW s \in Subscriber, Configure(s) PROVE IInv'
  <1>1. UNCHANGED <<queryVars, owner, depth, says, stage, pc, kind, live, clone, pointer>>
    BY DEF Configure, mutexVars, publishVars, monitorVars, cacheVars
  <1>2. UNCHANGED <<call, answer>> /\ \A t \in Thread : Holds(t)' <=> Holds(t)
    BY <1>1, SameCalls
  <1>3. Held' = Held
    BY <1>1, <1>2 DEF Held, Thread
  <1> QED BY <1>1, <1>2, <1>3, SameData, SameWalks DEF IInv, MutexInv, CacheInv, Thread

\* Taking the mutex outside publish.
LEMMA LockIInv ==
    ASSUME IInv, pc \in {"idle", "lock"}, lock(Monitor), pc' \notin {"idle", "lock", "loop"}, stage' # "config",
           UNCHANGED <<queryVars, kind, cacheVars>>, pc' \notin {"handle"}
    PROVE  IInv'
  <1>1. Monitor \notin Client /\ None \notin Thread
    BY SubscribersAssumption, MarkersAssumption
  <1>2. UNCHANGED <<call, answer, live, clone, pointer>> /\ \A t \in Thread : Holds(t)' <=> Holds(t)
    BY SameCalls DEF cacheVars
  <1>3. owner = None /\ depth = 0 /\ owner' = Monitor /\ depth' = 1 /\ call[Monitor] = None
    BY <1>1 DEF lock, MayLock, IInv, MutexInv, Held
  <1>4. \A t \in Thread : ~Holds(t)
    BY <1>1, <1>3 DEF IInv, MutexInv, Holds, Thread
  <1>5. MutexInv'
    BY <1>1, <1>2, <1>3, <1>4 DEF MutexInv, Held, Thread
  <1>6. CacheInv'
    BY <1>2 DEF IInv, CacheInv
  <1> QED BY <1>2, <1>5, <1>6, SameData, SameWalks DEF IInv

\* Releasing it at the end of a handler, or of initialize().
LEMMA UnlockIInv ==
    ASSUME IInv, pc \in {"walk", "handle"}, unlock, pc' = "idle", UNCHANGED <<queryVars, kind, cacheVars>>
    PROVE  IInv'
  <1>1. Monitor \notin Client /\ None \notin Thread
    BY SubscribersAssumption, MarkersAssumption
  <1>2. UNCHANGED <<call, answer, live, clone, pointer>> /\ \A t \in Thread : Holds(t)' <=> Holds(t)
    BY SameCalls DEF cacheVars
  <1>3. owner = Monitor /\ depth = 1 /\ call[Monitor] = None /\ \A t \in Thread : ~Holds(t)
    BY Alone
  <1>4. owner' = None /\ depth' = 0
    BY <1>3 DEF unlock
  <1>5. MutexInv'
    BY <1>1, <1>2, <1>3, <1>4 DEF MutexInv, Held, Thread
  <1>6. CacheInv'
    BY <1>2 DEF IInv, CacheInv
  <1> QED BY <1>2, <1>5, <1>6, SameData, SameWalks DEF IInv

\* Going on with the mutex held.
LEMMA AloneIInv ==
    ASSUME IInv, pc \notin {"idle", "lock", "loop"}, pc' \notin {"idle", "lock", "loop"},
           UNCHANGED <<queryVars, owner, depth, stage>>, DataInv', CacheInv'
    PROVE  IInv'
  <1>1. Monitor \notin Client /\ None \notin Thread
    BY SubscribersAssumption, MarkersAssumption
  <1>2. UNCHANGED <<call, answer>> /\ \A t \in Thread : Holds(t)' <=> Holds(t)
    BY SameCalls
  <1>3. owner = Monitor /\ depth = 1 /\ call[Monitor] = None /\ stage # "config" /\ \A t \in Thread : ~Holds(t)
    BY Alone
  <1>4. MutexInv'
    BY <1>1, <1>2, <1>3 DEF MutexInv, Held, Thread
  <1>5. WalkInv'
    BY <1>2, <1>3 DEF WalkInv
  <1> QED BY <1>4, <1>5 DEF IInv

LEMMA InitializeIInv == ASSUME IInv, initialize PROVE IInv'
  <1>1. pc = "idle" /\ stage' = "initialize" /\ pc' = "walk" /\ lock(Monitor) /\ UNCHANGED <<queryVars, kind, cacheVars>>
    BY DEF initialize, IInv, MutexInv
  <1> QED BY <1>1, LockIInv

LEMMA ChangeCallbackIInv == ASSUME IInv, ChangeCallback PROVE IInv'
  <1>1. /\ pc = "lock" /\ pc' = "free" /\ lock(Monitor) /\ stage' # "config"
        /\ UNCHANGED <<queryVars, kind, cacheVars>>
    BY DEF ChangeCallback, IInv, MutexInv
  <1> QED BY <1>1, LockIInv

LEMMA HandlerDoneIInv == ASSUME IInv, HandlerDone PROVE IInv'
  <1>1. pc = "handle" /\ UNCHANGED <<queryVars, kind, stage, cacheVars>>
    BY DEF HandlerDone
  <1>2. CASE pc' = "idle" /\ unlock
    BY <1>1, <1>2, UnlockIInv
  <1>3. CASE pc' = "walk" /\ UNCHANGED mutexVars
    <2>1. UNCHANGED <<owner, depth, call, answer, live, clone, pointer>>
      BY <1>1, <1>3, SameCalls DEF mutexVars, cacheVars
    <2>2. DataInv' /\ CacheInv'
      BY <1>1, <1>3, <2>1, SameData DEF IInv, CacheInv
    <2> QED BY <1>1, <1>3, <2>1, <2>2, AloneIInv
  <1> QED BY <1>2, <1>3 DEF HandlerDone

LEMMA WalkDoneIInv == ASSUME IInv, WalkDone PROVE IInv'
  <1>1. pc = "walk" /\ UNCHANGED <<queryVars, cacheVars, call, answer, live, clone, pointer>>
    BY SameCalls DEF WalkDone, cacheVars
  <1>2. CASE kind = "route"
    BY <1>1, <1>2, UnlockIInv DEF WalkDone
  <1>3. CASE kind # "route"
    <2>1. kind' = WalkAfter[kind] /\ UNCHANGED <<stage, pc, owner, depth>>
      BY <1>3 DEF WalkDone, mutexVars
    <2>2. kind' \in Kind
      BY <1>3, <2>1 DEF WalkAfter, Kind, IInv, DataInv
    <2>3. DataInv'
      BY <1>1, <2>2 DEF IInv, DataInv
    <2>4. CacheInv'
      BY <1>1, <2>1 DEF IInv, CacheInv
    <2> QED BY <1>1, <2>1, <2>3, <2>4, AloneIInv
  <1> QED BY <1>2, <1>3

LEMMA InitCallbackIInv == ASSUME IInv, NEW o \in Obj, InitCallback(o) PROVE IInv'
  <1>1. pc = "walk" /\ pc' = "free" /\ UNCHANGED <<queryVars, owner, depth, stage, kind, call, answer, live, clone, pointer>>
    BY SameCalls DEF InitCallback, mutexVars, cacheVars
  <1>2. DataInv' /\ CacheInv'
    BY <1>1, SameData DEF IInv, CacheInv
  <1> QED BY <1>1, <1>2, AloneIInv

LEMMA FreeCloneIInv == ASSUME IInv, FreeClone PROVE IInv'
  <1>1. pc = "free" /\ pc' = "clone" /\ UNCHANGED <<queryVars, owner, depth, stage, kind, call, answer, live>>
    BY SameCalls DEF FreeClone, mutexVars
  <1>2. DataInv'
    BY <1>1 DEF FreeClone, IInv, DataInv
  <1>3. CacheInv'
    BY <1>1 DEF FreeClone, IInv, CacheInv, DataInv
  <1> QED BY <1>1, <1>2, <1>3, AloneIInv

LEMMA CloneCacheIInv == ASSUME IInv, CloneCache PROVE IInv'
  <1>1. /\ pc = "clone" /\ pc' = "handle" /\ UNCHANGED <<queryVars, owner, depth, stage, kind, call, answer, live>>
        /\ clone' = [clone EXCEPT ![kind] = live[kind]] /\ pointer' = [pointer EXCEPT ![kind] = "valid"]
    BY SameCalls DEF CloneCache, mutexVars
  <1>2. DataInv'
    BY <1>1 DEF IInv, DataInv
  <1>3. CacheInv'
    BY <1>1 DEF IInv, CacheInv, DataInv
  <1> QED BY <1>1, <1>2, <1>3, AloneIInv

LEMMA PollIInv == ASSUME IInv, NEW o \in Obj, Poll(o) PROVE IInv'
  <1>1. /\ pc = "idle" /\ pc' = "lock" /\ stage = "run"
        /\ UNCHANGED <<queryVars, owner, depth, says, stage, clone, pointer, call, answer>>
        /\ \A t \in Thread : Holds(t)' <=> Holds(t)
    BY SameCalls DEF Poll, mutexVars, publishVars
  <1>2. kind' = KindOf(o) /\ kind' \in Kind /\ o \in Objs(kind')
    BY KindFacts DEF Poll
  <1>3. live' \in [Kind -> SUBSET Obj] /\ \A k \in Kind : live'[k] \subseteq Objs(k)
    BY <1>2 DEF Poll, IInv, DataInv
  <1>4. DataInv'
    BY <1>1, <1>2, <1>3 DEF IInv, DataInv
  <1>5. CacheInv'
    BY <1>1 DEF IInv, CacheInv
  <1>6. Held' = Held
    BY <1>1 DEF Held, IInv, MutexInv, Thread
  <1>7. MutexInv'
    BY <1>1, <1>6 DEF IInv, MutexInv, Thread
  <1> QED BY <1>1, <1>4, <1>5, <1>7, SameWalks DEF IInv

LEMMA PublishIInv == ASSUME IInv, publish PROVE IInv'
  <1>1. /\ pc = "handle" /\ pc' = "loop"
        /\ UNCHANGED <<queryVars, says, stage, kind, live, clone, pointer, call, answer>>
        /\ \A t \in Thread : Holds(t)' <=> Holds(t)
    BY SameCalls DEF publish, cacheVars
  <1>2. Monitor \notin Client /\ None \notin Thread
    BY SubscribersAssumption, MarkersAssumption
  <1>3. owner = Monitor /\ depth = 1 /\ call[Monitor] = None /\ stage # "config" /\ \A t \in Thread : ~Holds(t)
    BY <1>1, Alone
  <1>4. owner' = Monitor /\ depth' = IF Head(says) # "dfltroute" THEN 2 ELSE 1
    BY <1>3 DEF publish, lock, MayLock, mutexVars
  <1>5. MutexInv'
    BY <1>1, <1>2, <1>3, <1>4 DEF MutexInv, Held, Thread
  <1>6. CacheInv'
    BY <1>1 DEF IInv, CacheInv
  <1> QED BY <1>1, <1>5, <1>6, SameData, SameWalks DEF IInv

LEMMA LoopEndsIInv == ASSUME IInv, LoopEnds PROVE IInv'
  <1>1. /\ pc = "loop" /\ pc' = "handle" /\ call[Monitor] = None
        /\ UNCHANGED <<queryVars, stage, kind, live, clone, pointer, call, answer>>
        /\ \A t \in Thread : Holds(t)' <=> Holds(t)
    BY SameCalls DEF LoopEnds, cacheVars
  <1>2. Monitor \notin Client /\ None \notin Thread
    BY SubscribersAssumption, MarkersAssumption
  <1>3. owner = Monitor /\ stage # "config" /\ ~Holds(Monitor)
    BY <1>1 DEF IInv, MutexInv, Holds
  <1>4. depth = IF Head(says) # "dfltroute" THEN 2 ELSE 1
    BY <1>1, <1>2, <1>3 DEF IInv, MutexInv, Held, Thread
  <1>5. owner' = Monitor /\ depth' = 1
    BY <1>3, <1>4 DEF LoopEnds, unlock, mutexVars
  <1>6. MutexInv'
    BY <1>1, <1>2, <1>3, <1>5 DEF IInv, MutexInv, Held, Thread
  <1>7. CacheInv'
    BY <1>1 DEF IInv, CacheInv
  <1> QED BY <1>1, <1>6, <1>7, SameData, SameWalks DEF IInv

\* A turn of the loop begins a query in the callback, or none.
LEMMA LoopStepCalls ==
    ASSUME NEW i \in 1..Len(m_subscribers), LoopStep(i)
    PROVE  /\ pc = "loop" /\ call[Monitor] = None /\ UNCHANGED <<says, mutexVars, monitorVars, cacheVars>>
           /\ UNCHANGED queryVars \/ \E q \in Query : Begin(Monitor, q)
  BY DEF LoopStep, invoke

\* A step that touches no query, nothing of the mutex and nothing the walks read.
LEMMA StillIInv ==
    ASSUME IInv, UNCHANGED <<queryVars, mutexVars, monitorVars, cacheVars, says>>
    PROVE  IInv'
  <1>1. UNCHANGED <<owner, depth, says, stage, pc, kind, live, clone, pointer>>
    BY DEF mutexVars, monitorVars, cacheVars
  <1>2. UNCHANGED <<call, answer>> /\ \A t \in Thread : Holds(t)' <=> Holds(t)
    BY SameCalls
  <1>3. Held' = Held
    BY <1>1, <1>2 DEF Held, Thread
  <1> QED BY <1>1, <1>2, <1>3, SameData, SameWalks DEF IInv, MutexInv, CacheInv, Thread

LEMMA NextIInv == IInv /\ [Next]_vars => IInv'
  <1> SUFFICES ASSUME IInv, [Next]_vars PROVE IInv'
    OBVIOUS
  <1>1. CASE MonitorStep
    <2>1. CASE \E o \in Obj : InitCallback(o)
      BY <2>1, InitCallbackIInv
    <2>2. CASE \E i \in 1..Len(m_subscribers) : LoopStep(i)
      <3>1. PICK i \in 1..Len(m_subscribers) : LoopStep(i)
        BY <2>2
      <3>2. CASE UNCHANGED queryVars
        BY <3>1, <3>2, LoopStepCalls, StillIInv
      <3>3. CASE \E q \in Query : Begin(Monitor, q)
        BY <3>1, <3>3, LoopStepCalls, BeginIInv DEF Thread
      <3> QED BY <3>1, <3>2, <3>3, LoopStepCalls
    <2> QED
      BY <1>1, <2>1, <2>2, InitializeIInv, WalkDoneIInv, ChangeCallbackIInv, FreeCloneIInv, CloneCacheIInv,
         PublishIInv, LoopEndsIInv, HandlerDoneIInv DEF MonitorStep
  <1>2. CASE \E s \in Subscriber : Configure(s)
    BY <1>2, ConfigureIInv
  <1>3. CASE \E o \in Obj : Poll(o)
    BY <1>3, PollIInv
  <1>4. CASE \E t \in Client : ClientCalls(t)
    <2>1. PICK t \in Client, q \in Query : Begin(t, q) /\ UNCHANGED <<mutexVars, publishVars, monitorVars, cacheVars>>
      BY <1>4 DEF ClientCalls
    <2>2. t \in Thread /\ t # Monitor /\ UNCHANGED says
      BY <2>1, SubscribersAssumption DEF Thread, publishVars
    <2> QED BY <2>1, <2>2, BeginIInv
  <1>5. CASE \E t \in Thread : QueryStep(t)
    <2>1. PICK t \in Thread : QueryStep(t)
      BY <1>5
    <2>2. UNCHANGED <<says, monitorVars, cacheVars>>
      BY <2>1 DEF QueryStep, publishVars
    <2> QED BY <2>1, <2>2, EnterIInv, LeaveIInv, VisitIInv DEF QueryStep
  <1>6. CASE UNCHANGED vars
    BY <1>6, StillIInv DEF vars, publishVars
  <1> QED BY <1>1, <1>2, <1>3, <1>4, <1>5, <1>6 DEF Next

THEOREM Invariance == Spec => []IInv
  BY InitIInv, NextIInv, PTL DEF Spec


-----------------------------------------------------------------------------
(* What follows.                                                           *)

\* No walk meets a clone that updateCloneConfig has freed or replaced.
THEOREM WalksSafe == Spec => []WalksAreSafe
  <1>1. IInv => WalksAreSafe
    BY DEF IInv, WalkInv, WalksAreSafe, Holds
  <1> QED BY <1>1, Invariance, PTL

\* Callbacks run with the mutex held and the clone of their event in place.
THEOREM CallbackSees == Spec => []CallbackSeesItsEvent
  <1>1. IInv => CallbackSeesItsEvent
    BY DEF IInv, CacheInv, MutexInv, CallbackSeesItsEvent
  <1> QED BY <1>1, Invariance, PTL

\* The operators of Queries, as QueryInterface has them.
LEMMA SameOperators ==
    /\ Promised!Kind = Kind /\ Promised!Query = Query /\ Promised!Thread = Thread
    /\ \A k : Promised!Objs(k) = Objs(k)
    /\ \A q, have, s : Promised!Answers(q, have, s) = Answers(q, have, s)
  <1>1. Promised!Kind = Kind /\ Promised!Query = Query /\ Promised!Thread = Thread
    BY DEF Promised!Kind, Kind, Promised!Query, Query, Promised!Thread, Thread
  <1>2. \A k : Promised!Objs(k) = Objs(k)
    BY DEF Promised!Objs, Objs, Promised!Obj, Obj, Promised!KindOf, KindOf
  <1>3. \A q : Promised!Needed(q) = Needed(q)
    BY DEF Promised!Needed, Needed, Promised!Walked, Walked
  <1>4. \A objs : Promised!Found(objs) = Found(objs)
    BY DEF Promised!Found, Found
  <1>5. \A rs, ls : Promised!DefaultRoute(rs, ls) = DefaultRoute(rs, ls)
    BY <1>4 DEF Promised!DefaultRoute, DefaultRoute, Promised!Failed, Failed
  <1>6. \A rs : Promised!Best(rs) = Best(rs)
    BY DEF Promised!Best, Best, Promised!Candidates, Candidates
  <1>7. \A q, have, s : Promised!Answers(q, have, s) = Answers(q, have, s)
    BY <1>3, <1>4, <1>5, <1>6 DEF Promised!Answers, Answers, Promised!Failed, Failed
  <1> QED BY <1>1, <1>2, <1>7

LEMMA InitRefines == Init => Promised!Init
  BY SameOperators DEF Init, Promised!Init, Have, Shown, Asked

\* A clone of kind k is being replaced: the snapshot of k becomes what the cache holds.
LEMMA RefreshRefines ==
    ASSUME IInv, pc \in {"free", "clone"}, UNCHANGED <<call, answer, live>>, Have' = Have \cup {kind},
           Shown' = [Shown EXCEPT ![kind] = live[kind]]
    PROVE  Promised!Refresh(kind)
  <1>1. live[kind] \in SUBSET Objs(kind)
    BY DEF IInv, DataInv
  <1>2. Asked[Monitor] = None
    BY Alone DEF Asked, Thread
  <1>3. UNCHANGED <<Asked, answer>>
    BY DEF Asked
  <1> QED BY <1>1, <1>2, <1>3, SameOperators DEF Promised!Refresh

LEMMA AskRefines ==
    ASSUME IInv, NEW t \in Thread, NEW q \in Query, Begin(t, q), UNCHANGED cacheVars
    PROVE  Promised!Ask(t, q)
  <1>1. Asked[t] = None
    BY DEF Begin, Asked
  <1>2. UNCHANGED <<Have, Shown>>
    BY DEF cacheVars, Have, Shown
  <1>3. Asked' = [Asked EXCEPT ![t] = q]
    <2>1. call' = [call EXCEPT ![t] = [query |-> q, walking |-> FALSE, todo |-> {}, acc |-> {}]]
      BY DEF Begin
    <2>2. [query |-> q, walking |-> FALSE, todo |-> {}, acc |-> {}] # None
      <3>1. [query |-> q, walking |-> FALSE, todo |-> {}, acc |-> {}] \in Call
        BY DEF Call
      <3> QED BY <3>1, MarkersAssumption
    <2> QED BY <2>1, <2>2 DEF Asked, IInv, DataInv
  <1>4. UNCHANGED answer
    BY DEF Begin
  <1> QED BY <1>1, <1>2, <1>3, <1>4 DEF Promised!Ask

LEMMA ReplyRefines ==
    ASSUME IInv, NEW t \in Thread, NEW a, call[t] # None, Return(t, a), UNCHANGED cacheVars,
           a \in Answers(call[t].query, Have, Shown)
    PROVE  Promised!Reply(t)
  <1>1. Asked[t] = call[t].query /\ Asked[t] # None
    BY CallFacts, MarkersAssumption DEF Asked, IInv
  <1>2. UNCHANGED <<Have, Shown>>
    BY DEF cacheVars, Have, Shown
  <1>3. Asked' = [Asked EXCEPT ![t] = None]
    BY DEF Return, Asked, IInv, DataInv
  <1>4. answer' = [answer EXCEPT ![t] = a]
    BY DEF Return
  <1> QED BY <1>1, <1>2, <1>3, <1>4, SameOperators DEF Promised!Reply

\* The clones themselves, wherever nothing is freed.
LEMMA ShownIsClone ==
    ASSUME NEW k \in Kind, pointer[k] # "freed"
    PROVE  Shown[k] = clone[k]
  BY DEF Shown

LEMMA EnterRefines ==
    ASSUME IInv, NEW t \in Thread, Enter(t), UNCHANGED cacheVars
    PROVE  Promised!Reply(t) \/ UNCHANGED <<Have, Shown, Asked, answer>>
  <1> DEFINE q == call[t].query
  <1>1. call[t] # None
    BY DEF Enter
  <1>2. q \in Query /\ Needed(q) \subseteq Kind /\ "link" \in Kind
    BY <1>1, CallFacts, QueryFacts DEF IInv, Kind
  <1>3. CASE MayWalk(q)
    <2>1. UNCHANGED <<Have, Shown>>
      BY DEF cacheVars, Have, Shown
    <2>2. UNCHANGED answer /\ call' = [call EXCEPT ![t].walking = TRUE, ![t].todo = clone[Walked(q)]]
      BY <1>3 DEF Enter
    <2>3. call'[t] # None /\ call'[t].query = q
      <3> DEFINE c == [call[t] EXCEPT !.walking = TRUE, !.todo = clone[Walked(q)]]
      <3>1. call[t] \in Call
        BY <1>1, CallFacts DEF IInv
      <3>2. clone[Walked(q)] \subseteq Obj
        BY <1>2, QueryFacts DEF IInv, DataInv
      <3>3. c \in Call /\ c.query = q
        BY <3>1, <3>2 DEF Call
      <3>4. c # None
        BY <3>3, MarkersAssumption
      <3>5. call'[t] = c
        BY <2>2 DEF IInv, DataInv
      <3> QED BY <3>3, <3>4, <3>5
    <2>4. \A u \in Thread \ {t} : call'[u] = call[u]
      BY <2>2 DEF IInv, DataInv
    <2>5. Asked' = Asked
      BY <1>1, <2>3, <2>4 DEF Asked
    <2> QED BY <2>1, <2>2, <2>5
  <1>4. CASE ~MayWalk(q)
    <2>1. Return(t, Failed) /\ owner \in {None, t}
      BY <1>4 DEF Enter, MayLock
    <2>2. \A k \in Kind : Shown[k] = clone[k]
      BY <1>1, <2>1, MayEnter, ShownIsClone
    <2>3. CASE \E k \in Needed(q) : pointer[k] = "null"
      <3>1. ~(Needed(q) \subseteq Have)
        BY <1>2, <2>3 DEF Have
      <3>2. Failed \in Answers(q, Have, Shown)
        BY <3>1 DEF Answers
      <3> QED BY <1>1, <2>1, <3>2, ReplyRefines
    <2>4. CASE q.op = "getIpaddr" /\ q.ifc \notin clone["link"]
      <3>1. q.ifc \notin Shown["link"]
        BY <1>2, <2>2, <2>4
      <3>2. Failed \in Answers(q, Have, Shown)
        BY <2>4, <3>1 DEF Answers
      <3> QED BY <1>1, <2>1, <3>2, ReplyRefines
    <2> QED BY <1>4, <2>3, <2>4 DEF MayWalk
  <1> QED BY <1>3, <1>4

LEMMA LeaveRefines ==
    ASSUME IInv, NEW t \in Thread, Leave(t), UNCHANGED cacheVars
    PROVE  Promised!Reply(t)
  <1> DEFINE q == call[t].query
  <1>1. PICK a \in Answer :
            /\ Return(t, a) /\ Holds(t)
            /\ \A have, s : Needed(q) \subseteq have /\ (\A k \in Needed(q) : s[k] = clone[k])
                            => a \in Answers(q, have, s)
    BY LeaveAnswers
  <1>2. call[t] # None
    BY DEF Leave
  <1>3. Needed(q) \subseteq Kind
    BY <1>2, CallFacts, QueryFacts DEF IInv
  <1>4. \A k \in Needed(q) : pointer[k] = "valid"
    BY <1>1 DEF IInv, WalkInv
  <1>5. Needed(q) \subseteq Have /\ \A k \in Needed(q) : Shown[k] = clone[k]
    BY <1>3, <1>4, ShownIsClone DEF Have
  <1> QED BY <1>1, <1>2, <1>5, ReplyRefines

LEMMA VisitRefines ==
    ASSUME IInv, NEW t \in Thread, NEW o \in Obj, Visit(t, o), UNCHANGED cacheVars
    PROVE  UNCHANGED <<Have, Shown, Asked, answer>>
  <1> DEFINE q == call[t].query
             c == [call[t] EXCEPT !.todo = @ \ {o}, !.acc = Visited(q, o, @)]
  <1>1. /\ call[t] # None /\ UNCHANGED answer
        /\ call' = [call EXCEPT ![t].todo = @ \ {o}, ![t].acc = Visited(q, o, @)]
    BY DEF Visit
  <1>2. call[t] \in Call /\ call[t].acc \subseteq Obj
    BY <1>1, CallFacts DEF IInv
  <1>3. Visited(q, o, call[t].acc) \subseteq Obj
    BY <1>2 DEF Visited, get_ip_addr_cb, get_interfaces_cb, get_default_route_cb
  <1>4. c \in Call /\ c.query = q
    BY <1>2, <1>3 DEF Call
  <1>5. c # None
    BY <1>4, MarkersAssumption
  <1>6. call'[t] = c /\ \A u \in Thread \ {t} : call'[u] = call[u]
    BY <1>1 DEF IInv, DataInv
  <1> HIDE DEF c
  <1>7. Asked' = Asked
    <2>1. call'[t] # None /\ call'[t].query = call[t].query
      BY <1>4, <1>5, <1>6
    <2>2. call[t] # None /\ \A u \in Thread \ {t} : call'[u] = call[u]
      BY <1>1, <1>6
    <2> HIDE DEF q
    <2> QED BY <2>1, <2>2 DEF Asked
  <1>8. UNCHANGED <<Have, Shown>>
    BY DEF cacheVars, Have, Shown
  <1> QED BY <1>1, <1>7, <1>8

LEMMA FreeCloneRefines ==
    ASSUME IInv, FreeClone
    PROVE  Promised!Refresh(kind) \/ UNCHANGED <<Have, Shown, Asked, answer>>
  <1>1. pc = "free" /\ UNCHANGED <<call, answer, live>>
    BY DEF FreeClone, queryVars
  <1>2. CASE pointer[kind] = "null"
    BY <1>1, <1>2 DEF FreeClone, Have, Shown, Asked
  <1>3. CASE pointer[kind] # "null"
    <2>1. clone' = [clone EXCEPT ![kind] = {}] /\ pointer' = [pointer EXCEPT ![kind] = "freed"]
      BY <1>3 DEF FreeClone
    <2>2. Have' = Have \cup {kind}
      BY <1>3, <2>1 DEF Have, IInv, DataInv
    <2>3. Shown' = [Shown EXCEPT ![kind] = live[kind]]
      BY <1>1, <2>1 DEF Shown, IInv, DataInv
    <2> QED BY <1>1, <2>2, <2>3, RefreshRefines
  <1> QED BY <1>2, <1>3

LEMMA CloneCacheRefines == ASSUME IInv, CloneCache PROVE Promised!Refresh(kind)
  <1>1. pc = "clone" /\ UNCHANGED <<call, answer, live>>
    BY DEF CloneCache, queryVars
  <1>2. clone' = [clone EXCEPT ![kind] = live[kind]] /\ pointer' = [pointer EXCEPT ![kind] = "valid"]
    BY DEF CloneCache
  <1>3. Have' = Have \cup {kind}
    BY <1>2 DEF Have, IInv, DataInv
  <1>4. Shown' = [Shown EXCEPT ![kind] = live[kind]]
    BY <1>1, <1>2 DEF Shown, IInv, DataInv
  <1> QED BY <1>1, <1>3, <1>4, RefreshRefines

LEMMA PollRefines ==
    ASSUME IInv, NEW o \in Obj, Poll(o)
    PROVE  UNCHANGED <<Have, Shown, Asked, answer>>
  <1>1. pc = "idle" /\ UNCHANGED <<clone, pointer, call, answer>>
    BY DEF Poll, queryVars
  <1>2. \A k \in Kind : pointer[k] # "freed"
    BY <1>1 DEF IInv, CacheInv
  <1>3. Shown' = Shown
    BY <1>1, <1>2 DEF Shown
  <1> QED BY <1>1, <1>3 DEF Have, Asked

LEMMA StepRefines == IInv /\ [Next]_vars => [Promised!Next]_(Promised!vars)
  <1> SUFFICES ASSUME IInv, [Next]_vars
               PROVE  Promised!Next \/ UNCHANGED <<Have, Shown, Asked, answer>>
    BY DEF Promised!vars
  <1>1. ASSUME UNCHANGED <<cacheVars, queryVars>> PROVE UNCHANGED <<Have, Shown, Asked, answer>>
    BY <1>1 DEF cacheVars, queryVars, Have, Shown, Asked
  <1>2. kind \in Kind
    BY DEF IInv, DataInv
  <1>3. (\E t \in Thread : Promised!Reply(t) \/ \E q \in Query : Promised!Ask(t, q)) \/ Promised!Refresh(kind)
        => Promised!Next
    BY <1>2, SameOperators DEF Promised!Next
  <1>4. CASE MonitorStep
    <2>1. CASE initialize \/ WalkDone \/ ChangeCallback \/ publish \/ LoopEnds \/ HandlerDone
      BY <1>1, <2>1 DEF initialize, WalkDone, ChangeCallback, publish, LoopEnds, HandlerDone
    <2>2. CASE FreeClone \/ CloneCache
      BY <1>3, <2>2, FreeCloneRefines, CloneCacheRefines
    <2>3. CASE \E o \in Obj : InitCallback(o)
      BY <1>1, <2>3 DEF InitCallback
    <2>4. ASSUME NEW i \in 1..Len(m_subscribers), LoopStep(i)
          PROVE  Promised!Next \/ UNCHANGED <<Have, Shown, Asked, answer>>
      BY <1>1, <1>3, <2>4, LoopStepCalls, AskRefines DEF Thread
    <2> QED BY <1>4, <2>1, <2>2, <2>3, <2>4 DEF MonitorStep
  <1>5. CASE \E s \in Subscriber : Configure(s)
    BY <1>1, <1>5 DEF Configure
  <1>6. CASE \E o \in Obj : Poll(o)
    BY <1>6, PollRefines
  <1>7. CASE \E t \in Client : ClientCalls(t)
    BY <1>3, <1>7, AskRefines DEF ClientCalls, Thread
  <1>8. CASE \E t \in Thread : QueryStep(t)
    BY <1>3, <1>8, EnterRefines, LeaveRefines, VisitRefines DEF QueryStep
  <1>9. CASE UNCHANGED vars
    BY <1>1, <1>9 DEF vars
  <1> QED BY <1>4, <1>5, <1>6, <1>7, <1>8, <1>9 DEF Next

\* Every query is answered from one snapshot, and what a callback asks from the one
\* its event was published with.
THEOREM Refinement == Spec => QuerySpec
  <1>1. Init => Promised!Init
    BY InitRefines
  <1>2. IInv /\ [Next]_vars => [Promised!Next]_(Promised!vars)
    BY StepRefines
  <1>3. Spec => []IInv
    BY Invariance
  <1> QED BY <1>1, <1>2, <1>3, PTL DEF Spec, QuerySpec, Promised!Spec

-----------------------------------------------------------------------------
(* The list and the loop over it.                                          *)

\* x stands before y in the list.
Before(x, y) ==
    \E k, l \in 1..Len(m_subscribers) : k < l /\ m_subscribers[k] = x /\ m_subscribers[l] = y
Reached(s) == at # None /\ (s = at \/ Before(s, at))
Heard(s) == \E i \in 1..Len(heard) : heard[i] = s

\* The loop has invoked exactly the standing subscribers it has reached, in the list's order.
LoopInv ==
    /\ m_subscribers \in Seq(Subscriber) /\ heard \in Seq(Subscriber)
    /\ \A i, j \in 1..Len(m_subscribers) : m_subscribers[i] = m_subscribers[j] => i = j
    /\ pc # "loop" => at = None /\ heard = <<>> /\ standing = {}
    /\ at # None => InList(at)
    /\ \A s \in standing : s \in Subscriber /\ InList(s) /\ TypeOf[s] = Head(says)
    /\ \A s \in standing : Heard(s) <=> Reached(s)
    /\ \A i, j \in 1..Len(heard) :
          heard[i] \in standing /\ heard[j] \in standing /\ i < j => Before(heard[i], heard[j])

\* A change of the list that keeps the order of what stays.
KeepsOrder(gone) ==
    /\ m_subscribers' \in Seq(Subscriber)
    /\ \A i, j \in 1..Len(m_subscribers') : m_subscribers'[i] = m_subscribers'[j] => i = j
    /\ \A s \in Subscriber \ gone : InList(s) => InList(s)'
    /\ \A x, y \in Subscriber \ gone : InList(x) /\ InList(y) => (Before(x, y)' <=> Before(x, y))

\* A subscriber added at the end, or erased, leaves the others in their order.
LEMMA AddKeepsOrder ==
    ASSUME LoopInv, NEW s \in Subscriber, ~InList(s), addSubscriber(s)
    PROVE  KeepsOrder({}) /\ UNCHANGED standing
  <1>1. PICK N : N = Len(m_subscribers)
    OBVIOUS
  <1>2. /\ m_subscribers' \in Seq(Subscriber) /\ N \in Nat /\ Len(m_subscribers') = N + 1
        /\ m_subscribers'[N + 1] = s /\ \A i \in 1..N : m_subscribers'[i] = m_subscribers[i]
    BY <1>1, AppendProperties, LenProperties DEF LoopInv, addSubscriber
  <1>3. \A i \in 1..N : m_subscribers[i] # s
    BY <1>1 DEF InList
  <1>4. ASSUME NEW i \in 1..N + 1, NEW j \in 1..N + 1, m_subscribers'[i] = m_subscribers'[j] PROVE i = j
    <2>1. \A k \in 1..N + 1 : k = N + 1 \/ k \in 1..N
      BY <1>2
    <2>2. \A k, l \in 1..N : m_subscribers[k] = m_subscribers[l] => k = l
      BY <1>1 DEF LoopInv
    <2> QED BY <1>2, <1>3, <1>4, <2>1, <2>2
  <1>5. ASSUME NEW x, InList(x) PROVE InList(x)'
    <2>1. PICK k \in 1..N : m_subscribers[k] = x
      BY <1>1, <1>5 DEF InList
    <2>2. k \in 1..N + 1
      BY <1>2
    <2> QED BY <1>2, <2>1, <2>2 DEF InList
  <1>6. ASSUME NEW x, NEW y, InList(x), InList(y) PROVE Before(x, y)' <=> Before(x, y)
    <2>1. x # s /\ y # s
      BY <1>6
    <2>2. ASSUME Before(x, y)' PROVE Before(x, y)
      <3>1. PICK k, l \in 1..N + 1 : k < l /\ m_subscribers'[k] = x /\ m_subscribers'[l] = y
        BY <1>2, <2>2 DEF Before
      <3>2. k \in 1..N /\ l \in 1..N
        BY <1>2, <2>1, <3>1
      <3> QED BY <1>1, <1>2, <3>1, <3>2 DEF Before
    <2>3. ASSUME Before(x, y) PROVE Before(x, y)'
      <3>1. PICK k, l \in 1..N : k < l /\ m_subscribers[k] = x /\ m_subscribers[l] = y
        BY <1>1, <2>3 DEF Before
      <3>2. k \in 1..N + 1 /\ l \in 1..N + 1
        BY <1>2
      <3> QED BY <1>2, <3>1, <3>2 DEF Before
    <2> QED BY <2>2, <2>3
  <1>7. UNCHANGED standing
    BY DEF addSubscriber
  <1> QED BY <1>2, <1>4, <1>5, <1>6, <1>7 DEF KeepsOrder

\* The two parts around an erased element.
LEMMA ErasedProperties ==
    ASSUME m_subscribers \in Seq(Subscriber), NEW N, N = Len(m_subscribers), NEW it \in 1..N
    PROVE  /\ Erased(it, it + 1) \in Seq(Subscriber) /\ Len(Erased(it, it + 1)) = N - 1
           /\ \A i \in 1..N - 1 :
                 Erased(it, it + 1)[i] = m_subscribers[IF i < it THEN i ELSE i + 1]
  <1> DEFINE a == SubSeq(m_subscribers, 1, it - 1)
             b == SubSeq(m_subscribers, it + 1, N)
  <1>1. N \in Nat /\ \A i \in 1..N : m_subscribers[i] \in Subscriber
    BY LenProperties, ElementOfSeq
  <1>2. /\ a \in Seq(Subscriber) /\ Len(a) = it - 1
        /\ \A i \in 1..it - 1 : a[i] = m_subscribers[i]
    <2>1. 1 \in Int /\ it - 1 \in Int /\ \A i \in 1..it - 1 : m_subscribers[i] \in Subscriber
      BY <1>1
    <2>2. /\ a \in Seq(Subscriber) /\ Len(a) = IF 1 <= it - 1 THEN (it - 1) - 1 + 1 ELSE 0
          /\ \A i \in 1..(it - 1) - 1 + 1 : a[i] = m_subscribers[1 + i - 1]
      BY <2>1, SubSeqProperties
    <2>3. \A i \in 1..it - 1 : 1 + i - 1 = i /\ i \in 1..(it - 1) - 1 + 1
      BY <1>1
    <2>4. Len(a) = it - 1
      BY <1>1, <2>2
    <2> HIDE DEF a
    <2>5. ASSUME NEW i \in 1..it - 1 PROVE a[i] = m_subscribers[i]
      BY <2>2, <2>3
    <2> QED BY <2>2, <2>4, <2>5
  <1>3. /\ b \in Seq(Subscriber) /\ Len(b) = N - it
        /\ \A i \in 1..N - it : b[i] = m_subscribers[it + i]
    <2>1. it + 1 \in Int /\ N \in Int /\ \A i \in it + 1..N : m_subscribers[i] \in Subscriber
      BY <1>1
    <2>2. /\ b \in Seq(Subscriber) /\ Len(b) = IF it + 1 <= N THEN N - (it + 1) + 1 ELSE 0
          /\ \A i \in 1..N - (it + 1) + 1 : b[i] = m_subscribers[(it + 1) + i - 1]
      BY <2>1, SubSeqProperties
    <2>3. \A i \in 1..N - it : (it + 1) + i - 1 = it + i /\ i \in 1..N - (it + 1) + 1
      BY <1>1
    <2>4. Len(b) = N - it
      BY <1>1, <2>2
    <2> HIDE DEF b
    <2>5. ASSUME NEW i \in 1..N - it PROVE b[i] = m_subscribers[it + i]
      BY <2>2, <2>3
    <2> QED BY <2>2, <2>4, <2>5
  <1> HIDE DEF a, b
  <1>4. Erased(it, it + 1) = a \o b
    BY DEF Erased, a, b
  <1>5. /\ a \o b \in Seq(Subscriber) /\ Len(a \o b) = Len(a) + Len(b)
        /\ \A i \in 1..Len(a) + Len(b) : (a \o b)[i] = IF i <= Len(a) THEN a[i] ELSE b[i - Len(a)]
    BY <1>2, <1>3, ConcatProperties
  <1>6. Len(a) + Len(b) = N - 1
    BY <1>1, <1>2, <1>3
  <1>7. ASSUME NEW i \in 1..N - 1 PROVE (a \o b)[i] = m_subscribers[IF i < it THEN i ELSE i + 1]
    <2>1. CASE i < it
      <3>1. i \in 1..it - 1 /\ i <= it - 1
        BY <1>1, <2>1
      <3> QED BY <1>2, <1>5, <1>6, <2>1, <3>1
    <2>2. CASE ~(i < it)
      <3>1. ~(i <= Len(a)) /\ i - Len(a) \in 1..N - it /\ it + (i - Len(a)) = i + 1
        BY <1>1, <1>2, <2>2
      <3>2. (a \o b)[i] = b[i - Len(a)]
        BY <1>5, <1>6, <3>1
      <3>3. b[i - Len(a)] = m_subscribers[it + (i - Len(a))]
        BY <1>3, <3>1
      <3> QED BY <2>2, <3>1, <3>2, <3>3
    <2> QED BY <2>1, <2>2
  <1> QED BY <1>4, <1>5, <1>6, <1>7

LEMMA DeleteKeepsOrder ==
    ASSUME LoopInv, NEW s \in Subscriber, deleteSubscriber(s)
    PROVE  KeepsOrder({s}) /\ standing' = standing \ {s}
  <1>s. standing' = standing \ {s}
    BY DEF deleteSubscriber
  <1>1. CASE UNCHANGED m_subscribers
    BY <1>s, <1>1 DEF KeepsOrder, LoopInv, InList, Before
  <1>2. CASE InList(s)
    <2>1. PICK it \in 1..Len(m_subscribers) : IsFound(s, it) /\ m_subscribers' = Erased(it, it + 1)
      BY <1>2 DEF deleteSubscriber
    <2>2. PICK N : N = Len(m_subscribers)
      OBVIOUS
    <2>3. /\ m_subscribers' \in Seq(Subscriber) /\ Len(m_subscribers') = N - 1
          /\ \A i \in 1..N - 1 : m_subscribers'[i] = m_subscribers[IF i < it THEN i ELSE i + 1]
          /\ N \in Nat /\ it \in 1..N /\ m_subscribers[it] = s
      <3>1. m_subscribers \in Seq(Subscriber) /\ it \in 1..N /\ N \in Nat
        BY <2>2, LenProperties DEF LoopInv
      <3>2. m_subscribers' = Erased(it, it + 1) /\ m_subscribers[it] = s
        BY <2>1 DEF IsFound
      <3>3. /\ Erased(it, it + 1) \in Seq(Subscriber) /\ Len(Erased(it, it + 1)) = N - 1
            /\ \A i \in 1..N - 1 :
                  Erased(it, it + 1)[i] = m_subscribers[IF i < it THEN i ELSE i + 1]
        BY <2>2, <3>1, ErasedProperties
      <3> QED BY <3>1, <3>2, <3>3
    <2>4. \A k, l \in 1..N : m_subscribers[k] = m_subscribers[l] => k = l
      BY <2>2 DEF LoopInv
    \* Where an element was, and where it is now.
    <2> DEFINE Was(i) == IF i < it THEN i ELSE i + 1
               Now(k) == IF k < it THEN k ELSE k - 1
    <2>5. \A i \in 1..N - 1 : Was(i) \in 1..N /\ m_subscribers'[i] = m_subscribers[Was(i)]
      BY <2>3
    <2>6. \A i, j \in 1..N - 1 : (Was(i) = Was(j) => i = j) /\ (i < j => Was(i) < Was(j))
      BY <2>3
    <2>7. \A k \in 1..N : k # it => Now(k) \in 1..N - 1 /\ Was(Now(k)) = k
      BY <2>3
    <2>8. \A k, l \in 1..N : k # it /\ l # it /\ k < l => Now(k) < Now(l)
      BY <2>3
    <2> HIDE DEF Was, Now
    <2>9. \A i, j \in 1..N - 1 : m_subscribers'[i] = m_subscribers'[j] => i = j
      BY <2>4, <2>5, <2>6
    <2>10. ASSUME NEW x, x # s, InList(x) PROVE InList(x)'
      <3>1. PICK k \in 1..N : m_subscribers[k] = x
        BY <2>2, <2>10 DEF InList
      <3>2. k # it /\ Now(k) \in 1..N - 1 /\ m_subscribers'[Now(k)] = x
        BY <2>3, <2>5, <2>7, <2>10, <3>1
      <3> QED BY <2>3, <3>2 DEF InList
    <2>11. ASSUME NEW x, NEW y, x # s, y # s PROVE Before(x, y)' <=> Before(x, y)
      <3>1. ASSUME Before(x, y)' PROVE Before(x, y)
        <4>1. PICK i, j \in 1..N - 1 : i < j /\ m_subscribers'[i] = x /\ m_subscribers'[j] = y
          BY <2>3, <3>1 DEF Before
        <4>2. Was(i) \in 1..N /\ Was(j) \in 1..N /\ Was(i) < Was(j) /\ m_subscribers[Was(i)] = x /\ m_subscribers[Was(j)] = y
          BY <2>5, <2>6, <4>1
        <4> QED BY <2>2, <4>2 DEF Before
      <3>2. ASSUME Before(x, y) PROVE Before(x, y)'
        <4>1. PICK k, l \in 1..N : k < l /\ m_subscribers[k] = x /\ m_subscribers[l] = y
          BY <2>2, <3>2 DEF Before
        <4>2. k # it /\ l # it
          BY <2>3, <2>11, <4>1
        <4>3. /\ Now(k) \in 1..N - 1 /\ Now(l) \in 1..N - 1 /\ Now(k) < Now(l)
              /\ m_subscribers'[Now(k)] = x /\ m_subscribers'[Now(l)] = y
          BY <2>5, <2>7, <2>8, <4>1, <4>2
        <4> QED BY <2>3, <4>3 DEF Before
      <3> QED BY <3>1, <3>2
    <2> QED BY <1>s, <2>3, <2>9, <2>10, <2>11 DEF KeepsOrder
  <1> QED BY <1>1, <1>2 DEF deleteSubscriber

\* A callback that leaves the list alone.
LEMMA SameKeepsOrder ==
    ASSUME LoopInv, UNCHANGED m_subscribers
    PROVE  KeepsOrder({})
  BY DEF KeepsOrder, LoopInv, InList, Before

\* The invariant of the loop is inductive.
LEMMA LoopInvInit == Init => LoopInv
  <1> SUFFICES ASSUME Init PROVE LoopInv
    OBVIOUS
  <1>1. m_subscribers = <<>> /\ heard = <<>> /\ standing = {} /\ at = None /\ pc = "idle"
    BY DEF Init
  <1>2. <<>> \in Seq(Subscriber) /\ Len(<<>>) = 0
    BY EmptySeq
  <1> QED BY <1>1, <1>2 DEF LoopInv, Heard, Reached

\* What leaves the list and the loop alone.
LEMMA LoopInvSame ==
    ASSUME LoopInv, UNCHANGED <<m_subscribers, standing, at, heard>>, pc' = "loop" <=> pc = "loop",
           pc = "loop" => UNCHANGED says
    PROVE  LoopInv'
  <1>1. \A x, y : Before(x, y)' <=> Before(x, y)
    BY DEF Before
  <1>2. \A s : (InList(s)' <=> InList(s)) /\ (Heard(s)' <=> Heard(s)) /\ (Reached(s)' <=> Reached(s))
    BY <1>1 DEF InList, Heard, Reached
  <1>3. \A s \in standing' : TypeOf[s] = Head(says')
    BY DEF LoopInv
  <1> QED BY <1>1, <1>2, <1>3 DEF LoopInv

LEMMA PublishLoopInv == ASSUME LoopInv, publish PROVE LoopInv'
  <1>1. /\ UNCHANGED <<m_subscribers, says>> /\ at' = None /\ heard' = <<>> /\ pc' = "loop"
        /\ standing' = {s \in Subscriber : InList(s) /\ TypeOf[s] = Head(says)}
    BY DEF publish
  <1>2. <<>> \in Seq(Subscriber) /\ Len(<<>>) = 0
    BY EmptySeq
  <1>3. \A s : (InList(s)' <=> InList(s)) /\ ~Heard(s)' /\ ~Reached(s)'
    BY <1>1, <1>2 DEF InList, Heard, Reached
  <1> QED BY <1>1, <1>2, <1>3 DEF LoopInv

LEMMA LoopEndsLoopInv == ASSUME LoopInv, LoopEnds PROVE LoopInv'
  <1>1. UNCHANGED m_subscribers /\ at' = None /\ heard' = <<>> /\ standing' = {}
    BY DEF LoopEnds
  <1>2. <<>> \in Seq(Subscriber) /\ Len(<<>>) = 0
    BY EmptySeq
  <1> QED BY <1>1, <1>2 DEF LoopInv

LEMMA ConfigureLoopInv == ASSUME IInv, LoopInv, NEW s \in Subscriber, Configure(s) PROVE LoopInv'
  <1>1. /\ addSubscriber(s) /\ ~InList(s) /\ pc = "idle"
        /\ UNCHANGED <<pc, says, at, heard>>
    BY DEF Configure, IInv, MutexInv, publishVars, monitorVars
  <1>2. KeepsOrder({}) /\ UNCHANGED standing
    BY <1>1, AddKeepsOrder
  <1>3. at' = None /\ heard' = <<>> /\ standing' = {}
    BY <1>1, <1>2 DEF LoopInv
  <1>4. <<>> \in Seq(Subscriber) /\ Len(<<>>) = 0
    BY EmptySeq
  <1> QED BY <1>2, <1>3, <1>4 DEF LoopInv, KeepsOrder

\* The callback changes the list by adding a subscriber or erasing one, never its own.
LEMMA LoopStepList ==
    ASSUME LoopInv, NEW i \in 1..Len(m_subscribers), LoopStep(i)
    PROVE  \E gone \in SUBSET Subscriber :
              m_subscribers[i] \notin gone /\ KeepsOrder(gone) /\ standing' = standing \ gone
  <1> DEFINE n == m_subscribers[i]
  <1>1. n \in Subscriber
    BY ElementOfSeq DEF LoopInv
  <1>2. Other[n] \in Subscriber
    BY <1>1, SubscribersAssumption
  <1>3. CASE UNCHANGED listVars
    BY <1>3, SameKeepsOrder DEF listVars
  <1>4. CASE addSubscriber(Other[n]) /\ ~InList(Other[n])
    BY <1>2, <1>4, AddKeepsOrder
  <1>5. CASE deleteSubscriber(Other[n]) /\ Other[n] # n
    <2>1. KeepsOrder({Other[n]}) /\ standing' = standing \ {Other[n]}
      BY <1>2, <1>5, DeleteKeepsOrder
    <2> QED BY <1>2, <1>5, <2>1
  <1>6. UNCHANGED listVars \/ invoke(n)
    BY DEF LoopStep
  <1>7. Reaction[n] = "delete" => Other[n] # n
    BY <1>1, SubscribersAssumption
  <1> QED BY <1>3, <1>4, <1>5, <1>6, <1>7 DEF invoke

\* One turn of the loop reaches one subscriber more.
LEMMA ReachesNext ==
    ASSUME LoopInv, NEW i \in 1..Len(m_subscribers), IsNext(at, i)
    PROVE  /\ ~Reached(m_subscribers[i])
           /\ \A s : Reached(s) <=> Before(s, m_subscribers[i])
  <1>1. PICK N : N = Len(m_subscribers)
    OBVIOUS
  <1>2. N \in Nat /\ i \in 1..N
    BY <1>1, LenProperties DEF LoopInv
  <1>3. \A k, l \in 1..N : m_subscribers[k] = m_subscribers[l] => k = l
    BY <1>1 DEF LoopInv
  <1>4. CASE at = None
    <2>1. i = 1
      BY <1>4 DEF IsNext
    <2>2. ASSUME NEW s, Before(s, m_subscribers[i]) PROVE FALSE
      <3>1. PICK k, l \in 1..N : k < l /\ m_subscribers[k] = s /\ m_subscribers[l] = m_subscribers[i]
        BY <1>1, <2>2 DEF Before
      <3> QED BY <1>2, <1>3, <2>1, <3>1
    <2> QED BY <1>4, <2>2 DEF Reached
  <1>5. CASE at # None
    <2>1. i > 1 /\ m_subscribers[i - 1] = at
      BY <1>5 DEF IsNext
    <2>2. i - 1 \in 1..N /\ i - 1 < i
      BY <1>2, <2>1
    <2>3. ASSUME NEW s, Reached(s) PROVE Before(s, m_subscribers[i])
      <3>1. CASE s = at
        BY <1>1, <1>2, <2>1, <2>2, <3>1 DEF Before
      <3>2. CASE Before(s, at)
        <4>1. PICK k, l \in 1..N : k < l /\ m_subscribers[k] = s /\ m_subscribers[l] = at
          BY <1>1, <3>2 DEF Before
        <4>2. l = i - 1
          BY <1>3, <2>1, <2>2, <4>1
        <4>3. k < i
          BY <1>2, <4>1, <4>2
        <4> QED BY <1>1, <1>2, <4>1, <4>3 DEF Before
      <3> QED BY <2>3, <3>1, <3>2 DEF Reached
    <2>4. ASSUME NEW s, Before(s, m_subscribers[i]) PROVE Reached(s)
      <3>1. PICK k, l \in 1..N : k < l /\ m_subscribers[k] = s /\ m_subscribers[l] = m_subscribers[i]
        BY <1>1, <2>4 DEF Before
      <3>2. l = i /\ (k = i - 1 \/ k < i - 1)
        BY <1>2, <1>3, <3>1
      <3>3. CASE k = i - 1
        BY <1>5, <2>1, <3>1, <3>3 DEF Reached
      <3>4. CASE k < i - 1
        BY <1>1, <1>5, <2>1, <2>2, <3>1, <3>4 DEF Reached, Before
      <3> QED BY <3>2, <3>3, <3>4
    <2>5. ~Before(m_subscribers[i], m_subscribers[i])
      <3>1. ASSUME NEW k \in 1..N, NEW l \in 1..N, k < l, m_subscribers[k] = m_subscribers[l] PROVE FALSE
        BY <1>2, <1>3, <3>1
      <3> QED BY <1>1, <3>1 DEF Before
    <2> QED BY <2>3, <2>4, <2>5
  <1> QED BY <1>4, <1>5

\* What the turn invokes is the one it reaches, after all it has reached before.
LEMMA LoopStepLoopInv ==
    ASSUME LoopInv, NEW i \in 1..Len(m_subscribers), LoopStep(i)
    PROVE  LoopInv'
  <1>1. PICK n : n = m_subscribers[i]
    OBVIOUS
  <1>2. n \in Subscriber /\ n # None /\ InList(n)
    BY <1>1, ElementOfSeq, MarkersAssumption DEF LoopInv, InList
  <1>3. /\ pc = "loop" /\ UNCHANGED <<pc, says>> /\ IsNext(at, i) /\ at' = n
        /\ IF TypeOf[n] = Head(says) THEN heard' = Append(heard, n) ELSE UNCHANGED heard
    BY <1>1 DEF LoopStep, monitorVars
  <1>4. PICK gone \in SUBSET Subscriber :
            n \notin gone /\ KeepsOrder(gone) /\ standing' = standing \ gone
    BY <1>1, LoopStepList
  <1>5. ~Reached(n) /\ \A s : Reached(s) <=> Before(s, n)
    BY <1>1, <1>3, ReachesNext
  <1>6. /\ standing' \subseteq standing
        /\ \A s \in standing' : /\ s \in Subscriber \ gone /\ InList(s)
                                /\ TypeOf[s] = Head(says) /\ (Heard(s) <=> Reached(s))
    BY <1>4 DEF LoopInv
  <1>7. \A x, y \in standing' \cup {n} : Before(x, y)' <=> Before(x, y)
    BY <1>2, <1>4, <1>6 DEF KeepsOrder
  <1>8. InList(n)' /\ \A s \in standing' : InList(s)'
    BY <1>2, <1>4, <1>6 DEF KeepsOrder
  <1>9. /\ heard' \in Seq(Subscriber)
        /\ \A s \in standing' : Heard(s)' <=> Heard(s) \/ s = n
        /\ \A k, l \in 1..Len(heard') :
              heard'[k] \in standing' /\ heard'[l] \in standing' /\ k < l => Before(heard'[k], heard'[l])
    <2>1. CASE TypeOf[n] = Head(says)
      <3>1. PICK M : M = Len(heard)
        OBVIOUS
      <3>2. /\ heard' \in Seq(Subscriber) /\ M \in Nat /\ Len(heard') = M + 1
            /\ heard'[M + 1] = n /\ \A k \in 1..M : heard'[k] = heard[k]
        <4>1. heard \in Seq(Subscriber) /\ heard' = Append(heard, n)
          BY <1>3, <2>1 DEF LoopInv
        <4>2. M \in Nat
          BY <3>1, <4>1, LenProperties
        <4> QED BY <1>2, <3>1, <4>1, <4>2, AppendProperties
      <3>3. \A k \in 1..M + 1 : k = M + 1 \/ k \in 1..M
        BY <3>2
      <3>4. M + 1 \in 1..M + 1 /\ \A k \in 1..M : k \in 1..M + 1
        BY <3>2
      <3>5. \A s : Heard(s)' <=> Heard(s) \/ s = n
        BY <3>1, <3>2, <3>3, <3>4 DEF Heard
      <3>6. ASSUME NEW k \in 1..M + 1, NEW l \in 1..M + 1, k < l, heard'[k] \in standing', heard'[l] \in standing'
            PROVE  Before(heard'[k], heard'[l])
        <4>1. k \in 1..M
          BY <3>2, <3>6
        <4>2. CASE l \in 1..M
          BY <1>6, <3>1, <3>2, <3>6, <4>1, <4>2 DEF LoopInv
        <4>3. CASE l = M + 1
          <5>1. Heard(heard[k])
            BY <3>1, <4>1 DEF Heard
          <5>2. Before(heard[k], n)
            BY <1>5, <1>6, <3>2, <3>6, <4>1, <5>1
          <5> QED BY <3>2, <4>1, <4>3, <5>2
        <4> QED BY <3>3, <4>2, <4>3
      <3> QED BY <3>2, <3>5, <3>6
    <2>2. CASE TypeOf[n] # Head(says)
      <3>1. heard' = heard
        BY <1>3, <2>2
      <3>2. \A s : Heard(s)' <=> Heard(s)
        BY <3>1 DEF Heard
      <3>3. n \notin standing'
        BY <1>6, <2>2
      <3> QED BY <1>6, <3>1, <3>2, <3>3 DEF LoopInv
    <2> QED BY <2>1, <2>2
  <1>10. \A s \in standing' : Reached(s)' <=> Reached(s) \/ s = n
    <2>1. ASSUME NEW s \in standing' PROVE Reached(s)' <=> s = n \/ Before(s, n)'
      BY <1>2, <1>3 DEF Reached
    <2> QED BY <1>5, <1>7, <2>1
  <1>11. \A k, l \in 1..Len(heard') :
            heard'[k] \in standing' /\ heard'[l] \in standing' /\ k < l => Before(heard[k], heard[l])'
    BY <1>7, <1>9
  <1>12. /\ m_subscribers' \in Seq(Subscriber)
         /\ \A k, l \in 1..Len(m_subscribers') : m_subscribers'[k] = m_subscribers'[l] => k = l
    BY <1>4 DEF KeepsOrder
  <1>13. \A s \in standing' : Heard(s)' <=> Reached(s)'
    BY <1>6, <1>9, <1>10
  <1>14. at' # None => InList(at)'
    BY <1>3, <1>8 DEF InList
  <1> QED BY <1>3, <1>6, <1>8, <1>9, <1>11, <1>12, <1>13, <1>14 DEF LoopInv

LEMMA NextLoopInv == IInv /\ LoopInv /\ [Next]_vars => LoopInv'
  <1> SUFFICES ASSUME IInv, LoopInv, [Next]_vars PROVE LoopInv'
    OBVIOUS
  <1>1. CASE MonitorStep
    <2>1. CASE initialize \/ WalkDone \/ ChangeCallback \/ FreeClone \/ HandlerDone
               \/ \E o \in Obj : InitCallback(o)
      <3>1. UNCHANGED <<m_subscribers, standing, at, heard, says>>
        BY <2>1 DEF initialize, WalkDone, ChangeCallback, FreeClone, HandlerDone, InitCallback, listVars, publishVars
      <3>2. pc # "loop" /\ pc' # "loop"
        BY <2>1 DEF initialize, WalkDone, ChangeCallback, FreeClone, HandlerDone, InitCallback, IInv, MutexInv
      <3> QED BY <3>1, <3>2, LoopInvSame
    <2>2. CASE CloneCache
      <3>1. UNCHANGED <<m_subscribers, standing, at, heard>> /\ pc # "loop" /\ pc' # "loop"
        BY <2>2 DEF CloneCache, listVars
      <3> QED BY <3>1, LoopInvSame
    <2> QED BY <1>1, <2>1, <2>2, PublishLoopInv, LoopEndsLoopInv, LoopStepLoopInv DEF MonitorStep
  <1>2. CASE \E s \in Subscriber : Configure(s)
    BY <1>2, ConfigureLoopInv
  <1>3. CASE \E o \in Obj : Poll(o)
    <2>1. UNCHANGED <<m_subscribers, standing, at, heard>> /\ pc # "loop" /\ pc' # "loop"
      BY <1>3 DEF Poll, listVars, publishVars
    <2> QED BY <2>1, LoopInvSame
  <1>4. CASE (\E t \in Client : ClientCalls(t)) \/ (\E t \in Thread : QueryStep(t)) \/ UNCHANGED vars
    <2>1. UNCHANGED <<m_subscribers, standing, at, heard, says, pc>>
      BY <1>4 DEF ClientCalls, QueryStep, vars, listVars, publishVars, monitorVars
    <2> QED BY <2>1, LoopInvSame
  <1> QED BY <1>1, <1>2, <1>3, <1>4 DEF Next

\* One that stays in the list through a publication of its type is invoked once, in
\* the list's order, whatever the callbacks add and erase; the loop stands on an element.
THEOREM StandingHeard == Spec => []StandingHearOnce
  <1>1. LoopInv => StandingHearOnce
    <2> SUFFICES ASSUME LoopInv PROVE StandingHearOnce
      OBVIOUS
    <2>1. ASSUME AtEnd(at), NEW s \in standing PROVE Heard(s)
      <3>1. PICK N : N = Len(m_subscribers)
        OBVIOUS
      <3>2. N \in Nat
        BY <3>1, LenProperties DEF LoopInv
      <3>3. PICK k \in 1..N : m_subscribers[k] = s
        BY <3>1 DEF LoopInv, InList
      <3>4. at # None
        <4>1. 1 \in 1..N
          BY <3>2, <3>3
        <4> QED BY <2>1, <3>1, <4>1 DEF AtEnd, IsNext
      <3>5. PICK p \in 1..N : m_subscribers[p] = at
        BY <3>1, <3>4 DEF LoopInv, InList
      <3>6. p = N
        <4>1. CASE p < N
          <5>1. p + 1 \in 1..N /\ p + 1 > 1 /\ (p + 1) - 1 = p
            BY <3>2, <4>1
          <5> QED BY <2>1, <3>1, <3>4, <3>5, <5>1 DEF AtEnd, IsNext
        <4> QED BY <3>2, <4>1
      <3>7. k = p \/ k < p
        BY <3>2, <3>6
      <3>8. Reached(s)
        BY <3>1, <3>3, <3>4, <3>5, <3>7 DEF Reached, Before
      <3> QED BY <3>8 DEF LoopInv
    <2> QED BY <2>1 DEF LoopInv, StandingHearOnce, Before, Heard
  <1> QED BY <1>1, LoopInvInit, NextLoopInv, Invariance, PTL DEF Spec

-----------------------------------------------------------------------------
(* The types, and that the threads never wait for one another.              *)

\* What the other invariants leave open of the types; the loop has a type to publish.
RestInv ==
    /\ stage \in {"config", "initialize", "run"}
    /\ pc \in {"idle", "walk", "lock", "free", "clone", "handle", "loop"}
    /\ todo \subseteq Obj
    /\ says \in Seq(Type)
    /\ calls \in [Thread -> 0..MaxCalls] /\ events \in 0..MaxEvents
    /\ pc = "loop" => says # <<>>

LEMMA RestInvInit == Init => RestInv
  <1> SUFFICES ASSUME Init PROVE RestInv
    OBVIOUS
  <1>1. says \in Seq(Type)
    BY EmptySeq DEF Init
  <1>2. 0 \in 0..MaxCalls /\ 0 \in 0..MaxEvents
    BY MarkersAssumption
  <1> QED BY <1>1, <1>2 DEF Init, RestInv

\* A query begun counts, up to the bound.
LEMMA BeginCalls ==
    ASSUME RestInv, NEW t \in Thread, NEW q, Begin(t, q)
    PROVE  calls' \in [Thread -> 0..MaxCalls]
  <1>1. calls[t] \in 0..MaxCalls /\ calls[t] < MaxCalls
    BY DEF RestInv, Begin
  <1>2. calls[t] + 1 \in 0..MaxCalls
    BY <1>1, MarkersAssumption
  <1> QED BY <1>2 DEF RestInv, Begin

LEMMA QueryStepCalls ==
    ASSUME NEW t \in Thread, QueryStep(t)
    PROVE  UNCHANGED <<calls, stage, pc, todo, says, events>>
  <1>1. UNCHANGED calls
    BY DEF QueryStep, Enter, Leave, Visit, Return
  <1> QED BY <1>1 DEF QueryStep, publishVars, monitorVars, cacheVars

\* The words that are published about an object are types.
LEMMA WordsAreTypes == ASSUME NEW k \in Kind, NEW w \in Words(k) PROVE w \in Seq(Type)
  <1>1. /\ "address" \in Type /\ "link" \in Type /\ "route" \in Type /\ "dfltroute" \in Type
    BY DEF Type
  <1>2. <<>> \in Seq(Type)
    BY EmptySeq
  <1>3. ASSUME NEW a \in Type PROVE <<a>> \in Seq(Type)
    OBVIOUS
  <1>4. ASSUME NEW a \in Type, NEW b \in Type PROVE <<a, b>> \in Seq(Type)
    OBVIOUS
  <1> HIDE DEF Type
  <1>5. CASE k = "link"
    <2>1. w = <<>> \/ w = <<"link">> \/ w = <<"link", "link">>
      BY <1>5 DEF Words
    <2> QED BY <1>1, <1>2, <1>3, <1>4, <2>1
  <1>6. CASE k = "addr"
    <2>1. w = <<>> \/ w = <<"address">>
      BY <1>6 DEF Words
    <2> QED BY <1>1, <1>2, <1>3, <2>1
  <1>7. CASE k = "route"
    <2>1. w = <<>> \/ w = <<"route">> \/ w = <<"dfltroute">> \/ w = <<"dfltroute", "route">>
      BY <1>7 DEF Words
    <2> QED BY <1>1, <1>2, <1>3, <1>4, <2>1
  <1> QED BY <1>5, <1>6, <1>7 DEF Kind

LEMMA NextRestInv == IInv /\ RestInv /\ [Next]_vars => RestInv'
  <1> SUFFICES ASSUME IInv, RestInv, [Next]_vars PROVE RestInv'
    OBVIOUS
  <1>1. live["link"] \subseteq Obj /\ \A k \in Kind : live[k] \subseteq Obj
    BY DEF IInv, DataInv, Kind
  <1>2. CASE initialize
    BY <1>1, <1>2 DEF initialize, RestInv, publishVars, queryVars, cacheVars
  <1>3. CASE WalkDone
    <2>1. /\ UNCHANGED <<says, calls, events>> /\ pc' # "loop" /\ pc = "walk"
          /\ pc' \in {"idle", "walk"} /\ stage' \in {"run", stage}
      BY <1>3 DEF WalkDone, publishVars, queryVars, cacheVars, unlock
    <2>2. todo' \subseteq Obj
      <3>1. kind \in {"link", "addr"} => WalkAfter[kind] \in Kind
        BY DEF WalkAfter, Kind
      <3>2. kind # "route" => todo' = live[WalkAfter[kind]]
        BY <1>3 DEF WalkDone
      <3>3. kind = "route" => UNCHANGED todo
        BY <1>3 DEF WalkDone
      <3> QED BY <1>1, <3>1, <3>2, <3>3 DEF IInv, DataInv, RestInv, Kind
    <2> QED BY <2>1, <2>2 DEF RestInv
  <1>4. CASE ChangeCallback \/ FreeClone \/ HandlerDone \/ \E o \in Obj : InitCallback(o)
    BY <1>4 DEF ChangeCallback, FreeClone, HandlerDone, InitCallback, RestInv, publishVars, queryVars, cacheVars
  <1>5. CASE CloneCache
    <2>1. says' \in Seq(Type)
      BY <1>5, WordsAreTypes DEF CloneCache, IInv, DataInv
    <2> QED BY <1>5, <2>1 DEF CloneCache, RestInv, queryVars
  <1>6. CASE publish
    BY <1>6 DEF publish, RestInv, queryVars, cacheVars
  <1>7. CASE LoopEnds
    <2>1. Tail(says) \in Seq(Type)
      BY <1>7, HeadTailProperties DEF LoopEnds, RestInv
    <2> QED BY <1>7, <2>1 DEF LoopEnds, RestInv, queryVars, cacheVars
  <1>8. CASE \E i \in 1..Len(m_subscribers) : LoopStep(i)
    <2>1. PICK i \in 1..Len(m_subscribers) : LoopStep(i)
      BY <1>8
    <2>2. UNCHANGED <<says, stage, pc, todo, events>>
      BY <2>1 DEF LoopStep, monitorVars, cacheVars
    <2>3. UNCHANGED calls \/ \E q \in Query : Begin(Monitor, q)
      BY <2>1, LoopStepCalls DEF queryVars
    <2>4. calls' \in [Thread -> 0..MaxCalls]
      BY <2>3, BeginCalls DEF RestInv, Thread
    <2> QED BY <2>2, <2>4 DEF RestInv
  <1>9. CASE (\E s \in Subscriber : Configure(s)) \/ UNCHANGED vars
    BY <1>9 DEF Configure, RestInv, vars, publishVars, queryVars, monitorVars, cacheVars
  <1>10. CASE \E o \in Obj : Poll(o)
    <2>1. events + 1 \in 0..MaxEvents
      BY <1>10, MarkersAssumption DEF Poll, RestInv
    <2> QED BY <1>10, <2>1 DEF Poll, RestInv, publishVars, queryVars
  <1>11. CASE \E t \in Client : ClientCalls(t)
    <2>1. PICK t \in Client, q \in Query : Begin(t, q) /\ UNCHANGED <<publishVars, monitorVars, cacheVars>>
      BY <1>11 DEF ClientCalls
    <2>2. calls' \in [Thread -> 0..MaxCalls]
      BY <2>1, BeginCalls DEF Thread
    <2> QED BY <2>1, <2>2 DEF RestInv, publishVars, monitorVars, cacheVars
  <1>12. CASE \E t \in Thread : QueryStep(t)
    <2>1. UNCHANGED <<calls, stage, pc, todo, says, events>>
      BY <1>12, QueryStepCalls
    <2> QED BY <2>1 DEF RestInv
  <1> QED BY <1>2, <1>3, <1>4, <1>5, <1>6, <1>7, <1>8, <1>9, <1>10, <1>11, <1>12 DEF Next, MonitorStep

\* Type correctness; in particular no thread holds the mutex more than three times: the
\* monitor's in a handler, in publish and in a query of a callback.
THEOREM TypeCorrect == Spec => []TypeOK
  <1>1. ASSUME IInv, LoopInv, RestInv PROVE TypeOK
    <2>1. at \in Subscriber \cup {None}
      BY <1>1, ElementOfSeq DEF LoopInv, InList
    <2>2. standing \subseteq Subscriber
      BY <1>1 DEF LoopInv
    <2>3. depth \in 0..3 /\ (depth = 0 <=> owner = None)
      BY <1>1 DEF IInv, MutexInv, Held
    <2>4. owner \in Thread \cup {None}
      BY <1>1 DEF IInv, MutexInv
    <2> QED BY <1>1, <2>1, <2>2, <2>3, <2>4 DEF TypeOK, IInv, DataInv, LoopInv, RestInv
  <1> QED BY <1>1, InitIInv, NextIInv, LoopInvInit, NextLoopInv, RestInvInit, NextRestInv, PTL DEF Spec

\* No deadlock, whatever the clients ask and whatever the callbacks do to the list: the
\* thread that has the mutex can go on; where nobody has it, anyone who waits can.
THEOREM NobodyStuck == Spec => []NobodyIsStuck
  <1>1. ASSUME IInv, LoopInv, RestInv PROVE NobodyIsStuck
    <2> SUFFICES ASSUME InHandler \/ \E t \in Thread : call[t] # None
                 PROVE  \E t \in Thread : CanGoOn(t)
      BY DEF NobodyIsStuck
    <2>1. Monitor \in Thread /\ None \notin Thread /\ Monitor \notin Client
      BY SubscribersAssumption, MarkersAssumption DEF Thread
    <2>2. CASE owner \in Client
      <3>1. Holds(owner)
        BY <1>1, <2>2 DEF IInv, MutexInv
      <3> QED BY <2>2, <3>1 DEF CanGoOn, Holds, Thread
    <2>3. CASE owner = Monitor
      <3>1. pc \notin {"idle", "lock"} /\ stage # "config" /\ MayLock(Monitor)
        BY <1>1, <2>3 DEF IInv, MutexInv, MayLock
      <3>2. CASE call[Monitor] # None
        BY <2>1, <3>1, <3>2 DEF CanGoOn
      <3>3. CASE call[Monitor] = None
        <4>1. AtEnd(at) \/ \E i \in 1..Len(m_subscribers) : IsNext(at, i)
          BY DEF AtEnd
        <4>2. CanGoOn(Monitor)
          BY <1>1, <2>3, <3>1, <3>3, <4>1 DEF CanGoOn, InHandler, RestInv
        <4> QED BY <2>1, <4>2
      <3> QED BY <3>2, <3>3
    <2>4. CASE owner = None
      <3>1. ASSUME NEW t \in Thread, call[t] # None PROVE CanGoOn(t)
        BY <2>4, <3>1 DEF CanGoOn, MayLock
      <3>2. InHandler => pc = "lock"
        BY <1>1, <2>1, <2>4 DEF InHandler, IInv, MutexInv
      <3>3. InHandler => CanGoOn(Monitor)
        BY <2>4, <3>2 DEF CanGoOn, MayLock
      <3> QED BY <2>1, <3>1, <3>3
    <2> QED BY <1>1, <2>2, <2>3, <2>4 DEF IInv, MutexInv, Thread
  <1> QED BY <1>1, InitIInv, NextIInv, LoopInvInit, NextLoopInv, RestInvInit, NextRestInv, PTL DEF Spec

=================================================================================
