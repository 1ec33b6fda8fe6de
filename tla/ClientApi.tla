-------------------------------- MODULE ClientApi --------------------------------
(***************************************************************************)
(* The client interface of NetLinkIfc, thread by thread: queries that walk *)
(* the clones object by object, beside the monitor's thread that replaces  *)
(* the clones and publishes, subscriber by subscriber, with the recursive  *)
(* g_state_mutex between them (netlinkifc.cpp:84-212, :710-955,            *)
(* netlinkifc.h:219-229, main.cpp:55-71).  What a notification means is    *)
(* the matter of NetLinkIfc; here it changes one object of one cache.      *)
(*                                                                         *)
(* The library does not guard m_subscribers, so the clients keep to this:  *)
(* once initialize() has begun only callbacks change the list, no callback *)
(* removes the subscriber it is called for, and none is in the list twice. *)
(***************************************************************************)
EXTENDS Queries, Sequences, FiniteSets

CONSTANTS Client,      \* threads of the clients
          Monitor,     \* main's thread and, later, the cache thread
          Subscriber,
          TypeOf,      \* TypeOf[s]: the type s subscribes to
          Reaction,    \* what s does when invoked
          Other,       \* Other[s]: the subscriber that s adds or deletes
          MaxEvents,   \* notifications of the kernel (a bound)
          MaxCalls     \* queries each thread makes (a bound)

Thread == Client \cup {Monitor}
Type == {"address", "link", "route", "wifi", "dfltroute"}

\* A query under way: once it walks, it holds the mutex; acc is what it has found.
Call == [query : Query, walking : BOOLEAN, todo : SUBSET Obj, acc : SUBSET Obj]

\* "script": ScriptSubscriber, or a function that leaves the library alone.
ASSUME SubscribersAssumption ==
    /\ Monitor \notin Client
    /\ TypeOf \in [Subscriber -> Type]
    /\ Reaction \in [Subscriber -> {"script", "query", "add", "delete"}]
    /\ Other \in [Subscriber -> Subscriber]
    /\ \A s \in Subscriber : Reaction[s] = "delete" => Other[s] # s
ASSUME MarkersAssumption ==
    /\ None \notin Subscriber \cup Thread \cup Query \cup Answer \cup Call
    /\ MaxEvents \in Nat /\ MaxCalls \in Nat

VARIABLES m_subscribers,
          live,       \* live[k]: the objects in the cache of kind k
          clone,      \* clone[k]: the objects in the clone of it
          pointer,    \* pointer[k]: "null", "freed" or "valid"
          owner,      \* the thread that holds g_state_mutex, or None
          depth,      \* how many times it holds it
          stage,      \* of the monitor: "config", "initialize" or "run"
          pc,         \* where its thread is
          kind,       \* the kind of object it is at
          todo,       \* objects initialize() has still to walk
          says,       \* types it has still to publish, the first one under way
          at,         \* the subscriber the loop of publish is at; None before the first
          call,       \* call[t]: the query t is in, or None
          answer,     \* answer[t]: what t's last query returned, or None
          calls,      \* calls[t]: how many queries t has made
          events,     \* how many notifications have come
          standing,   \* subscribers in the list since this publish began
          heard       \* those it has invoked, in order

listVars == <<m_subscribers, standing>>
mutexVars == <<owner, depth>>
publishVars == <<says, at, heard>>
queryVars == <<call, answer, calls>>
monitorVars == <<stage, pc, kind, todo>>
cacheVars == <<live, clone, pointer, events>>
vars == <<listVars, mutexVars, publishVars, queryVars, monitorVars, cacheVars>>

InList(s) == \E i \in 1..Len(m_subscribers) : m_subscribers[i] = s

Init ==
    /\ m_subscribers = <<>> /\ standing = {}
    /\ live \in {c \in [Kind -> SUBSET Obj] : \A k \in Kind : c[k] \subseteq Objs(k)}
    /\ clone = [k \in Kind |-> {}] /\ pointer = [k \in Kind |-> "null"]
    /\ owner = None /\ depth = 0
    /\ stage = "config" /\ pc = "idle" /\ kind = "link" /\ todo = {}
    /\ says = <<>> /\ at = None /\ heard = <<>>
    /\ call = [t \in Thread |-> None]
    /\ answer = [t \in Thread |-> None]
    /\ calls = [t \in Thread |-> 0]
    /\ events = 0

-----------------------------------------------------------------------------
(* The recursive mutex.                                                    *)

\* Mutant: a plain mutex, which its owner cannot lock again.
MayLockMutant(t) == owner = None

MayLock(t) == owner \in {None, t}

lock(t) ==
    /\ MayLock(t)
    /\ owner' = t
    /\ depth' = depth + 1

\* Mutant: the first unlock lets others in.
unlockMutant ==
    /\ depth' = IF depth = 0 THEN 0 ELSE depth - 1
    /\ owner' = None

unlock ==
    /\ depth' = depth - 1
    /\ owner' = IF depth = 1 THEN None ELSE owner

-----------------------------------------------------------------------------
(* The list of subscribers.                                                *)

addSubscriber(s) ==
    /\ m_subscribers' = Append(m_subscribers, s)
    /\ UNCHANGED standing

\* The list without its elements from it to the one before after.
Erased(it, after) ==
    SubSeq(m_subscribers, 1, it - 1) \o SubSeq(m_subscribers, after, Len(m_subscribers))

\* The first element that is s.
IsFound(s, it) == m_subscribers[it] = s /\ \A i \in 1..it - 1 : m_subscribers[i] # s

\* Mutant: the element after the one looked for goes too.
deleteSubscriberMutant(s) ==
    /\ IF InList(s)
       THEN \E it \in 1..Len(m_subscribers) : IsFound(s, it) /\ m_subscribers' = Erased(it, it + 2)
       ELSE UNCHANGED m_subscribers
    /\ standing' = standing \ {s}

deleteSubscriber(s) ==
    /\ IF InList(s)
       THEN \E it \in 1..Len(m_subscribers) : IsFound(s, it) /\ m_subscribers' = Erased(it, it + 1)
       ELSE UNCHANGED m_subscribers
    /\ standing' = standing \ {s}

\* The loop of publish goes to the element after s, or to the first.
IsNext(s, i) ==
    IF s = None THEN i = 1 ELSE i > 1 /\ m_subscribers[i - 1] = s
AtEnd(s) == \A i \in 1..Len(m_subscribers) : ~IsNext(s, i)

-----------------------------------------------------------------------------
(* Queries, of a client's thread or of a callback within the monitor's.    *)

Begin(t, q) ==
    /\ call[t] = None
    /\ calls[t] < MaxCalls
    /\ calls' = [calls EXCEPT ![t] = @ + 1]
    /\ call' = [call EXCEPT ![t] = [query |-> q, walking |-> FALSE, todo |-> {}, acc |-> {}]]
    /\ UNCHANGED answer

Return(t, a) ==
    /\ call' = [call EXCEPT ![t] = None]
    /\ answer' = [answer EXCEPT ![t] = a]
    /\ UNCHANGED calls

\* The clones are there, and for getIpaddr the name of the interface is.
MayWalk(q) ==
    /\ \A k \in Needed(q) : pointer[k] # "null"
    /\ q.op = "getIpaddr" => q.ifc \in clone["link"]

\* The lock is taken and the walk begins, or the query fails at once.
Enter(t) ==
    /\ call[t] # None /\ ~call[t].walking
    /\ LET q == call[t].query
       IN  IF MayWalk(q)
           THEN /\ lock(t)
                /\ call' = [call EXCEPT ![t].walking = TRUE, ![t].todo = clone[Walked(q)]]
                /\ UNCHANGED <<answer, calls>>
           ELSE /\ MayLock(t)
                /\ Return(t, Failed)
                /\ UNCHANGED mutexVars

Visit(t, o) ==
    /\ call[t] # None /\ call[t].walking
    /\ o \in call[t].todo
    /\ call' = [call EXCEPT ![t].todo = @ \ {o}, ![t].acc = Visited(call[t].query, o, @)]
    /\ UNCHANGED <<answer, calls, mutexVars>>

\* getDefaultRoute still needs the name of the interface.
Leave(t) ==
    /\ call[t] # None /\ call[t].walking /\ call[t].todo = {}
    /\ Return(t, IF call[t].query.op = "getDefaultRoute"
                 THEN DefaultRoute(call[t].acc, clone["link"]) ELSE Found(call[t].acc))
    /\ unlock

QueryStep(t) ==
    /\ Enter(t) \/ Leave(t) \/ \E o \in Obj : Visit(t, o)
    /\ UNCHANGED <<listVars, publishVars, monitorVars, cacheVars>>

ClientCalls(t) ==
    /\ \E q \in Query : Begin(t, q)
    /\ UNCHANGED <<listVars, mutexVars, publishVars, monitorVars, cacheVars>>

-----------------------------------------------------------------------------
(* The monitor's thread.                                                   *)

\* main: one line of the configuration.
Configure(s) ==
    /\ stage = "config" /\ ~InList(s)
    /\ addSubscriber(s)
    /\ UNCHANGED <<mutexVars, publishVars, queryVars, monitorVars, cacheVars>>

initialize ==
    /\ stage = "config"
    /\ lock(Monitor)
    /\ stage' = "initialize" /\ pc' = "walk" /\ todo' = live["link"]
    /\ UNCHANGED <<kind, listVars, publishVars, queryVars, cacheVars>>

\* nl_cache_foreach goes to the next object.
InitCallback(o) ==
    /\ pc = "walk" /\ o \in todo
    /\ todo' = todo \ {o}
    /\ pc' = "free"
    /\ UNCHANGED <<stage, kind, listVars, mutexVars, publishVars, queryVars, cacheVars>>

WalkAfter == [link |-> "addr", addr |-> "route"]

WalkDone ==
    /\ pc = "walk" /\ todo = {}
    /\ IF kind = "route"
       THEN stage' = "run" /\ pc' = "idle" /\ unlock /\ UNCHANGED <<kind, todo>>
       ELSE /\ kind' = WalkAfter[kind] /\ todo' = live[kind']
            /\ UNCHANGED <<stage, pc, mutexVars>>
    /\ UNCHANGED <<listVars, publishVars, queryVars, cacheVars>>

\* nl_cache_mngr_poll changes a cache, without the mutex, and calls back.
Poll(o) ==
    /\ stage = "run" /\ pc = "idle" /\ events < MaxEvents
    /\ events' = events + 1
    /\ kind' = KindOf(o)
    /\ \/ live' = [live EXCEPT ![kind'] = IF o \in @ THEN @ \ {o} ELSE @ \cup {o}]
       \/ o \in live[kind'] /\ UNCHANGED live
    /\ pc' = "lock"
    /\ UNCHANGED <<stage, todo, clone, pointer, listVars, mutexVars, publishVars, queryVars>>

\* link_change_cb, addr_change_cb and route_change_cb.
ChangeCallback ==
    /\ pc = "lock"
    /\ lock(Monitor)
    /\ pc' = "free"
    /\ UNCHANGED <<stage, kind, todo, listVars, publishVars, queryVars, cacheVars>>

\* updateCloneConfig, the first half.
FreeClone ==
    /\ pc = "free"
    /\ IF pointer[kind] = "null" THEN UNCHANGED <<clone, pointer>>
       ELSE clone' = [clone EXCEPT ![kind] = {}] /\ pointer' = [pointer EXCEPT ![kind] = "freed"]
    /\ pc' = "clone"
    /\ UNCHANGED <<stage, kind, todo, live, events, listVars, mutexVars, publishVars, queryVars>>

\* What is published about an object of kind k, if anything.
Words(k) ==
    CASE k = "link"  -> {<<>>, <<"link">>, <<"link", "link">>}
      [] k = "addr"  -> {<<>>, <<"address">>}
      [] k = "route" -> {<<>>, <<"route">>, <<"dfltroute">>, <<"dfltroute", "route">>}

CloneCache ==
    /\ pc = "clone"
    /\ clone' = [clone EXCEPT ![kind] = live[kind]] /\ pointer' = [pointer EXCEPT ![kind] = "valid"]
    /\ says' \in Words(kind)
    /\ pc' = "handle"
    /\ UNCHANGED <<stage, kind, todo, live, events, at, heard, listVars, mutexVars, queryVars>>

\* publish begins its loop over m_subscribers, called from runStateMachine, which
\* locks again, or for dfltroute by the handler itself.
publish ==
    /\ pc = "handle" /\ says # <<>>
    /\ at' = None /\ heard' = <<>>
    /\ standing' = {s \in Subscriber : InList(s) /\ TypeOf[s] = Head(says)}
    /\ pc' = "loop"
    /\ IF Head(says) = "dfltroute" THEN UNCHANGED mutexVars ELSE lock(Monitor)
    /\ UNCHANGED <<m_subscribers, says, stage, kind, todo, queryVars, cacheVars>>

invoke(s) ==
    /\ IF Reaction[s] = "add" /\ ~InList(Other[s]) THEN addSubscriber(Other[s])
       ELSE IF Reaction[s] = "delete" THEN deleteSubscriber(Other[s])
       ELSE UNCHANGED listVars
    /\ IF Reaction[s] = "query" /\ calls[Monitor] < MaxCalls
       THEN \E q \in Query : Begin(Monitor, q)
       ELSE UNCHANGED queryVars

\* One turn of the loop.  A callback that queries is over when its query is.
LoopStep(i) ==
    /\ pc = "loop" /\ call[Monitor] = None
    /\ i \in 1..Len(m_subscribers) /\ IsNext(at, i)
    /\ at' = m_subscribers[i]
    /\ IF TypeOf[at'] = Head(says)
       THEN invoke(at') /\ heard' = Append(heard, at')
       ELSE UNCHANGED <<heard, listVars, queryVars>>
    /\ UNCHANGED <<says, mutexVars, monitorVars, cacheVars>>

LoopEnds ==
    /\ pc = "loop" /\ call[Monitor] = None /\ AtEnd(at)
    /\ says' = Tail(says)
    /\ at' = None /\ heard' = <<>> /\ standing' = {}
    /\ pc' = "handle"
    /\ IF Head(says) = "dfltroute" THEN UNCHANGED mutexVars ELSE unlock
    /\ UNCHANGED <<m_subscribers, stage, kind, todo, queryVars, cacheVars>>

\* The handler returns, to the walk of initialize() or to the poll.
HandlerDone ==
    /\ pc = "handle" /\ says = <<>>
    /\ \/ stage = "initialize" /\ pc' = "walk" /\ UNCHANGED mutexVars
       \/ stage = "run" /\ pc' = "idle" /\ unlock
    /\ UNCHANGED <<stage, kind, todo, listVars, publishVars, queryVars, cacheVars>>

MonitorStep ==
    \/ initialize \/ WalkDone \/ ChangeCallback \/ FreeClone \/ CloneCache \/ publish
    \/ LoopEnds \/ HandlerDone
    \/ \E o \in Obj : InitCallback(o)
    \/ \E i \in 1..Len(m_subscribers) : LoopStep(i)

-----------------------------------------------------------------------------
Next ==
    \/ MonitorStep
    \/ \E s \in Subscriber : Configure(s)
    \/ \E o \in Obj : Poll(o)
    \/ \E t \in Client : ClientCalls(t)
    \/ \E t \in Thread : QueryStep(t)

Spec == Init /\ [][Next]_vars
FairSpec == Spec /\ WF_vars(MonitorStep) /\ \A t \in Thread : WF_vars(QueryStep(t))

-----------------------------------------------------------------------------
(* Properties.                                                             *)

\* Type correctness.
TypeOK ==
    /\ m_subscribers \in Seq(Subscriber) /\ standing \subseteq Subscriber
    /\ live \in [Kind -> SUBSET Obj]
    /\ clone \in [Kind -> SUBSET Obj] /\ pointer \in [Kind -> {"null", "freed", "valid"}]
    /\ owner \in Thread \cup {None} /\ depth \in 0..3 /\ (depth = 0 <=> owner = None)
    /\ stage \in {"config", "initialize", "run"}
    /\ pc \in {"idle", "walk", "lock", "free", "clone", "handle", "loop"}
    /\ kind \in Kind /\ todo \subseteq Obj
    /\ says \in Seq(Type) /\ at \in Subscriber \cup {None} /\ heard \in Seq(Subscriber)
    /\ call \in [Thread -> Call \cup {None}]
    /\ answer \in [Thread -> Answer \cup {None}]
    /\ calls \in [Thread -> 0..MaxCalls] /\ events \in 0..MaxEvents

\* A walk never meets a clone that updateCloneConfig has freed, nor one replaced
\* since the walk began: what it has still to visit is there.
WalksAreSafe ==
    \A t \in Thread : call[t] # None /\ call[t].walking =>
        /\ \A k \in Needed(call[t].query) : pointer[k] = "valid"
        /\ call[t].todo \subseteq clone[Walked(call[t].query)]

\* A callback that queries sees the state its event is about: the clone has been
\* replaced before anything is published, and no client runs in between.
CallbackSeesItsEvent ==
    pc = "loop" => clone[kind] = live[kind] /\ owner = Monitor

\* Whatever subscribers do to the list from their callbacks, one that stays in the
\* list throughout a publication of its type is invoked once, and in the list's
\* order; the loop never stands on an element that was removed.
StandingHearOnce ==
    /\ \A i, j \in 1..Len(heard) :
          heard[i] \in standing /\ heard[j] \in standing /\ i < j =>
              \E k, l \in 1..Len(m_subscribers) :
                  k < l /\ m_subscribers[k] = heard[i] /\ m_subscribers[l] = heard[j]
    /\ pc = "loop" /\ AtEnd(at) => \A s \in standing : \E i \in 1..Len(heard) : heard[i] = s
    /\ at # None => InList(at)

\* The clients get what QueryInterface promises.
Have == {k \in Kind : pointer[k] # "null"}
Shown == [k \in Kind |-> IF pointer[k] = "freed" THEN live[k] ELSE clone[k]]
Asked == [t \in Thread |-> IF call[t] = None THEN None ELSE call[t].query]
Promised == INSTANCE QueryInterface WITH have <- Have, shown <- Shown, asked <- Asked
QuerySpec == Promised!Spec

\* No deadlock: of the threads that are in a query or a handler, one can go on.  A query
\* and a handler wait for the mutex alone, and who has it never waits: not for itself
\* when a callback queries or a handler publishes, nor in its loop over a list that its
\* callbacks have changed.
InHandler == pc # "idle" /\ call[Monitor] = None
CanGoOn(t) ==
    \/ call[t] # None /\ (call[t].walking \/ MayLock(t))
    \/ t = Monitor /\ InHandler /\
          \/ pc \in {"walk", "free", "clone"} /\ owner = t
          \/ pc = "lock" /\ MayLock(t)
          \/ pc = "handle" /\ IF says = <<>> THEN stage # "config" /\ owner = t ELSE Head(says) = "dfltroute" \/ MayLock(t)
          \/ pc = "loop" /\ (AtEnd(at) \/ \E i \in 1..Len(m_subscribers) : IsNext(at, i))
NobodyIsStuck ==
    InHandler \/ (\E t \in Thread : call[t] # None) => \E t \in Thread : CanGoOn(t)

\* Nobody waits for the mutex for ever, while notifications and queries are bounded in
\* number: every query returns, those made from callbacks too, and every handler.
EveryCallReturns ==
    /\ \A t \in Thread : call[t] # None ~> call[t] = None
    /\ pc # "idle" ~> pc = "idle"
=================================================================================
