--------------------------------- MODULE Commands ---------------------------------
(***************************************************************************)
(* The commands of the client interface, composed with the monitor:        *)
(* deleteinterfaceip, deleteinterfaceroutes and activatelink               *)
(* (netlinkifc.cpp:507-698).  A command holds g_state_mutex while it walks *)
(* the clones and asks the kernel, object by object, over a socket of its  *)
(* own; each request waits for the kernel's answer, and one that is refused*)
(* (err < 0, for whatever reason) is logged at most.  Meanwhile the kernel *)
(* moves on, the cache thread may take one message from the monitor's      *)
(* socket and then waits for the mutex.  A command comes from a thread of  *)
(* the client, or from a function subscriber within a callback: then main  *)
(* may still be inside initialize().                                       *)
(***************************************************************************)
EXTENDS NetLinkIfc

CONSTANTS FamilyOf,   \* FamilyOf[o]: the family of an address or a route
          Global,     \* addresses of scope 0
          MaxMoves,   \* changes the kernel makes by itself (a bound)
          Idle        \* no command is under way

Family == {"ipv4", "ipv6"}

ASSUME CommandsAssumption ==
    /\ FamilyOf \in [Addr \cup Route -> Family] /\ Global \subseteq Addr
    /\ MaxMoves \in Nat

VARIABLES command,    \* the command that holds g_state_mutex, or Idle: the step it is
                      \* at, the interfaces and the families it works on and the
                      \* objects of the clone it has still to visit
          meddled,    \* interfaces the kernel has changed by itself since
                      \* activatelink began
          refused,    \* objects for which the kernel refused a request of the
                      \* present walk that it could have granted
          moves       \* changes the kernel has made by itself

commandVars == <<command, meddled, refused>>
allVars == <<vars, commandVars, moves>>

CInit == Init /\ command = Idle /\ meddled = {} /\ refused = {} /\ moves = 0

-----------------------------------------------------------------------------
(* The commands.                                                           *)

\* A command is let in after the mutex is free, and returns at once if one of the
\* clones it reads is missing.
MayCall(kinds) ==
    /\ command = Idle
    /\ main[1] \in {"foreach", "run"}
    /\ \A k \in kinds : clone[k] # NoClone

\* rtnl_link_name2i on the clone; more than one index can bear the name while old
\* messages are replayed.  If none does, the filter matches nothing.
InterfacesNamed(n) == {l \in Link : NameOf[l] = n /\ clone["link"][l] # Absent}

Begin(step, links, families, objs) ==
    /\ command' = [step |-> step, links |-> links, families |-> families, todo |-> objs]
    /\ UNCHANGED <<vars, meddled, refused, moves>>

\* What the filter matches: the addresses, or the routes, of an interface.
Matching(k, l, family) == {o \in Objs(k) : OnLink[o] = l /\ FamilyOf[o] = family}
Shows(k, o) == clone[k][o] # Absent

\* Mutant: the filter's scope is another one.
deleteinterfaceipMutant(n, family) ==
    /\ MayCall({"link", "addr"})
    /\ \E l \in InterfacesNamed(n) :
          Begin("addr", {l}, {family}, {a \in Matching("addr", l, family) \ Global : Shows("addr", a)})

deleteinterfaceip(n, family) ==
    /\ MayCall({"link", "addr"})
    /\ \E l \in InterfacesNamed(n) :
          Begin("addr", {l}, {family}, {a \in Matching("addr", l, family) \cap Global : Shows("addr", a)})

\* Mutant: the family is not set in the filter.
deleteinterfaceroutesMutant(n, family) ==
    /\ MayCall({"link", "route"})
    /\ \E l \in InterfacesNamed(n) :
          Begin("route", {l}, {family}, {r \in Route : OnLink[r] = l /\ Shows("route", r)})

deleteinterfaceroutes(n, family) ==
    /\ MayCall({"link", "route"})
    /\ \E l \in InterfacesNamed(n) :
          Begin("route", {l}, {family}, {r \in Matching("route", l, family) : Shows("route", r)})

activatelink(n) ==
    /\ MayCall({"link"})
    /\ Begin("down", InterfacesNamed(n), {}, InterfacesNamed(n))

Step(s, objs) == command' = [command EXCEPT !.step = s, !.todo = objs]
Frame == UNCHANGED <<mainVars, clone, linkVars, addrSaid, routeVars, meddled, moves>>

\* A request has nothing to do, is granted, or is refused: the callbacks do not mind.
AsksNothing == UNCHANGED <<netlinkVars, refused>>
Granted(o, v) == KernelSets(o, v) /\ UNCHANGED refused
Refused(o) == refused' = refused \cup {o} /\ UNCHANGED netlinkVars

\* delete_addr_cb and delete_route_cb.  There is nothing to remove if the object is
\* gone by now; a route has to be the one of the clone.
DeleteOne(o) ==
    /\ command # Idle /\ command.step \in {"addr", "route"}
    /\ o \in command.todo
    /\ Step(command.step, command.todo \ {o})
    /\ IF kernel[o] = Absent \/ (o \in Route /\ kernel[o] # clone["route"][o])
       THEN AsksNothing ELSE Granted(o, Absent) \/ Refused(o)
    /\ Frame

\* modify_link_cb with the flag unset: of a link that is not up, or is kept up.
TakeDown(l) ==
    /\ command # Idle /\ command.step = "down" /\ l \in command.todo
    /\ Step("down", command.todo \ {l})
    /\ IF kernel[l] \in {Absent, LinkDown} THEN AsksNothing ELSE Refused(l)
    /\ Frame

\* modify_link_cb with the flag unset, granted.  The kernel first removes the routes,
\* and nobody else changes its tables meanwhile.
FlushOne(l) ==
    /\ command # Idle /\ command.step \in {"down", "flush"} /\ l \in command.todo
    /\ kernel[l] \notin {Absent, LinkDown}
    /\ LET routes == {r \in Route : OnLink[r] = l /\ kernel[r] # Absent}
       IN  IF routes = {} THEN Granted(l, LinkDown) /\ Step("down", command.todo \ {l})
           ELSE /\ \E r \in routes : Granted(r, Absent)
                /\ command' = [command EXCEPT !.step = "flush"]
    /\ Frame

\* modify_link_cb with the flag set, in the second walk.
SecondWalk ==
    /\ command # Idle /\ command.step = "down" /\ command.todo = {}
    /\ Step("up", command.links)
    /\ refused' = {}
    /\ UNCHANGED netlinkVars
    /\ Frame

\* Mutant: the second walk unsets the flag as well.
BringUpMutant(l) ==
    /\ command # Idle /\ command.step = "up" /\ l \in command.todo
    /\ Step("up", command.todo \ {l})
    /\ AsksNothing
    /\ Frame

\* A driver may fail to open its device: the link then stays down.
BringUp(l) ==
    /\ command # Idle /\ command.step = "up" /\ l \in command.todo
    /\ Step("up", command.todo \ {l})
    /\ IF kernel[l] # LinkDown THEN AsksNothing
       ELSE Refused(l) \/ \E v \in LinkVal \ {LinkDown} : Granted(l, v)
    /\ Frame

Return ==
    /\ command # Idle /\ command.step \in {"addr", "route", "up"} /\ command.todo = {}
    /\ command' = Idle
    /\ meddled' = {} /\ refused' = {}
    /\ UNCHANGED <<vars, moves>>

Call(n) ==
    \/ \E family \in Family : deleteinterfaceip(n, family) \/ deleteinterfaceroutes(n, family)
    \/ activatelink(n)

CommandStep ==
    \/ \E o \in Obj : DeleteOne(o)
    \/ \E l \in Link : TakeDown(l) \/ FlushOne(l) \/ BringUp(l)
    \/ SecondWalk \/ Return

-----------------------------------------------------------------------------
(* The monitor beside a command.                                           *)

\* The kernel does not interrupt itself while it takes a link down.
KernelBeside ==
    /\ command # Idle => command.step # "flush"
    /\ moves < MaxMoves
    /\ moves' = moves + 1
    /\ KernelMoves
    /\ meddled' = IF command # Idle /\ command.step \in {"down", "up"}
                  THEN meddled \cup {l \in Link : kernel'[l] # kernel[l]} ELSE meddled
    /\ UNCHANGED <<command, refused>>

\* The handlers take the mutex; initialize() goes on when its callback returns.
Handlers == command = Idle /\ (MainStep \/ ChangeCallback) /\ UNCHANGED <<commandVars, moves>>

\* nl_cache_mngr_poll updates the caches without the mutex.
PollBeside == (Poll \/ PollFails) /\ UNCHANGED <<commandVars, moves>>

\* The bound is reached and everything has been handled.
AtRest ==
    /\ moves = MaxMoves /\ command = Idle
    /\ Initialized /\ queue = <<>> /\ pending = NoCallback /\ drops # "unreported"
    /\ UNCHANGED allVars

CNext ==
    \/ KernelBeside \/ Handlers \/ PollBeside
    \/ \E n \in Name : Call(n)
    \/ CommandStep \/ AtRest

CSpec == CInit /\ [][CNext]_allVars

-----------------------------------------------------------------------------
(* Properties.                                                             *)

\* Type correctness.
CommandsTypeOK ==
    /\ TypeOK
    /\ meddled \subseteq Link /\ refused \subseteq Obj /\ moves \in 0..MaxMoves
    /\ command \in {Idle} \cup [step : {"addr", "route", "flush", "down", "up"},
                                links : SUBSET Link,
                                families : SUBSET Family, todo : SUBSET Obj]

\* What the kernel does not change by itself a command changes, and only what it was
\* asked to change (the filters of netlinkifc.cpp:538-545 and :605-613): objects of the
\* family given on an interface of the name given, addresses only if their scope is
\* global, and with an interface it takes down its routes.  The clones it finds them in
\* may be stale.
OnlyWhatWasAsked ==
    [][kernel' # kernel /\ moves' = moves =>
          \A o \in Obj : kernel'[o] # kernel[o] =>
              IF command.step \in {"addr", "route"}
              THEN /\ KindOf(o) = command.step /\ OnLink[o] \in command.links
                   /\ FamilyOf[o] \in command.families /\ (o \in Addr => o \in Global)
              ELSE o \in command.links \/ (o \in Route /\ OnLink[o] \in command.links)]_allVars

\* deleteinterfaceip and deleteinterfaceroutes work from a clone that may be stale, and
\* ignore requests that fail (netlinkifc.cpp:557-566, 627-636).  What they were to remove
\* and is in the kernel when they are done, because it came too late for the clone, was
\* replaced, put back, or kept by the kernel against the request, never escapes the
\* clients' notice: its message is in the socket or about to be handled, or the kernel
\* refused to remove it and the queries go on showing it as it is.
SurvivorsAreOnTheirWay ==
    command # Idle /\ command.step \in {"addr", "route"} /\ command.todo = {} /\ Lossless =>
        \A o \in Objs(command.step) :
            /\ OnLink[o] \in command.links /\ FamilyOf[o] \in command.families
            /\ o \in Addr => o \in Global
            /\ kernel[o] # Absent
            => \/ \E i \in 1..Len(queue) : queue[i].obj = o
               \/ pending # NoCallback /\ pending.obj = o
               \/ o \in refused /\ clone[command.step][o] = kernel[o]

\* activatelink takes the interface down first, and does not look whether its request to
\* set it up again was granted (netlinkifc.cpp:687-696).  It leaves the interface down
\* only where the kernel refused that very request or has changed the interface by
\* itself meanwhile: a refusal to take it down, or a stale clone, does no harm.
ActivatedIsUp ==
    command # Idle /\ command.step = "up" /\ command.todo = {} =>
        \A l \in command.links : l \in meddled \/ l \in refused \/ kernel[l] # LinkDown
=================================================================================
