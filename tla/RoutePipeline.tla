------------------------------ MODULE RoutePipeline ------------------------------
(***************************************************************************)
(* The way of a default route from the kernel's table to the files of      *)
(* checkDefaultRoute.sh: the monitor and the library's commands (CSpec) and*)
(* the scripts (CheckDefaultRoute) side by side.  What CheckDefaultRoute   *)
(* calls a route is what the monitor published on NlType::dfltroute, for   *)
(* which ScriptSubscriber::invoke (subscribers.h:52-70) starts the script. *)
(***************************************************************************)
EXTENDS CommandsProofs

CONSTANTS GatewaysOf, Matches, Proc, CanOverlap, CanReplace, NoFile
VARIABLES script, file, flag

\* A default route as the subscriber heard of it.
Heard == [r \in DefaultDst |-> IF dfltSaid[r].op = "add" THEN dfltSaid[r].gw ELSE NoGateway]

\* All messages have seven words, as DfltMessageNamesInterface has it.
Scripts == INSTANCE CheckDefaultRouteProofs WITH Route <- DefaultDst, route <- Heard, Words <- {7}

\* The assumptions of CheckDefaultRoute on its constants.
ScriptsAssumption ==
    /\ GatewaysOf \in [DefaultDst -> SUBSET Gateway]
    /\ Matches \in [Gateway -> SUBSET Gateway] /\ \A g \in Gateway : g \in Matches[g]
    /\ \A S \in SUBSET Gateway : NoFile # S
    /\ CanReplace \in BOOLEAN /\ CanOverlap \in BOOLEAN

\* A callback publishes op with gateway gw on NlType::dfltroute, for route r.
Published(r, op, gw) ==
    /\ OnLink[r] # NoLink /\ gw \in Gateway
    /\ \/ InitCallback(r) /\ op = "add" /\ gw = live[r]
       \/ /\ ChangeCallback /\ pending.obj = r /\ gw = pending.val
          /\ op = IF pending.action = "delete" THEN "delete" ELSE "add"

\* Every message has been handled, and every script has ended.
AllHandled == Quiescent /\ Scripts!Quiet

\* The route feed has told that r has no gateway, the dfltroute feed has not.
LostGateway(r) == dfltSaid[r].op = "add" /\ routeSaid[r].gw = NoGateway

-----------------------------------------------------------------------------
(* The monitor is the environment that CheckDefaultRoute describes.        *)

\* processroute_rtnl publishes one message, about its route.
LEMMA OneMessage ==
    ASSUME BaseInv, NEW r \in DefaultDst, NEW op \in {"add", "delete"}, NEW gw, Published(r, op, gw)
    PROVE  \E named \in BOOLEAN : dfltSaid' = [dfltSaid EXCEPT ![r] = [op |-> op, gw |-> gw, named |-> named]]
  <1>1. r \in Route /\ KindOf(r) = "route" /\ gw # NoGateway
    BY RoutesAreObjects, RoutesAssumption DEF Published
  <1>2. \E action : processroute_rtnl(action, r, gw) /\ op = IF action = "delete" THEN "delete" ELSE "add"
    <2>1. CASE InitCallback(r) /\ op = "add" /\ gw = live[r]
      BY <1>1, <2>1 DEF InitCallback, Process
    <2>2. CASE ChangeCallback /\ pending.obj = r /\ gw = pending.val
               /\ op = IF pending.action = "delete" THEN "delete" ELSE "add"
      BY <1>1, <2>2 DEF ChangeCallback, Process
    <2> QED BY <2>1, <2>2 DEF Published
  <1>3. Named(r) \in BOOLEAN
    BY DEF Named
  <1>4. dfltSaid' = [dfltSaid EXCEPT ![r] = [op |-> op, gw |-> gw, named |-> Named(r)]]
    BY <1>1, <1>2 DEF processroute_rtnl, Published
  <1> QED BY <1>3, <1>4

\* Only a publication changes what was heard.
LEMMA HeardByPublication ==
    ASSUME AllInv, [CNext]_allVars, dfltSaid' # dfltSaid
    PROVE  \E r \in DefaultDst, op \in {"add", "delete"}, gw \in Gateway : Published(r, op, gw)
  <1>1. BaseInv /\ CommandType
    BY DEF AllInv, MonitorInv
  <1>2. [Next]_vars
    BY <1>1, MonitorMoves DEF CommandSets, routeVars
  <1>3. ASSUME NEW o \in Obj, InitCallback(o) PROVE \E r \in DefaultDst : Published(r, "add", live[r]) /\ live[r] \in Gateway
    <2>1. o \in Route
      BY <1>3, OtherHandlers DEF InitCallback, routeVars
    <2>2. processroute_rtnl("add", o, live[o])
      BY <1>3, <2>1, RoutesAreObjects DEF InitCallback, Process
    <2>3. live[o] \in RouteVal
      BY <1>1, <1>3, <2>1, RoutesAreObjects DEF InitCallback, BaseInv, TypeOK, NetlinkTypeOK, Table
    <2>4. o \in DefaultDst /\ OnLink[o] # NoLink /\ live[o] \in Gateway
      BY <2>2, <2>3, RoutesAreObjects DEF processroute_rtnl
    <2> QED BY <1>3, <2>4 DEF Published
  <1>4. ASSUME ChangeCallback
        PROVE  \E r \in DefaultDst, op \in {"add", "delete"} : Published(r, op, pending.val) /\ pending.val \in Gateway
    <2>1. pending \in Callback /\ Process(pending.action, pending.obj, pending.val)
      BY <1>1, <1>4 DEF ChangeCallback, BaseInv, TypeOK, NetlinkTypeOK
    <2>2. pending.obj \in Route /\ pending.val \in RouteVal
      BY <2>1, OtherHandlers, RoutesAreObjects DEF Callback, routeVars
    <2>3. processroute_rtnl(pending.action, pending.obj, pending.val)
      BY <2>1, <2>2, RoutesAreObjects DEF Process
    <2>4. pending.obj \in DefaultDst /\ OnLink[pending.obj] # NoLink /\ pending.val \in Gateway
      BY <2>2, <2>3, RoutesAreObjects DEF processroute_rtnl
    <2> QED BY <1>4, <2>4 DEF Published
  <1>5. MainStep \/ ChangeCallback
    BY <1>2 DEF Next, CacheThreadStep, KernelMoves, Poll, PollFails, vars, routeVars
  <1>6. (\E o \in Obj : InitCallback(o)) \/ ChangeCallback
    BY <1>5 DEF MainStep, AddCache, FillCache, ForeachDone, routeVars
  <1> QED BY <1>3, <1>4, <1>6

\* A delete is published only for a route whose last message was an add of that gateway.
LEMMA DeleteOfHeard ==
    ASSUME BaseInv, RouteInv, NEW r \in DefaultDst, NEW gw, Published(r, "delete", gw)
    PROVE  dfltSaid[r].op = "add" /\ dfltSaid[r].gw = gw
  <1>1. ChangeCallback /\ pending.obj = r /\ pending.action = "delete" /\ pending.val = gw /\ gw \in Gateway
    BY DEF Published
  <1>2. pending # NoCallback /\ main = <<"run", "all">> /\ r \in Route /\ OnLink[r] # NoLink
    BY <1>1, RoutesAssumption DEF ChangeCallback, BaseInv, CloneInv, Published
  <1>3. Told(r, gw)
    BY <1>1, <1>2 DEF RouteInv, Unheard, ToldBefore
  <1> QED BY <1>1, <1>3 DEF Told

\* Whatever the kernel and the commands do, what the script's subscriber hears is what
\* RouteAdded and RouteDeleted of CheckDefaultRoute say it can hear: one message at a
\* time, and a delete only of a route it knows, with the gateway it knows.
THEOREM MonitorIsEnvironment ==
    CSpec =>
        /\ [][\E r \in DefaultDst, op \in {"add", "delete"}, gw \in Gateway : Published(r, op, gw)]_Heard
        /\ [][\A r \in DefaultDst, gw \in Gateway :
                 /\ Published(r, "add", gw) => Heard' = [Heard EXCEPT ![r] = gw]
                 /\ Published(r, "delete", gw) => /\ Heard[r] = gw
                                                  /\ Heard' = [Heard EXCEPT ![r] = NoGateway]]_allVars
  <1>1. AllInv /\ [CNext]_allVars =>
            [\E r \in DefaultDst, op \in {"add", "delete"}, gw \in Gateway : Published(r, op, gw)]_Heard
    <2>1. UNCHANGED dfltSaid => UNCHANGED Heard
      BY DEF Heard
    <2> QED BY <2>1, HeardByPublication
  <1>2. AllInv /\ [CNext]_allVars =>
            [\A r \in DefaultDst, gw \in Gateway :
                 /\ Published(r, "add", gw) => Heard' = [Heard EXCEPT ![r] = gw]
                 /\ Published(r, "delete", gw) => /\ Heard[r] = gw
                                                  /\ Heard' = [Heard EXCEPT ![r] = NoGateway]]_allVars
    <2> SUFFICES ASSUME AllInv, NEW r \in DefaultDst, NEW gw \in Gateway
                 PROVE  /\ Published(r, "add", gw) => Heard' = [Heard EXCEPT ![r] = gw]
                        /\ Published(r, "delete", gw) => /\ Heard[r] = gw
                                                         /\ Heard' = [Heard EXCEPT ![r] = NoGateway]
      OBVIOUS
    <2>1. BaseInv /\ RouteInv /\ dfltSaid \in [Route -> RouteMsg] /\ DefaultDst \subseteq Route
      BY RoutesAssumption DEF AllInv, MonitorInv, BaseInv, TypeOK
    <2>2. ASSUME NEW op \in {"add", "delete"}, Published(r, op, gw)
          PROVE  Heard' = [Heard EXCEPT ![r] = IF op = "add" THEN gw ELSE NoGateway]
      <3>1. PICK named \in BOOLEAN : dfltSaid' = [dfltSaid EXCEPT ![r] = [op |-> op, gw |-> gw, named |-> named]]
        BY <2>1, <2>2, OneMessage
      <3>2. PICK msg : msg = [op |-> op, gw |-> gw, named |-> named]
        OBVIOUS
      <3>3. msg.op = op /\ msg.gw = gw /\ \A q \in DefaultDst : dfltSaid'[q] = IF q = r THEN msg ELSE dfltSaid[q]
        BY <2>1, <3>1, <3>2
      <3> QED BY <3>3 DEF Heard
    <2>3. Published(r, "delete", gw) => Heard[r] = gw
      BY <2>1, DeleteOfHeard DEF Heard
    <2> QED BY <2>2, <2>3
  <1> QED BY <1>1, <1>2, AllInvInit, AllInvStep, PTL DEF CSpec

-----------------------------------------------------------------------------
(* From the kernel to the files.                                           *)

LEMMA ScriptsAreGiven ==
    ASSUME ScriptsAssumption
    PROVE  /\ /\ GatewaysOf \in [DefaultDst -> SUBSET Gateway]
              /\ Matches \in [Gateway -> SUBSET Gateway] /\ \A g \in Gateway : g \in Matches[g]
              /\ NoGateway \notin Gateway /\ \A S \in SUBSET Gateway : NoFile # S
           /\ {7} \subseteq {6, 7} /\ CanReplace \in BOOLEAN /\ CanOverlap \in BOOLEAN
  BY MarkersAssumption DEF ScriptsAssumption

\* At rest, the subscriber has heard of the gateways there are, and of lost ones.
LEMMA HeardAtRest ==
    ASSUME AllInv, Quiescent, NEW r \in DefaultDst
    PROVE  /\ OnLink[r] # NoLink /\ kernel[r] \in Gateway => Heard[r] = kernel[r]
           /\ kernel[r] = Absent /\ ~LostGateway(r) => Heard[r] = NoGateway
  <1>1. r \in Route /\ (OnLink[r] = NoLink => Mute(r)) /\ (OnLink[r] # NoLink => Told(r, kernel[r]))
    BY QuiescentRoutes, RoutesAssumption DEF AllInv, MonitorInv
  <1>2. dfltSaid[r].op = "add" => dfltSaid[r].gw # Absent
    BY <1>1, RoutesAreObjects DEF AllInv, MonitorInv, BaseInv, TypeOK, RouteMsg
  <1> QED BY <1>1, <1>2 DEF Heard, Told, Mute, Silent, LostGateway

\* What the whole chain is for: when all is handled, the gateway of each default route
\* in the kernel's table has its line and the flag is there, whatever clients commanded
\* meanwhile and as long as no message was lost and every message named its interface.
\* A delete's script has to run alone and no gateway may be part of another or shared.
THEOREM GatewaysReachTheFile ==
    ASSUME ScriptsAssumption, Scripts!Apart
    PROVE  CSpec /\ []DfltMessageNamesInterface /\ Scripts!Spec =>
               [](AllHandled => \A r \in DefaultDst :
                      OnLink[r] # NoLink /\ kernel[r] \in Gateway => kernel[r] \in Scripts!Lines /\ flag)
  <1>1. Scripts!Spec => []Scripts!GatewayHasLine
    BY ScriptsAreGiven, Scripts!RoutesHaveLines
  <1>2. Scripts!Spec => []Scripts!RouteHasFlag
    BY ScriptsAreGiven, Scripts!FlagWhileRoute
  <1>3. AllInv /\ Scripts!GatewayHasLine /\ Scripts!RouteHasFlag =>
            (AllHandled => \A r \in DefaultDst :
                 OnLink[r] # NoLink /\ kernel[r] \in Gateway => kernel[r] \in Scripts!Lines /\ flag)
    BY HeardAtRest, MarkersAssumption DEF AllHandled, Scripts!GatewayHasLine, Scripts!RouteHasFlag
  <1> QED BY <1>1, <1>2, <1>3, AllInvInit, AllInvStep, PTL DEF CSpec

\* And when all is handled and no default route is left, neither line nor flag is, unless a
\* route lost its gateway before it went, which nobody tells the script.  For this no
\* route may change its gateway, either.
THEOREM NoRouteReachesTheFile ==
    ASSUME ScriptsAssumption, Scripts!Calm
    PROVE  CSpec /\ []DfltMessageNamesInterface /\ Scripts!Spec =>
               [](AllHandled /\ (\A r \in DefaultDst : kernel[r] = Absent /\ ~LostGateway(r))
                      => ~flag /\ Scripts!Lines = {})
  <1>1. Scripts!Spec => []Scripts!NoRouteNoTrace
    BY ScriptsAreGiven, Scripts!FileFollowsRoutes
  <1>2. AllInv /\ Scripts!NoRouteNoTrace =>
            (AllHandled /\ (\A r \in DefaultDst : kernel[r] = Absent /\ ~LostGateway(r))
                 => ~flag /\ Scripts!Lines = {})
    BY HeardAtRest DEF AllHandled, Scripts!NoRouteNoTrace
  <1> QED BY <1>1, <1>2, AllInvInit, AllInvStep, PTL DEF CSpec
=================================================================================
