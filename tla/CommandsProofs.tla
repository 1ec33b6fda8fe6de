------------------------------ MODULE CommandsProofs ------------------------------
(* What a command does, and what it leaves true, for any tables, queue     *)
(* length, numbers of lost messages and of changes by the kernel.          *)
EXTENDS Commands, FeedProofs, WellFoundedInduction

-----------------------------------------------------------------------------
(* The monitor does not notice who changes the kernel's tables.            *)

\* A request of a command that the kernel grants: it makes no address and neither
\* makes nor removes an interface.
Requested(o, v) ==
    /\ KernelSets(o, v)
    /\ o \in Link => kernel[o] # Absent /\ v # Absent
    /\ o \in Addr => v = Absent
CommandSets ==
    /\ \E o \in Obj : \E v \in ValOf(o) \cup {Absent} : Requested(o, v)
    /\ UNCHANGED <<mainVars, clone, linkVars, addrSaid, routeVars>>

\* No clone is behind its cache but for the object of a callback under way.
Behind ==
    \A o \in Obj :
        clone[KindOf(o)] # NoClone =>
            clone[KindOf(o)][o] = live[o] \/ (pending # NoCallback /\ pending.obj = o)

\* The kernel keeps no address of an interface it has not.
LinksThere == \A a \in Addr : kernel[a] # Absent => kernel[OnLink[a]] # Absent

\* All that holds of the monitor by itself.
MonitorInv ==
    /\ BaseInv /\ AddrInv /\ RouteInv /\ ConvergeInv /\ LinkInv
    /\ SaidInv /\ NamedInv /\ Behind /\ LinksThere

LEMMA BehindRefreshed ==
    ASSUME BaseInv, Behind, NEW o \in Obj, NEW v, NEW action, Process(action, o, v),
           pending = NoCallback \/ pending.obj = o, UNCHANGED live
    PROVE  Behind'
  <1>1. \A k \in Kind : clone'[k] = IF k = KindOf(o) THEN CacheOf(k) ELSE clone[k]
    BY ProcessClone DEF BaseInv
  <1>2. ASSUME NEW p \in Obj, clone'[KindOf(p)] # NoClone PROVE clone'[KindOf(p)][p] = live'[p]
    <2>1. CASE KindOf(p) = KindOf(o)
      <3>1. p \in Objs(KindOf(p)) /\ KindOf(p) \in Kind
        BY Kinds DEF Objs
      <3> QED BY <1>1, <2>1, <3>1 DEF CacheOf
    <2>2. CASE KindOf(p) # KindOf(o)
      BY <1>1, <1>2, <2>2, Kinds DEF Behind
    <2> QED BY <2>1, <2>2
  <1> QED BY <1>2 DEF Behind

LEMMA BehindSame == Behind /\ UNCHANGED <<clone, live, pending>> => Behind'
  BY DEF Behind

LEMMA BehindStep == BaseInv /\ Behind /\ [Next]_vars => Behind'
  <1> SUFFICES ASSUME BaseInv, Behind, [Next]_vars PROVE Behind'
    OBVIOUS
  <1>1. ASSUME NEW k \in Kind, AddCache(k) \/ FillCache(k) PROVE Behind'
    <2>1. main[1] \in {"join", "refill"} /\ UNCHANGED clone
      BY <1>1 DEF AddCache, FillCache
    <2>2. \A j \in Kind : clone[j] = NoClone
      BY <2>1 DEF BaseInv, CloneInv, CloneStage, Walked, Walking, Kind
    <2> QED BY <2>1, <2>2, Kinds DEF Behind
  <1>2. ASSUME NEW o \in Obj, InitCallback(o) PROVE Behind'
    <2>1. pending = NoCallback /\ UNCHANGED live
      BY <1>2 DEF InitCallback, netlinkVars, BaseInv, CloneInv
    <2> QED BY <1>2, <2>1, BehindRefreshed DEF InitCallback
  <1>3. CASE ChangeCallback
    <2>1. pending.obj \in Obj
      BY <1>3 DEF ChangeCallback, BaseInv, TypeOK, NetlinkTypeOK, Callback
    <2> QED BY <1>3, <2>1, BehindRefreshed DEF ChangeCallback
  <1>4. CASE Poll
    <2>1. pending = NoCallback /\ UNCHANGED clone
      BY <1>4 DEF Poll, Include
    <2> QED BY <1>4, <2>1, PollPending DEF Behind
  <1>5. CASE KernelMoves \/ PollFails \/ UNCHANGED vars
    BY <1>5, BehindSame DEF KernelMoves, KernelStep, KernelLink, KernelAddr, KernelRoute, KernelSets,
                            PollFails, vars, netlinkVars
  <1>6. ASSUME NEW k \in Kind, ForeachDone(k) PROVE Behind'
    BY <1>6, BehindSame DEF ForeachDone, netlinkVars
  <1> QED BY <1>1, <1>2, <1>3, <1>4, <1>5, <1>6 DEF Next, MainStep, CacheThreadStep

LEMMA LinksThereStep == BaseInv /\ LinksThere /\ [Next]_vars => LinksThere'
  <1> SUFFICES ASSUME BaseInv, LinksThere, [Next]_vars PROVE LinksThere'
    OBVIOUS
  <1>k. kernel = [o \in Obj |-> kernel[o]] /\ Link \cup Addr \cup Route = Obj
    BY DEF BaseInv, TypeOK, NetlinkTypeOK, Table, Obj
  <1>o. Link \cap Addr = {} /\ Route \cap Addr = {} /\ Route \cap Link = {}
    BY ObjectsAssumption
  <1>1. ASSUME NEW l \in Link, KernelLink(l) PROVE LinksThere'
    <2>1. PICK v \in LinkVal \cup {Absent} :
              /\ v = Absent => \A a \in Addr : OnLink[a] = l => kernel[a] = Absent
              /\ kernel' = [kernel EXCEPT ![l] = v]
      BY <1>1 DEF KernelLink, KernelSets
    <2> QED BY <1>k, <1>o, <2>1, LinksOfAddrs DEF LinksThere
  <1>2. ASSUME NEW a \in Addr, KernelAddr(a) PROVE LinksThere'
    <2>1. kernel[OnLink[a]] # Absent /\ \E v : kernel' = [kernel EXCEPT ![a] = v]
      BY <1>2 DEF KernelAddr, KernelSets
    <2> QED BY <1>k, <1>o, <2>1, LinksOfAddrs DEF LinksThere
  <1>3. ASSUME NEW r \in Route, KernelRoute(r) PROVE LinksThere'
    <2>1. \E v : kernel' = [kernel EXCEPT ![r] = v]
      BY <1>3 DEF KernelRoute, KernelSets
    <2> QED BY <1>k, <1>o, <2>1, LinksOfAddrs DEF LinksThere
  <1>4. CASE UNCHANGED kernel
    BY <1>4 DEF LinksThere
  <1>5. ASSUME MainStep \/ CacheThreadStep \/ UNCHANGED vars PROVE UNCHANGED kernel
    BY <1>5 DEF MainStep, CacheThreadStep, AddCache, JoinGroups, FillCache, Refill, InitCallback, ForeachDone,
                Poll, Include, PollFails, ChangeCallback, vars, netlinkVars
  <1> QED BY <1>1, <1>2, <1>3, <1>4, <1>5 DEF Next, KernelMoves, KernelStep

LEMMA CommandSetsKeeps == MonitorInv /\ CommandSets => MonitorInv' /\ [Feed!Next]_(Feed!vars)
  <1> SUFFICES ASSUME MonitorInv, CommandSets PROVE MonitorInv' /\ [Feed!Next]_(Feed!vars)
    OBVIOUS
  <1>0. PICK o \in Obj : \E v \in ValOf(o) \cup {Absent} : Requested(o, v)
    BY DEF CommandSets
  <1>r. PICK v \in ValOf(o) \cup {Absent} : Requested(o, v)
    BY <1>0
  <1>1. KernelSets(o, v)
    BY <1>r DEF Requested
  <1>2. /\ UNCHANGED <<mainVars, clone, linkVars, addrSaid, routeVars>>
        /\ UNCHANGED <<main, todo, m_state>>
        /\ UNCHANGED <<groups, live, pending>>
    BY <1>1 DEF CommandSets, KernelSets, mainVars
  <1>3. TypeOK'
    <2>1. NetlinkTypeOK'
      BY <1>1, KernelSetsType DEF MonitorInv, BaseInv, TypeOK
    <2>2. HandlerTypeOK'
      BY <1>2, HandlerTypeSame DEF MonitorInv, BaseInv, TypeOK, HandlerTypeOK, handlerVars
    <2> QED BY <1>2, <2>1, <2>2 DEF MonitorInv, BaseInv, TypeOK, HandlerTypeOK
  <1>4. BaseInv'
    BY <1>2, <1>3, CloneSame DEF MonitorInv, BaseInv, Order, PendingInv
  <1>5. AddrInv' /\ RouteInv' /\ Behind'
    BY <1>2, AddrSame, RouteSame, BehindSame DEF MonitorInv
  <1>6. ConvergeInv'
    <2>1. Joined'
      BY <1>2 DEF MonitorInv, ConvergeInv, Joined, Filled
    <2> QED BY <1>1, <1>2, <1>3, <2>1, KernelSetsConverges DEF MonitorInv, ConvergeInv
  <1>7. LinkInv' /\ UNCHANGED Feed!vars
    BY <1>2, <1>3 DEF MonitorInv, LinkInv, FeedInv, Prepared, linkVars, Feed!vars
  <1>8. SaidInv'
    <2>1. LinkBase /\ SaidInv /\ UNCHANGED <<adminSaid, operSaid>>
      BY <1>2 DEF MonitorInv, LinkBase, linkVars
    <2>2. CASE o \in Link
      <3>1. v \in LinkVal \cup {Absent} /\ LinkMayTake(o, v)
        BY <1>r, <2>2, LinksAreObjects DEF Requested, LinkMayTake
      <3> QED BY <1>1, <1>2, <2>1, <2>2, <3>1, SaidLinkSets
    <2>3. CASE o \notin Link
      BY <1>1, <1>2, <2>1, <2>3, SaidOtherSets
    <2> QED BY <2>2, <2>3
  <1>9. NamedInv' /\ LinksThere'
    <2>1. o \in Addr => v = Absent /\ kernel[o] # Absent
      BY <1>r, <1>1 DEF Requested, KernelSets
    <2>2. o \in Addr => kernel[OnLink[o]] # Absent
      BY <2>1 DEF MonitorInv, LinksThere
    <2>3. NamedInv'
      BY <1>1, <1>2, <2>2, NamedKernelSets DEF MonitorInv
    <2>4. \A p \in Obj : kernel'[p] = IF p = o THEN v ELSE kernel[p]
      BY <1>1 DEF KernelSets, MonitorInv, BaseInv, TypeOK, NetlinkTypeOK, Table
    <2>5. \A a \in Addr : a \in Obj /\ a \notin Link
      BY ObjectsAssumption DEF Obj
    <2>6. LinksThere'
      BY <1>r, <2>1, <2>4, <2>5, LinksOfAddrs DEF MonitorInv, LinksThere, Requested
    <2> QED BY <2>3, <2>6
  <1> QED BY <1>4, <1>5, <1>6, <1>7, <1>8, <1>9 DEF MonitorInv

LEMMA MonitorInvStep ==
    MonitorInv /\ ([Next]_vars \/ CommandSets) => MonitorInv' /\ [Feed!Next]_(Feed!vars)
  BY CommandSetsKeeps, BaseStep, AddrInvStep, RouteInvStep, ConvergeInvStep, LinkInvStep, SaidInvStep,
     NamedInvStep, BehindStep, LinksThereStep DEF MonitorInv, LinkBase

LEMMA MonitorInvInit == CInit => MonitorInv /\ Feed!Init
  <1> SUFFICES ASSUME Init PROVE MonitorInv /\ Feed!Init
    BY DEF CInit
  <1>1. Behind
    BY Kinds DEF Init, Behind
  <1>2. LinksThere
    <2>1. \A o \in Addr \cup Route : kernel[o] # Absent /\ OnLink[o] # NoLink => kernel[OnLink[o]] # Absent
      BY DEF Init, NetlinkInit
    <2> QED BY <2>1, LinksOfAddrs DEF LinksThere
  <1> QED BY <1>1, <1>2, BaseInit, AddrInvInit, RouteInvInit, ConvergeInvInit, LinkInvInit, SaidInvInit, NamedInvInit
          DEF MonitorInv

-----------------------------------------------------------------------------
(* A command and what it has done so far.                                  *)

Deletes == command # Idle /\ command.step \in {"addr", "route"}
Asked(o) ==
    /\ KindOf(o) = command.step
    /\ OnLink[o] \in command.links /\ FamilyOf[o] \in command.families
    /\ o \in Addr => o \in Global

\* What a command has still to visit is what it was asked to change, and an
\* interface it has been past in its second walk is up, was meddled with, or the
\* kernel refused to set it up.
CommandInv ==
    command # Idle =>
        /\ main[1] \in {"foreach", "run"}
        /\ Deletes => clone[command.step] # NoClone /\ \A o \in command.todo : Asked(o)
        /\ ~Deletes => command.todo \subseteq command.links /\ command.links \subseteq Link
        /\ command.step = "up" =>
              \A l \in command.links :
                  l \in command.todo \/ l \in meddled \/ l \in refused \/ kernel[l] # LinkDown

\* The monitor is going to hear of o what its clone does not show yet.
Noted(o) ==
    \/ pending # NoCallback /\ pending.obj = o
    \/ \E i \in 1..Len(queue) : queue[i].obj = o /\ queue[i].val # clone[KindOf(o)][o]

\* SurvivorsAreOnTheirWay is not inductive: a message that repeats what the clone
\* shows may be taken without a callback.
SurvivorInv ==
    Deletes /\ Lossless =>
        \A o \in Objs(command.step) :
            o \notin command.todo /\ Asked(o) => kernel[o] = Absent \/ Noted(o) \/ o \in refused

CommandType == CommandsTypeOK /\ CommandInv

\* A call, or a step of a command, is one request to the kernel or none.
LEMMA CommandMoves ==
    CommandType /\ ((\E n \in Name : Call(n)) \/ CommandStep) => UNCHANGED vars \/ CommandSets
  <1> SUFFICES ASSUME CommandType, (\E n \in Name : Call(n)) \/ CommandStep
               PROVE  UNCHANGED vars \/ CommandSets
    OBVIOUS
  <1>f. ASSUME Frame, UNCHANGED netlinkVars PROVE UNCHANGED vars
    BY <1>f DEF Frame, vars
  <1>s. ASSUME Frame, NEW o \in Obj, NEW v \in ValOf(o) \cup {Absent}, Requested(o, v)
        PROVE  CommandSets
    BY <1>s DEF Frame, CommandSets
  <1>1. ASSUME NEW n \in Name, Call(n) PROVE UNCHANGED vars
    BY <1>1 DEF Call, deleteinterfaceip, deleteinterfaceroutes, activatelink, Begin
  <1>2. ASSUME NEW o \in Obj, DeleteOne(o) PROVE UNCHANGED vars \/ CommandSets
    <2>1. Frame /\ (UNCHANGED netlinkVars \/ KernelSets(o, Absent))
      BY <1>2 DEF DeleteOne, AsksNothing, Granted, Refused
    <2>2. KindOf(o) \in {"addr", "route"}
      BY <1>2 DEF DeleteOne, CommandType, CommandInv, Deletes, Asked
    <2>3. o \notin Link
      BY <2>2, LinksAreObjects
    <2> QED BY <2>1, <2>3, <1>f, <1>s DEF Requested
  <1>3. ASSUME NEW l \in Link, FlushOne(l) PROVE CommandSets
    <2>1. /\ Frame /\ kernel[l] # Absent
          /\ KernelSets(l, LinkDown) \/ \E r \in Route : KernelSets(r, Absent)
      BY <1>3 DEF FlushOne, Granted
    <2>2. l \in Obj /\ LinkDown \in ValOf(l) /\ LinkDown # Absent /\ l \notin Addr
      BY LinksAreObjects, ObjectsAssumption
    <2>3. \A r \in Route : r \in Obj /\ r \notin Link /\ r \notin Addr
      BY ObjectsAssumption DEF Obj
    <2> QED BY <2>1, <2>2, <2>3, <1>s DEF Requested
  <1>4. ASSUME NEW l \in Link, BringUp(l) PROVE UNCHANGED vars \/ CommandSets
    <2>1. Frame /\ (UNCHANGED netlinkVars \/ (kernel[l] = LinkDown /\ \E v \in LinkVal : KernelSets(l, v)))
      BY <1>4 DEF BringUp, AsksNothing, Granted, Refused
    <2>2. l \in Obj /\ LinkVal = ValOf(l) /\ l \notin Addr /\ Absent \notin LinkVal /\ LinkDown # Absent
      BY LinksAreObjects, ObjectsAssumption
    <2> QED BY <2>1, <2>2, <1>f, <1>s DEF Requested
  <1>5. ASSUME NEW l \in Link, TakeDown(l) PROVE UNCHANGED vars
    BY <1>5, <1>f DEF TakeDown, AsksNothing, Refused
  <1>6. CASE SecondWalk \/ Return
    BY <1>6, <1>f DEF SecondWalk, Return
  <1> QED BY <1>1, <1>2, <1>3, <1>4, <1>5, <1>6 DEF CommandStep

LEMMA MonitorMoves == CommandType /\ [CNext]_allVars => [Next]_vars \/ CommandSets
  BY CommandMoves DEF CNext, KernelBeside, Handlers, PollBeside, AtRest, Next, CacheThreadStep, allVars

\* The steps that leave the command alone.
LEMMA BesideSteps ==
    ASSUME CommandsTypeOK, [CNext]_allVars
    PROVE  \/ KernelBeside
           \/ UNCHANGED commandVars /\ UNCHANGED moves
              /\ (Handlers \/ (command # Idle => UNCHANGED <<kernel, main, clone>>))
           \/ (\E n \in Name : Call(n)) /\ UNCHANGED <<vars, meddled, refused, moves>>
           \/ CommandStep /\ UNCHANGED moves
  <1>1. ASSUME NEW n \in Name, Call(n) PROVE UNCHANGED <<vars, meddled, refused, moves>>
    BY <1>1 DEF Call, deleteinterfaceip, deleteinterfaceroutes, activatelink, Begin
  <1>2. CommandStep => UNCHANGED moves
    BY DEF CommandStep, DeleteOne, TakeDown, FlushOne, BringUp, SecondWalk, Return, Frame
  <1>3. CASE PollBeside
    BY <1>3 DEF PollBeside, Poll, Include, PollFails, mainVars
  <1>4. CASE AtRest \/ UNCHANGED allVars
    BY <1>4 DEF AtRest, allVars, commandVars, vars, netlinkVars, mainVars
  <1>5. CASE Handlers
    BY <1>5 DEF Handlers
  <1> QED BY <1>1, <1>2, <1>3, <1>4, <1>5 DEF CNext

LEMMA NamedAreLinks == \A n \in Name : InterfacesNamed(n) \subseteq Link
  BY DEF InterfacesNamed

\* The objects in the clone that a deletion is asked to remove.
Wanted(kind, links, families) ==
    {o \in Objs(kind) : /\ OnLink[o] \in links /\ FamilyOf[o] \in families
                        /\ o \in Addr => o \in Global
                        /\ Shows(kind, o)}
Begun(step, links, families, objs) ==
    command' = [step |-> step, links |-> links, families |-> families, todo |-> objs]

LEMMA CallBegins ==
    ASSUME NEW n \in Name, Call(n)
    PROVE  /\ command = Idle /\ main[1] \in {"foreach", "run"}
           /\ \/ \E kind \in {"addr", "route"}, l \in Link, f \in Family :
                    clone[kind] # NoClone /\ Begun(kind, {l}, {f}, Wanted(kind, {l}, {f}))
              \/ \E links \in SUBSET Link : Begun("down", links, {}, links)
  <1>m. Objs("addr") = Addr /\ Objs("route") = Route /\ Addr \cap Route = {} /\ Addr \cup Route \cup Link = Obj
    BY RoutesAreObjects, AddrsAreObjects, ObjectsAssumption DEF Obj
  <1>1. ASSUME NEW f \in Family, deleteinterfaceip(n, f)
        PROVE  /\ command = Idle /\ main[1] \in {"foreach", "run"} /\ clone["addr"] # NoClone
               /\ \E l \in Link : Begun("addr", {l}, {f}, Wanted("addr", {l}, {f}))
    <2>1. PICK l \in InterfacesNamed(n) :
              Begin("addr", {l}, {f}, {a \in Matching("addr", l, f) \cap Global : Shows("addr", a)})
      BY <1>1 DEF deleteinterfaceip
    <2>2. {a \in Matching("addr", l, f) \cap Global : Shows("addr", a)} = Wanted("addr", {l}, {f})
      BY <1>m DEF Matching, Wanted
    <2> QED BY <1>1, <2>1, <2>2, NamedAreLinks DEF deleteinterfaceip, MayCall, Begin, Begun
  <1>2. ASSUME NEW f \in Family, deleteinterfaceroutes(n, f)
        PROVE  /\ command = Idle /\ main[1] \in {"foreach", "run"} /\ clone["route"] # NoClone
               /\ \E l \in Link : Begun("route", {l}, {f}, Wanted("route", {l}, {f}))
    <2>1. PICK l \in InterfacesNamed(n) :
              Begin("route", {l}, {f}, {r \in Matching("route", l, f) : Shows("route", r)})
      BY <1>2 DEF deleteinterfaceroutes
    <2>2. {r \in Matching("route", l, f) : Shows("route", r)} = Wanted("route", {l}, {f})
      BY <1>m DEF Matching, Wanted
    <2> QED BY <1>2, <2>1, <2>2, NamedAreLinks DEF deleteinterfaceroutes, MayCall, Begin, Begun
  <1>3. CASE activatelink(n)
    BY <1>3, NamedAreLinks DEF activatelink, MayCall, Begin, Begun
  <1> QED BY <1>1, <1>2, <1>3 DEF Call

LEMMA CommandTypeInit == CInit => CommandType
  BY InitType, CommandsAssumption DEF CInit, CommandType, CommandsTypeOK, CommandInv

LEMMA CommandTypeStep ==
    MonitorInv /\ MonitorInv' /\ CommandType /\ [CNext]_allVars => CommandType'
  <1> SUFFICES ASSUME MonitorInv, MonitorInv', CommandType, [CNext]_allVars PROVE CommandType'
    OBVIOUS
  <1> USE DEF CommandType
  <1>t. TypeOK' /\ CommandsTypeOK /\ CommandInv
    BY DEF MonitorInv, BaseInv
  <1>1. CASE KernelBeside
    <2>1. UNCHANGED <<command, refused, main, clone>> /\ meddled' \subseteq Link /\ moves' \in 0..MaxMoves
      BY <1>t, <1>1, CommandsAssumption DEF KernelBeside, KernelMoves, mainVars, CommandsTypeOK
    <2>2. ASSUME command # Idle, command.step = "up"
          PROVE  \A l \in Link : l \in meddled \/ kernel[l] # LinkDown => l \in meddled' \/ kernel'[l] # LinkDown
      BY <1>1, <2>2 DEF KernelBeside
    <2>3. CommandsTypeOK'
      BY <1>t, <2>1 DEF CommandsTypeOK
    <2>4. CommandInv'
      <3> SUFFICES ASSUME command # Idle PROVE CommandInv'
        BY <2>1 DEF CommandInv
      <3>1. ~Deletes => command.links \subseteq Link
        BY <1>t DEF CommandInv
      <3> QED BY <1>t, <2>1, <2>2, <3>1 DEF CommandInv, Deletes, Asked
    <2> QED BY <2>3, <2>4
  <1>2. CASE UNCHANGED commandVars /\ UNCHANGED moves /\ (Handlers \/ (command # Idle => UNCHANGED <<kernel, main, clone>>))
    <2>1. CommandsTypeOK' /\ UNCHANGED <<command, meddled, refused>>
      BY <1>t, <1>2 DEF commandVars, CommandsTypeOK
    <2>2. CASE command = Idle
      BY <2>1, <2>2 DEF CommandInv
    <2>3. CASE UNCHANGED <<kernel, main, clone>>
      BY <1>t, <2>1, <2>3 DEF CommandInv, Deletes, Asked
    <2> QED BY <1>2, <2>1, <2>2, <2>3 DEF Handlers
  <1>3. CASE (\E n \in Name : Call(n)) /\ UNCHANGED <<vars, meddled, refused, moves>>
    <2>1. UNCHANGED <<main, clone>>
      BY <1>3 DEF vars, mainVars
    <2>2. PICK n \in Name : Call(n)
      BY <1>3
    <2>3. ASSUME NEW kind \in {"addr", "route"}, NEW l \in Link, NEW f \in Family,
                 clone[kind] # NoClone, Begun(kind, {l}, {f}, Wanted(kind, {l}, {f}))
          PROVE  CommandsTypeOK' /\ CommandInv'
      <3>1. /\ Wanted(kind, {l}, {f}) \in SUBSET Obj /\ {l} \in SUBSET Link /\ {f} \in SUBSET Family
            /\ \A o \in Wanted(kind, {l}, {f}) : /\ KindOf(o) = kind /\ OnLink[o] \in {l} /\ FamilyOf[o] \in {f}
                                                 /\ o \in Addr => o \in Global
        BY DEF Wanted, Objs
      <3>2. CommandsTypeOK'
        BY <1>t, <1>3, <2>3, <3>1 DEF CommandsTypeOK, Begun
      <3>3. /\ command'.step = kind /\ command'.links = {l} /\ command'.families = {f}
            /\ command'.todo = Wanted(kind, {l}, {f})
        BY <2>3 DEF Begun
      <3>4. CommandInv'
        BY <2>1, <2>2, <2>3, <3>1, <3>3, CallBegins DEF CommandInv, Deletes, Asked
      <3> QED BY <3>2, <3>4
    <2>4. ASSUME NEW links \in SUBSET Link, Begun("down", links, {}, links)
          PROVE  CommandsTypeOK' /\ CommandInv'
      <3>1. links \in SUBSET Obj /\ {} \in SUBSET Family
        BY DEF Obj
      <3>2. CommandsTypeOK'
        BY <1>t, <1>3, <2>4, <3>1 DEF CommandsTypeOK, Begun
      <3>3. CommandInv'
        BY <2>1, <2>2, <2>4, CallBegins DEF CommandInv, Deletes, Begun
      <3> QED BY <3>2, <3>3
    <2> QED BY <2>2, <2>3, <2>4, CallBegins
  <1>4. CASE CommandStep /\ UNCHANGED moves
    <2>1. CASE Return
      BY <1>t, <2>1, <1>4 DEF Return, CommandsTypeOK, CommandInv
    <2>2. CASE Frame /\ command # Idle /\ \E s \in {"addr", "route", "flush", "down", "up"}, objs \in SUBSET Obj :
                   /\ Step(s, objs)
                   /\ s \in {"addr", "route"} <=> Deletes
                   /\ Deletes => s = command.step /\ objs \subseteq command.todo
                   /\ ~Deletes => objs \subseteq command.links
                   /\ refused' \in SUBSET Obj
                   /\ s = "up" => \A l \in command.links :
                          l \in objs \/ l \in meddled \/ l \in refused' \/ kernel'[l] # LinkDown
      <3>1. PICK s \in {"addr", "route", "flush", "down", "up"}, objs \in SUBSET Obj :
                   /\ Step(s, objs)
                   /\ s \in {"addr", "route"} <=> Deletes
                   /\ Deletes => s = command.step /\ objs \subseteq command.todo
                   /\ ~Deletes => objs \subseteq command.links
                   /\ refused' \in SUBSET Obj
                   /\ s = "up" => \A l \in command.links :
                          l \in objs \/ l \in meddled \/ l \in refused' \/ kernel'[l] # LinkDown
        BY <2>2
      <3>2. command \in [step : {"addr", "route", "flush", "down", "up"}, links : SUBSET Link,
                         families : SUBSET Family, todo : SUBSET Obj]
        BY <1>t, <2>2 DEF CommandsTypeOK
      <3>3. /\ command'.step = s /\ command'.links = command.links /\ command'.families = command.families
            /\ command'.todo = objs
            /\ command' \in [step : {"addr", "route", "flush", "down", "up"}, links : SUBSET Link,
                             families : SUBSET Family, todo : SUBSET Obj]
        BY <3>1, <3>2 DEF Step
      <3>4. UNCHANGED <<main, clone, meddled>>
        BY <2>2 DEF Frame, mainVars
      <3>5. CommandsTypeOK'
        BY <1>t, <1>4, <3>1, <3>3, <3>4 DEF CommandsTypeOK
      <3>6. CommandInv'
        BY <1>t, <2>2, <3>1, <3>3, <3>4 DEF CommandInv, Deletes, Asked
      <3> QED BY <3>5, <3>6
    <2>r. refused \in SUBSET Obj /\ (command # Idle => command.todo \in SUBSET Obj)
      BY <1>t DEF CommandsTypeOK
    <2>3. ASSUME NEW o \in Obj, DeleteOne(o) PROVE CommandsTypeOK' /\ CommandInv'
      <3>1. /\ Frame /\ command # Idle /\ Deletes /\ Step(command.step, command.todo \ {o})
            /\ refused' \in {refused, refused \cup {o}}
        BY <2>3 DEF DeleteOne, Deletes, AsksNothing, Granted, Refused
      <3> QED BY <2>2, <2>r, <3>1 DEF Deletes
    <2>4. ASSUME NEW l \in Link, TakeDown(l) PROVE CommandsTypeOK' /\ CommandInv'
      <3>1. /\ Frame /\ command # Idle /\ ~Deletes /\ Step("down", command.todo \ {l})
            /\ refused' \in {refused, refused \cup {l}}
        BY <2>4 DEF TakeDown, Deletes, AsksNothing, Refused
      <3>2. /\ command.todo \ {l} \subseteq command.links /\ command.todo \ {l} \in SUBSET Obj
            /\ refused' \in SUBSET Obj
        BY <1>t, <2>r, <3>1 DEF CommandInv, Obj
      <3> QED BY <2>2, <3>1, <3>2
    <2>5. ASSUME NEW l \in Link, FlushOne(l) PROVE CommandsTypeOK' /\ CommandInv'
      <3>1. /\ Frame /\ command # Idle /\ ~Deletes /\ UNCHANGED refused
            /\ Step("down", command.todo \ {l}) \/ command' = [command EXCEPT !.step = "flush"]
        BY <2>5 DEF FlushOne, Deletes, Granted
      <3>2. command.todo \ {l} \subseteq command.links /\ command.todo \ {l} \in SUBSET Obj
        BY <1>t, <2>r, <3>1 DEF CommandInv
      <3>3. CASE Step("down", command.todo \ {l})
        BY <2>2, <2>r, <3>1, <3>2, <3>3
      <3>4. CASE command' = [command EXCEPT !.step = "flush"]
        <4>1. Step("flush", command.todo)
          BY <1>t, <3>1, <3>4 DEF Step, CommandsTypeOK
        <4>2. command.todo \subseteq command.links
          BY <1>t, <3>1 DEF CommandInv
        <4> QED BY <2>2, <2>r, <3>1, <4>1, <4>2
      <3> QED BY <3>1, <3>3, <3>4
    <2>6. ASSUME NEW l \in Link, BringUp(l) PROVE CommandsTypeOK' /\ CommandInv'
      <3>1. /\ Frame /\ command # Idle /\ ~Deletes /\ command.step = "up"
            /\ Step("up", command.todo \ {l})
            /\ \/ UNCHANGED <<netlinkVars, refused>> /\ kernel[l] # LinkDown
               \/ UNCHANGED refused /\ \E v \in LinkVal \ {LinkDown} : KernelSets(l, v)
               \/ refused' = refused \cup {l} /\ UNCHANGED netlinkVars
        BY <2>6 DEF BringUp, Deletes, AsksNothing, Granted, Refused
      <3>2. /\ command.todo \ {l} \subseteq command.links /\ command.todo \ {l} \in SUBSET Obj
            /\ refused' \in SUBSET Obj /\ refused \subseteq refused'
        BY <1>t, <2>r, <3>1 DEF CommandInv, Obj
      <3>3. l \in Obj /\ kernel = [o \in Obj |-> kernel[o]]
        BY DEF Obj, MonitorInv, BaseInv, TypeOK, NetlinkTypeOK, Table
      <3>4. \A m \in Obj : IF m = l THEN l \in refused' \/ kernel'[m] # LinkDown ELSE kernel'[m] = kernel[m]
        BY <3>1, <3>3 DEF KernelSets, netlinkVars
      <3>5. \A m \in command.links :
                m \in command.todo \ {l} \/ m \in meddled \/ m \in refused' \/ kernel'[m] # LinkDown
        BY <1>t, <3>1, <3>2, <3>4 DEF CommandInv, Obj
      <3> QED BY <2>2, <3>1, <3>2, <3>5
    <2>7. CASE SecondWalk
      <3>1. Frame /\ command # Idle /\ ~Deletes /\ Step("up", command.links) /\ refused' = {}
        BY <2>7 DEF SecondWalk, Deletes
      <3>2. command.links \in SUBSET Obj
        BY <1>t, <3>1 DEF CommandsTypeOK, Obj
      <3> QED BY <2>2, <3>1, <3>2
    <2> QED BY <1>4, <2>1, <2>3, <2>4, <2>5, <2>6, <2>7 DEF CommandStep
  <1> QED BY <1>t, <1>1, <1>2, <1>3, <1>4, BesideSteps

-----------------------------------------------------------------------------
(* What escaped a deletion.                                                *)

\* An object that has messages in the queue has a newest one.
LEMMA LastExists ==
    ASSUME NEW o, Len(queue) \in Nat, NEW i \in 1..Len(queue), queue[i].obj = o
    PROVE  \E j \in 1..Len(queue) : LastAbout(o, j)
  <1> DEFINE T == {d \in Nat : d < Len(queue) /\ queue[Len(queue) - d].obj = o}
  <1>1. Len(queue) - i \in T
    <2>1. Len(queue) - (Len(queue) - i) = i /\ Len(queue) - i \in Nat /\ Len(queue) - i < Len(queue)
      OBVIOUS
    <2> QED BY <2>1
  <1>2. PICK d \in T : \A e \in T : <<e, d>> \notin OpToRel(<, Nat)
    BY <1>1, WFMin, NatLessThanWellFounded
  <1>3. \A e \in T : ~(e < d)
    BY <1>2 DEF OpToRel
  <1> DEFINE j == Len(queue) - d
  <1>4. d \in Nat /\ d < Len(queue) /\ queue[j].obj = o /\ j \in 1..Len(queue)
    <2>1. d \in T
      BY <1>2
    <2>2. d \in Nat /\ d < Len(queue) /\ queue[j].obj = o
      BY <2>1
    <2> QED BY <2>2
  <1>5. ASSUME NEW k \in j + 1..Len(queue), queue[k].obj = o PROVE FALSE
    <2>1. Len(queue) - k \in Nat /\ Len(queue) - k < Len(queue) /\ Len(queue) - (Len(queue) - k) = k
          /\ Len(queue) - k < d
      BY <1>4, <1>5
    <2>2. Len(queue) - k \in T
      BY <2>1, <1>5
    <2> QED BY <1>3, <2>1, <2>2
  <1> QED BY <1>4, <1>5 DEF LastAbout

\* What the clone does not show is in the cache already, or in the queue.
LEMMA Unseen ==
    ASSUME MonitorInv, Lossless, main[1] \in {"foreach", "run"}, NEW o \in Obj,
           clone[KindOf(o)] # NoClone, kernel[o] # clone[KindOf(o)][o]
    PROVE  Noted(o)
  <1>1. Len(queue) \in Nat
    BY LenProperties DEF MonitorInv, BaseInv, TypeOK, NetlinkTypeOK
  <1>2. Filled(KindOf(o))
    <2>1. \A k \in Kind : Filled(k)
      <3>1. main[1] \notin {"join", "refill"}
        OBVIOUS
      <3>2. main \notin {<<"join", "link">>, <<"refill", "link">>}
        BY <3>1
      <3> QED BY <3>1, <3>2 DEF Filled, Kind
    <2> QED BY <2>1, Kinds
  <1>3. CASE \E i \in 1..Len(queue) : queue[i].obj = o
    <2>1. PICK i \in 1..Len(queue) : queue[i].obj = o
      BY <1>3
    <2>2. PICK j \in 1..Len(queue) : LastAbout(o, j)
      BY <1>1, <2>1, LastExists
    <2>3. queue[j].obj = o /\ queue[j].val = kernel[o]
      BY <2>2 DEF LastAbout, MonitorInv, ConvergeInv, CacheConverges
    <2> QED BY <2>3 DEF Noted
  <1>4. CASE \A i \in 1..Len(queue) : queue[i].obj # o
    <2>1. live[o] = kernel[o]
      BY <1>2, <1>4 DEF MonitorInv, ConvergeInv, CacheConverges
    <2> QED BY <2>1 DEF MonitorInv, Behind, Noted
  <1> QED BY <1>3, <1>4

\* A change by the kernel, or by the command, leaves what was noted noted, and
\* what it puts back is noted.
LEMMA KernelSetsNotes ==
    ASSUME MonitorInv, MonitorInv', main[1] \in {"foreach", "run"}, Lossless',
           NEW p \in Obj, NEW v \in ValOf(p) \cup {Absent}, KernelSets(p, v),
           UNCHANGED <<clone, main>>,
           NEW o \in Obj, clone[KindOf(o)] # NoClone, kernel[o] = Absent \/ Noted(o)
    PROVE  kernel'[o] = Absent \/ Noted(o)'
  <1>1. CASE Noted(o)
    <2>1. UNCHANGED <<pending, clone>> /\ Len(queue) \in Nat
      BY LenProperties DEF KernelSets, MonitorInv, BaseInv, TypeOK, NetlinkTypeOK
    <2>2. queue' = queue \/ /\ Len(queue') = Len(queue) + 1
                            /\ \A i \in 1..Len(queue) : queue'[i] = queue[i]
      BY <2>1 DEF KernelSets, MonitorInv, BaseInv, TypeOK, NetlinkTypeOK
    <2> QED BY <1>1, <2>1, <2>2 DEF Noted
  <1>2. CASE ~Noted(o) /\ kernel[o] = Absent
    <2>1. Lossless
      BY DEF Lossless, KernelSets
    <2>2. clone[KindOf(o)][o] = Absent
      BY <1>2, <2>1, Unseen
    <2>3. CASE p # o
      BY <1>2, <2>3 DEF KernelSets, MonitorInv, BaseInv, TypeOK, NetlinkTypeOK, Table
    <2>4. CASE p = o
      <3>1. KindOf(o) \in groups /\ drops = "none" /\ drops' = "none"
        BY <2>1, Kinds DEF MonitorInv, ConvergeInv, Joined, Filled, Kind, Lossless
      <3>2. /\ queue' = Append(queue, [obj |-> o, val |-> v])
            /\ queue \in Seq(Message) /\ Len(queue) \in Nat /\ kernel'[o] = v
        BY <2>4, <3>1, LenProperties DEF KernelSets, MonitorInv, BaseInv, TypeOK, NetlinkTypeOK, Table
      <3>3. Len(queue) + 1 \in 1..Len(queue') /\ queue'[Len(queue) + 1] = [obj |-> o, val |-> v]
        BY <3>2
      <3>4. clone'[KindOf(o)][o] = Absent
        BY <2>2
      <3> QED BY <3>2, <3>3, <3>4 DEF Noted
    <2> QED BY <2>3, <2>4
  <1> QED BY <1>1, <1>2

\* A message is taken without a callback only if it repeats what the clone shows.
LEMMA PollNotes ==
    ASSUME MonitorInv, Poll, NEW o \in Obj, clone[KindOf(o)] # NoClone, Noted(o)
    PROVE  Noted(o)'
  <1>1. pending = NoCallback /\ UNCHANGED clone /\ Include /\ NetlinkTypeOK
    BY DEF Poll, Include, MonitorInv, BaseInv, TypeOK
  <1>2. PICK i \in 1..Len(queue) : queue[i].obj = o /\ queue[i].val # clone[KindOf(o)][o]
    BY <1>1 DEF Noted
  <1>3. clone[KindOf(o)][o] = live[o]
    BY <1>1 DEF MonitorInv, Behind
  <1>4. /\ Len(queue) \in Nat /\ queue[1] = Head(queue) /\ Len(queue') = Len(queue) - 1
        /\ \A j \in 1..Len(queue') : queue'[j] = queue[j + 1]
    BY <1>1, HeadTailProperties, LenProperties DEF NetlinkTypeOK, Include
  <1>5. CASE i = 1
    <2>1. live[Head(queue).obj] # Head(queue).val /\ Head(queue).obj = o
      BY <1>2, <1>3, <1>4, <1>5
    <2>2. pending' \in Callback /\ pending'.obj = o
      BY <1>1, <2>1, IncludeCallback
    <2> QED BY <2>2, MarkersAssumption DEF Noted
  <1>6. CASE i # 1
    <2>1. i - 1 \in 1..Len(queue') /\ queue'[i - 1] = queue[i]
      <3>1. i - 1 \in 1..Len(queue') /\ (i - 1) + 1 = i
        BY <1>4, <1>6
      <3> QED BY <3>1, <1>4
    <2> QED BY <1>1, <1>2, <2>1 DEF Noted
  <1> QED BY <1>5, <1>6

LEMMA SurvivorStep ==
    MonitorInv /\ MonitorInv' /\ CommandType /\ SurvivorInv /\ [CNext]_allVars => SurvivorInv'
  <1> SUFFICES ASSUME MonitorInv, MonitorInv', CommandType, SurvivorInv, [CNext]_allVars,
                      Deletes', Lossless',
                      NEW o \in Obj, (o \in Objs(command.step) /\ o \notin command.todo /\ Asked(o))'
               PROVE  kernel'[o] = Absent \/ Noted(o)' \/ o \in refused'
    BY DEF SurvivorInv, Objs
  <1>k. KindOf(o) = command'.step
    BY DEF Objs
  <1>t. CommandsTypeOK /\ CommandInv
    BY DEF CommandType
  <1>i. ASSUME UNCHANGED <<command, refused>>, o \notin refused
        PROVE  /\ main[1] \in {"foreach", "run"} /\ clone[KindOf(o)] # NoClone
               /\ Lossless => kernel[o] = Absent \/ Noted(o)
    BY <1>i, <1>k, <1>t DEF SurvivorInv, CommandInv, Deletes, Asked
  <1>1. CASE KernelBeside
    <2>1. /\ UNCHANGED <<command, refused, clone, main>>
          /\ \E p \in Obj : \E v \in ValOf(p) \cup {Absent} : KernelSets(p, v)
      BY <1>1, Kinds DEF KernelBeside, KernelMoves, mainVars, KernelStep, KernelLink, KernelAddr, KernelRoute, Obj
    <2>2. PICK p \in Obj : \E v \in ValOf(p) \cup {Absent} : KernelSets(p, v)
      BY <2>1
    <2>3. Lossless
      BY <2>2 DEF KernelSets, Lossless
    <2> QED BY <1>i, <2>1, <2>2, <2>3, KernelSetsNotes
  <1>2. CASE Handlers
    BY <1>2 DEF Handlers, commandVars, Deletes
  <1>3. CASE PollBeside
    <2>1. UNCHANGED <<command, refused>> /\ Poll /\ UNCHANGED <<kernel, drops>>
      BY <1>3 DEF PollBeside, Poll, Include, PollFails, commandVars, Lossless
    <2>2. kernel[o] = Absent \/ Noted(o) \/ o \in refused
      BY <1>i, <2>1 DEF Lossless
    <2> QED BY <1>i, <2>1, <2>2, PollNotes
  <1>4. CASE AtRest \/ UNCHANGED allVars
    <2>1. UNCHANGED <<command, refused, kernel, queue, pending, clone, drops>>
      BY <1>4 DEF AtRest, allVars, commandVars, vars, netlinkVars
    <2> QED BY <1>i, <2>1 DEF Noted, Lossless
  <1>5. ASSUME NEW n \in Name, Call(n) PROVE kernel'[o] = Absent \/ Noted(o)'
    <2>1. UNCHANGED vars
      BY <1>5 DEF Call, deleteinterfaceip, deleteinterfaceroutes, activatelink, Begin
    <2>2. UNCHANGED <<kernel, queue, pending, clone, drops>>
      BY <2>1 DEF vars, netlinkVars
    <2>3. PICK kind \in {"addr", "route"}, l \in Link, f \in Family :
              clone[kind] # NoClone /\ Begun(kind, {l}, {f}, Wanted(kind, {l}, {f}))
      <3>1. ~\E links \in SUBSET Link : Begun("down", links, {}, links)
        BY DEF Begun, Deletes
      <3> QED BY <1>5, <3>1, CallBegins
    <2>4. /\ KindOf(o) = kind /\ o \in Objs(kind) /\ OnLink[o] \in {l} /\ FamilyOf[o] \in {f}
          /\ o \in Addr => o \in Global
          /\ o \notin Wanted(kind, {l}, {f})
      BY <1>k, <2>3 DEF Begun, Asked, Objs
    <2>5. clone[KindOf(o)] # NoClone /\ clone[KindOf(o)][o] = Absent
      BY <2>3, <2>4 DEF Wanted, Shows
    <2>6. main[1] \in {"foreach", "run"} /\ Lossless
      BY <1>5, <2>2, CallBegins DEF Lossless
    <2>7. kernel[o] = Absent \/ Noted(o)
      BY <2>5, <2>6, Unseen
    <2> QED BY <2>2, <2>7 DEF Noted
  <1>6. ASSUME NEW p \in Obj, DeleteOne(p), o \notin refused'
        PROVE  kernel'[o] = Absent \/ Noted(o)'
    <2>1. /\ Deletes /\ Frame /\ Step(command.step, command.todo \ {p})
          /\ IF kernel[p] = Absent \/ (p \in Route /\ kernel[p] # clone["route"][p])
             THEN UNCHANGED netlinkVars
             ELSE KernelSets(p, Absent) \/ (o # p /\ UNCHANGED netlinkVars)
          /\ o \notin refused
      BY <1>6 DEF DeleteOne, Deletes, AsksNothing, Granted, Refused
    <2>2. /\ command \in [step : {"addr", "route", "flush", "down", "up"}, links : SUBSET Link,
                          families : SUBSET Family, todo : SUBSET Obj]
      BY <1>t, <2>1 DEF CommandsTypeOK, Deletes
    <2>3. /\ command'.step = command.step /\ command'.links = command.links
          /\ command'.families = command.families /\ command'.todo = command.todo \ {p}
      BY <2>1, <2>2 DEF Step
    <2>4. UNCHANGED <<main, clone>>
      BY <2>1 DEF Frame, mainVars
    <2>5. Asked(o) /\ o \in Objs(command.step) /\ (o \notin command.todo \/ o = p)
      BY <1>k, <2>3 DEF Asked
    <2>6. main[1] \in {"foreach", "run"} /\ clone[KindOf(o)] # NoClone /\ Lossless
      <3>1. clone[command.step] # NoClone /\ main[1] \in {"foreach", "run"}
        BY <1>t, <2>1 DEF CommandInv, Deletes
      <3>2. Lossless
        BY <2>1 DEF KernelSets, netlinkVars, Lossless
      <3> QED BY <1>k, <2>3, <3>1, <3>2
    <2>7. CASE o \notin command.todo
      <3>1. kernel[o] = Absent \/ Noted(o)
        BY <2>1, <2>5, <2>6, <2>7 DEF SurvivorInv
      <3>2. CASE UNCHANGED netlinkVars
        BY <2>4, <3>1, <3>2 DEF Noted, netlinkVars
      <3>3. CASE KernelSets(p, Absent)
        BY <2>4, <2>6, <3>1, <3>3, KernelSetsNotes
      <3> QED BY <2>1, <3>2, <3>3
    <2>8. CASE o = p
      <3>1. CASE KernelSets(p, Absent)
        BY <2>8, <3>1 DEF KernelSets, MonitorInv, BaseInv, TypeOK, NetlinkTypeOK, Table
      <3>2. CASE kernel[p] = Absent /\ UNCHANGED netlinkVars
        BY <2>8, <3>2 DEF netlinkVars
      <3>3. CASE p \in Route /\ kernel[p] # clone["route"][p] /\ UNCHANGED netlinkVars
        <4>1. Noted(o)
          BY <2>6, <2>8, <3>3, Unseen, RoutesAreObjects
        <4> QED BY <2>4, <3>3, <4>1 DEF Noted, netlinkVars
      <3> QED BY <2>1, <2>8, <3>1, <3>2, <3>3
    <2> QED BY <2>5, <2>7, <2>8
  <1>7. ASSUME NEW l \in Link, TakeDown(l) \/ FlushOne(l) \/ BringUp(l) PROVE FALSE
    BY <1>7, <1>t DEF TakeDown, FlushOne, BringUp, Step, Deletes, CommandsTypeOK
  <1>8. CASE SecondWalk \/ Return
    BY <1>8, <1>t DEF SecondWalk, Return, Step, Deletes, CommandsTypeOK
  <1> QED BY <1>1, <1>2, <1>3, <1>4, <1>5, <1>6, <1>7, <1>8 DEF CNext, CommandStep

-----------------------------------------------------------------------------
(* Theorems.                                                               *)

AllInv == MonitorInv /\ CommandType /\ SurvivorInv

LEMMA AllInvInit == CInit => AllInv /\ Feed!Init
  BY MonitorInvInit, CommandTypeInit DEF AllInv, CInit, SurvivorInv, Deletes

LEMMA AllInvStep == AllInv /\ [CNext]_allVars => AllInv' /\ [Feed!Next]_(Feed!vars)
  <1> SUFFICES ASSUME AllInv, [CNext]_allVars PROVE AllInv' /\ [Feed!Next]_(Feed!vars)
    OBVIOUS
  <1>1. MonitorInv' /\ [Feed!Next]_(Feed!vars)
    BY MonitorMoves, MonitorInvStep DEF AllInv
  <1> QED BY <1>1, CommandTypeStep, SurvivorStep DEF AllInv

\* A command under way is well formed, and so is the monitor beside it.
THEOREM CommandsTypeCorrect == CSpec => []CommandsTypeOK
  <1>1. AllInv => CommandsTypeOK
    BY DEF AllInv, CommandType
  <1> QED BY <1>1, AllInvInit, AllInvStep, PTL DEF CSpec

\* However the commands and the kernel interleave with the cache thread, the
\* subscribers and the queries are served as by a monitor without commands: in order,
\* rightly, and by name.
THEOREM CommandsKeepFeeds ==
    CSpec => /\ [](CloneIsCurrent /\ AddrFeedMatchesClone /\ CacheConverges)
             /\ [](RouteFeedMatchesKernel /\ DfltFeedMatchesKernel /\ LinkFeedMatchesKernel)
             /\ LinkFeedSpec /\ EventsNameTheirLink /\ AddrMessagesAlternate
  <1>1. AllInv => CloneIsCurrent /\ AddrFeedMatchesClone /\ CacheConverges
    BY DEF AllInv, MonitorInv, BaseInv, ConvergeInv, AddrInv, AddrFeedMatchesClone, InClone, Past, Initialized,
           CloneInv, CloneStage, CloneIsCurrent, Walked, Current
  <1>2. AllInv => RouteFeedMatchesKernel /\ DfltFeedMatchesKernel
    BY QuiescentRoutes, RoutesAssumption
       DEF AllInv, MonitorInv, RouteFeedMatchesKernel, DfltFeedMatchesKernel, Mute, Told
  <1>3. AllInv => LinkFeedMatchesKernel
    BY RightWords DEF AllInv, MonitorInv, LinkBase
  <1>4. AllInv /\ [CNext]_allVars =>
            [Initialized /\ Lossless =>
                 \A a \in Addr : addrSaid'[a] = "ignored" => addrSaid[a] = "ignored"]_vars
    <2>1. CommandSets => UNCHANGED addrSaid
      BY DEF CommandSets
    <2> QED BY <2>1, MonitorMoves, NoneIgnored DEF AllInv, MonitorInv
  <1> DEFINE InTurn == \A a \in Addr :
                 /\ InitCallback(a) => addrSaid[a] = "none"
                 /\ ChangeCallback /\ pending.obj = a =>
                       /\ pending.action = "add" => addrSaid[a] # "add"
                       /\ pending.action = "delete" => addrSaid[a] \in {"add", "ignored"}
  <1>5. AllInv => [InTurn]_vars
    BY AddrTurns DEF AllInv, MonitorInv
  <1> QED BY <1>1, <1>2, <1>3, <1>4, <1>5, AllInvInit, AllInvStep, PTL
          DEF CSpec, LinkFeedSpec, Feed!Spec, EventsNameTheirLink, AddrMessagesAlternate

\* A command asks the kernel to change nothing but what its caller named.
THEOREM AsksOnlyForWhatWasAsked == CSpec => OnlyWhatWasAsked
  <1> DEFINE Only == kernel' # kernel /\ moves' = moves =>
                 \A o \in Obj : kernel'[o] # kernel[o] =>
                     IF command.step \in {"addr", "route"}
                     THEN /\ KindOf(o) = command.step /\ OnLink[o] \in command.links
                          /\ FamilyOf[o] \in command.families /\ (o \in Addr => o \in Global)
                     ELSE o \in command.links \/ (o \in Route /\ OnLink[o] \in command.links)
  <1>1. AllInv /\ [CNext]_allVars => [Only]_allVars
    <2> SUFFICES ASSUME AllInv, CNext, kernel' # kernel, moves' = moves, NEW o \in Obj, kernel'[o] # kernel[o]
                 PROVE  IF command.step \in {"addr", "route"}
                        THEN Asked(o)
                        ELSE o \in command.links \/ (o \in Route /\ OnLink[o] \in command.links)
      BY DEF Asked
    <2>1. CommandInv /\ kernel = [p \in Obj |-> kernel[p]]
      BY DEF AllInv, CommandType, MonitorInv, BaseInv, TypeOK, NetlinkTypeOK, Table
    <2>2. ASSUME NEW p \in Obj, DeleteOne(p) PROVE Asked(o) /\ Deletes
      <3>1. KernelSets(p, Absent) /\ p \in command.todo /\ Deletes
        BY <2>2 DEF DeleteOne, netlinkVars, Deletes, AsksNothing, Granted, Refused
      <3>2. o = p
        BY <2>1, <3>1 DEF KernelSets
      <3> QED BY <2>1, <3>1, <3>2 DEF CommandInv, Deletes
    <2>3. ASSUME NEW l \in Link, FlushOne(l)
          PROVE  ~Deletes /\ command # Idle /\ (o \in command.links \/ (o \in Route /\ OnLink[o] \in command.links))
      <3>1. /\ ~Deletes /\ command # Idle /\ l \in command.todo
            /\ KernelSets(l, LinkDown) \/ \E r \in Route : OnLink[r] = l /\ KernelSets(r, Absent)
        BY <2>3 DEF FlushOne, Deletes, Granted
      <3>2. l \in command.links /\ l \in Obj /\ Route \subseteq Obj
        BY <2>1, <3>1 DEF CommandInv, Obj
      <3> QED BY <2>1, <3>1, <3>2 DEF KernelSets
    <2>4. ASSUME NEW l \in Link, BringUp(l) PROVE ~Deletes /\ command # Idle /\ o \in command.links
      <3>1. ~Deletes /\ command # Idle /\ l \in command.todo /\ \E v \in LinkVal : KernelSets(l, v)
        BY <2>4 DEF BringUp, Deletes, netlinkVars, AsksNothing, Granted, Refused
      <3>2. l \in command.links /\ l \in Obj
        BY <2>1, <3>1 DEF CommandInv, Obj
      <3> QED BY <2>1, <3>1, <3>2 DEF KernelSets
    <2>5. ~(SecondWalk \/ Return \/ \E l \in Link : TakeDown(l))
      BY DEF SecondWalk, Return, TakeDown, vars, netlinkVars, AsksNothing, Refused
    <2>6. CommandStep
      <3>1. moves \in Nat
        BY DEF AllInv, CommandType, CommandsTypeOK
      <3>2. ~KernelBeside
        BY <3>1 DEF KernelBeside
      <3>3. ~(PollBeside \/ AtRest \/ \E n \in Name : Call(n))
        BY DEF PollBeside, Poll, PollFails, Include, AtRest, allVars, Call, deleteinterfaceip,
               deleteinterfaceroutes, activatelink, Begin, vars, netlinkVars
      <3>4. ~Handlers
        BY DEF Handlers, MainStep, AddCache, FillCache, InitCallback, ForeachDone, ChangeCallback, JoinGroups, Refill,
               netlinkVars
      <3> QED BY <3>2, <3>3, <3>4 DEF CNext
    <2> QED BY <2>2, <2>3, <2>4, <2>5, <2>6 DEF CommandStep, Deletes
  <1> QED BY <1>1, AllInvInit, AllInvStep, PTL DEF CSpec, OnlyWhatWasAsked

\* activatelink leaves up what nobody else touched, unless the kernel refused to set it
\* up again.
THEOREM ActivatedTrue == CSpec => []ActivatedIsUp
  <1>1. AllInv => ActivatedIsUp
    BY DEF AllInv, CommandType, CommandInv, ActivatedIsUp
  <1> QED BY <1>1, AllInvInit, AllInvStep, PTL DEF CSpec

\* What escapes a deletion is on its way to the clients when the call returns, unless the
\* kernel refused to remove it: then the queries show it as it is.
THEOREM SurvivorsTrue == CSpec => []SurvivorsAreOnTheirWay
  <1>1. ASSUME AllInv PROVE SurvivorsAreOnTheirWay
    <2> SUFFICES ASSUME Deletes, command.todo = {}, Lossless, NEW o \in Objs(command.step),
                        Asked(o), kernel[o] # Absent
                 PROVE  Noted(o) \/ (o \in refused /\ clone[command.step][o] = kernel[o])
      BY DEF SurvivorsAreOnTheirWay, Deletes, Asked, Noted, Objs
    <2>1. Noted(o) \/ o \in refused
      BY <1>1 DEF AllInv, SurvivorInv
    <2>2. /\ main[1] \in {"foreach", "run"} /\ KindOf(o) = command.step
          /\ clone[command.step] # NoClone
      BY <1>1 DEF AllInv, CommandType, CommandInv, Deletes, Objs
    <2>3. kernel[o] = clone[command.step][o] \/ Noted(o)
      BY <1>1, <2>2, Unseen DEF AllInv, Objs
    <2> QED BY <2>1, <2>3
  <1> QED BY <1>1, AllInvInit, AllInvStep, PTL DEF CSpec
=================================================================================
