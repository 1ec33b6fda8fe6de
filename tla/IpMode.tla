--------------------------------- MODULE IpMode ---------------------------------
(***************************************************************************)
(* ipmodechange.sh, a dfltroute subscriber, and ipv6addressChange.sh, an   *)
(* address subscriber (nlmon_client.cfg runs both).  They tell             *)
(* each other and the rest of the box by empty files in /tmp which         *)
(* addresses and routes there are and which IP mode was published.         *)
(* nlmon starts the scripts in the order of the notifications and waits    *)
(* for none (subscribers.h:63 ends the command with &): any number of them *)
(* interleave command by command, and all lag behind the kernel, which     *)
(* ipv6addressChange.sh also asks directly.                                *)
(***************************************************************************)
EXTENDS Naturals, Sequences

CONSTANTS Addr,        \* addresses of global scope, not on dobby0
          Route,       \* default routes with a gateway
          Ifc,         \* interfaces of /sys/class/net, other than dobby0
          FamilyOf,    \* FamilyOf[o]: the family of an address or a route
          IfcOf,       \* IfcOf[a]: the interface of an address
          Ignored,     \* unique local IPv6 and zero-configuration IPv4 addresses
          Managed,     \* the WiFi, MoCA and LAN interfaces of device.properties
          MaxMoves,    \* changes the kernel makes (a bound)
          Proc,        \* processes: the scripts that may run at once (a bound)
          Idle         \* a process that runs no script

Family == {"ipv4", "ipv6"}
Subscription == {"address", "dfltroute"}

ASSUME IpModeAssumption ==
    /\ FamilyOf \in [Addr \cup Route -> Family] /\ IfcOf \in [Addr -> Ifc]
    /\ Ignored \subseteq Addr /\ Managed \subseteq Ifc
    /\ Addr \cap Route = {} /\ MaxMoves \in Nat

\* Where a script is, and what it runs for: todo is what it has still to look at.
AddressLabels == {"touch estb", "touch global", "look", "rm global"}
RouteLabels == {"touch route", "test modes", "test ipv4_mode", "test global", "publish", "touch mode",
                "rm route", "rm mode", "test ipv4_route", "rm ipv4_route"}
Labels == AddressLabels \cup RouteLabels
Script == [op : {"add", "delete"}, obj : Addr \cup Route, todo : SUBSET Ifc, at : Labels]

ASSUME IdleAssumption == Idle \notin Script

Estb == [ipv4 |-> "estb_ipv4", ipv6 |-> "estb_ipv6"]
Global == [ipv4 |-> "ipv4_global", ipv6 |-> "ipv6_global"]
RouteFlag == [ipv4 |-> "ipv4_route", ipv6 |-> "ipv6_route"]
Mode == [ipv4 |-> "ipv4_mode", ipv6 |-> "ipv6_mode"]
File == {Estb[f] : f \in Family} \cup {Global[f] : f \in Family}
           \cup {RouteFlag[f] : f \in Family} \cup {Mode[f] : f \in Family}

VARIABLES kernel,      \* the addresses and routes there are
          moves,       \* changes the kernel has made
          inbox,       \* inbox[s]: notifications to be handled by s
          script,      \* script[p]: the script that process p runs, or Idle
          tmp,         \* the files in /tmp
          published,   \* the mode in the last IpmodeEvent
          mixed,       \* processes whose ipmodechange.sh has run beside one that
                       \* announces the other mode
          raced        \* <<"add", f>>: an add of family f was started beside a
                       \* delete's script; <<"delete", f>>: the delete of an address
                       \* beside the script of its own add

history == <<mixed, raced>>
vars == <<kernel, moves, inbox, script, tmp, published, history>>

Init ==
    /\ kernel = {} /\ moves = 0
    /\ inbox = [s \in Subscription |-> <<>>]
    /\ script = [p \in Proc |-> Idle]
    /\ tmp = {}
    /\ published = "none"
    /\ mixed = {} /\ raced = {}

\* An address or a route comes or goes, and nlmon tells of it.
KernelMoves(o) ==
    LET s == IF o \in Addr THEN "address" ELSE "dfltroute"
        op == IF o \in kernel THEN "delete" ELSE "add"
    IN  /\ moves < MaxMoves
        /\ moves' = moves + 1
        /\ kernel' = IF o \in kernel THEN kernel \ {o} ELSE kernel \cup {o}
        /\ inbox' = [inbox EXCEPT ![s] = Append(@, [op |-> op, obj |-> o])]
        /\ UNCHANGED <<script, tmp, published, history>>

-----------------------------------------------------------------------------
(* Commands of a script.                                                   *)

Running(p) == script[p] # Idle
At(p, label) == Running(p) /\ script[p].at = label
Obj(p) == script[p].obj
Fam(p) == FamilyOf[script[p].obj]
Goto(p, label) == script' = [script EXCEPT ![p].at = label] /\ UNCHANGED history
Exit(p) == script' = [script EXCEPT ![p] = Idle] /\ mixed' = mixed \ {p} /\ UNCHANGED raced
Touch(f) == tmp' = tmp \cup {f} /\ UNCHANGED <<kernel, moves, inbox, published>>
Remove(f) == tmp' = tmp \ {f} /\ UNCHANGED <<kernel, moves, inbox, published>>
Test == UNCHANGED <<kernel, moves, inbox, tmp, published>>
Publish(mode) == published' = mode /\ UNCHANGED <<kernel, moves, inbox, tmp>>

\* The first command of the script of each subscription and operation.
First ==
    [address   |-> [add |-> "touch estb", delete |-> "look"],
     dfltroute |-> [add |-> "touch route", delete |-> "rm route"]]

\* An add announces its own family; the delete of IPv6 falls back to IPv4.
Announces(op, family) == IF op = "add" THEN family ELSE IF family = "ipv6" THEN "ipv4" ELSE "none"
Announced(p) == Announces(script[p].op, Fam(p))

\* The running scripts of ipmodechange.sh that announce the other mode than msg's will.
Opposed(msg) ==
    {p \in Proc : /\ Running(p) /\ Obj(p) \in Route
                  /\ {Announced(p), Announces(msg.op, FamilyOf[msg.obj])} = {"ipv4", "ipv6"}}

\* What msg's script of ipv6addressChange.sh races with: a script that does the opposite to
\* files that tell of msg's family, after msg's has touched them or has found an address.
Crosses(p, msg) ==
    /\ Running(p) /\ Obj(p) \in Addr /\ script[p].op # msg.op
    /\ IF msg.op = "add" THEN Fam(p) = FamilyOf[msg.obj] ELSE Obj(p) = msg.obj

Races(msg) == IF \E p \in Proc : Crosses(p, msg) THEN {<<msg.op, FamilyOf[msg.obj]>>} ELSE {}

\* system() returns at once.  Looking at the kernel's addresses takes the interfaces one
\* by one.
Start(s, p) ==
    /\ script[p] = Idle /\ inbox[s] # <<>>
    /\ inbox' = [inbox EXCEPT ![s] = Tail(@)]
    /\ LET msg == Head(inbox[s])
       IN  /\ script' = [script EXCEPT ![p] = [op |-> msg.op, obj |-> msg.obj, todo |-> Ifc,
                                               at |-> First[s][msg.op]]]
           /\ mixed' = IF s = "dfltroute" /\ Opposed(msg) # {}
                       THEN mixed \cup Opposed(msg) \cup {p} ELSE mixed
           /\ raced' = IF s = "address" THEN raced \cup Races(msg) ELSE raced
    /\ UNCHANGED <<kernel, moves, tmp, published>>

-----------------------------------------------------------------------------
(* ipv6addressChange.sh.  addressaquired_ipv4 and addressaquired_ipv6 come *)
(* and go with the files of Estb.                                          *)

TouchEstb(p) ==
    /\ At(p, "touch estb")
    /\ Goto(p, "touch global")
    /\ IF Obj(p) \in Ignored THEN Test ELSE Touch(Estb[Fam(p)])

TouchGlobal(p) ==
    /\ At(p, "touch global")
    /\ Exit(p)
    /\ IF IfcOf[Obj(p)] \in Managed THEN Touch(Global[Fam(p)]) ELSE Test

\* ip addr show, for each interface in turn, until one has an address.
Has(p, i) == \E a \in Addr \cap kernel : IfcOf[a] = i /\ FamilyOf[a] = Fam(p)
Skips(a) == a \in Ignored /\ FamilyOf[a] = "ipv6"

Look(p, i) ==
    /\ At(p, "look") /\ ~Skips(Obj(p))
    /\ i \in script[p].todo
    /\ IF Has(p, i) THEN Goto(p, "rm global")
       ELSE script' = [script EXCEPT ![p].todo = @ \ {i}] /\ UNCHANGED history
    /\ Test

\* Mutant: the kernel is not asked.
RemoveEstbMutant(p) ==
    /\ At(p, "look") /\ ~Skips(Obj(p))
    /\ Goto(p, "rm global")
    /\ Remove(Estb[Fam(p)])

RemoveEstb(p) ==
    /\ At(p, "look") /\ ~Skips(Obj(p)) /\ script[p].todo = {}
    /\ Goto(p, "rm global")
    /\ Remove(Estb[Fam(p)])

SkipLook(p) ==
    /\ At(p, "look") /\ Skips(Obj(p))
    /\ Goto(p, "rm global")
    /\ Test

\* Mutant: the flag is removed only when the kernel has no address left.
RemoveGlobalMutant(p) ==
    /\ At(p, "rm global")
    /\ Exit(p)
    /\ IF IfcOf[Obj(p)] \in Managed /\ script[p].todo = {} THEN Remove(Global[Fam(p)]) ELSE Test

\* Whatever other addresses there are.
RemoveGlobal(p) ==
    /\ At(p, "rm global")
    /\ Exit(p)
    /\ IF IfcOf[Obj(p)] \in Managed THEN Remove(Global[Fam(p)]) ELSE Test

AddressScript(p) ==
    \/ TouchEstb(p) \/ TouchGlobal(p) \/ RemoveEstb(p) \/ SkipLook(p) \/ RemoveGlobal(p)
    \/ \E i \in Ifc : Look(p, i)

-----------------------------------------------------------------------------
(* ipmodechange.sh.                                                        *)

TouchRoute(p) ==
    /\ At(p, "touch route")
    /\ Goto(p, IF Fam(p) = "ipv4" THEN "test modes" ELSE "test global")
    /\ Touch(RouteFlag[Fam(p)])

\* Mutant: IPv4 is published whatever the mode.
TestModesMutant(p) ==
    /\ At(p, "test modes")
    /\ Goto(p, "test global")
    /\ Test

\* Two tests, one after the other; IPv4 is published only if no mode is.
TestModes(p) ==
    /\ At(p, "test modes")
    /\ \/ Mode["ipv6"] \in tmp /\ Exit(p)
       \/ Mode["ipv6"] \notin tmp /\ Goto(p, "test ipv4_mode")
    /\ Test

TestIpv4Mode(p) ==
    /\ At(p, "test ipv4_mode")
    /\ \/ Mode["ipv4"] \in tmp /\ Exit(p)
       \/ Mode["ipv4"] \notin tmp /\ Goto(p, "test global")
    /\ Test

\* An add publishes only with an address; a delete goes on only without one.
TestGlobal(p) ==
    /\ At(p, "test global")
    /\ LET present == Global[Fam(p)] \in tmp
       IN  \/ script[p].op = "add" /\ present /\ Goto(p, "publish")
           \/ script[p].op = "delete" /\ ~present /\ Goto(p, "rm mode")
           \/ script[p].op = "add" /\ ~present /\ Exit(p)
           \/ script[p].op = "delete" /\ present
              /\ IF Fam(p) = "ipv6" THEN Exit(p) ELSE Goto(p, "rm ipv4_route")
    /\ Test

\* Mutant: the family is published as nlmon gives it, as a number.
PublishModeMutant(p) ==
    /\ At(p, "publish")
    /\ Goto(p, "touch mode")
    /\ Publish(IF Announced(p) = "ipv4" THEN "2" ELSE "10")

PublishMode(p) ==
    /\ At(p, "publish")
    /\ Goto(p, "touch mode")
    /\ Publish(Announced(p))

TouchMode(p) ==
    /\ At(p, "touch mode")
    /\ Exit(p)
    /\ Touch(Mode[Announced(p)])

\* The delete of an IPv6 route begins with its flag, that of an IPv4 one ends so.
RemoveRoute(p) ==
    /\ At(p, "rm route")
    /\ Goto(p, "test global")
    /\ IF Fam(p) = "ipv6" THEN Remove(RouteFlag["ipv6"]) ELSE Test

RemoveMode(p) ==
    /\ At(p, "rm mode")
    /\ Goto(p, IF Fam(p) = "ipv6" THEN "test ipv4_route" ELSE "rm ipv4_route")
    /\ Remove(Mode[Fam(p)])

TestIpv4Route(p) ==
    /\ At(p, "test ipv4_route")
    /\ \/ RouteFlag["ipv4"] \in tmp /\ Goto(p, "publish")
       \/ RouteFlag["ipv4"] \notin tmp /\ Exit(p)
    /\ Test

RemoveIpv4Route(p) ==
    /\ At(p, "rm ipv4_route")
    /\ Exit(p)
    /\ Remove(RouteFlag["ipv4"])

RouteScript(p) ==
    \/ TouchRoute(p) \/ TestModes(p) \/ TestIpv4Mode(p) \/ TestGlobal(p) \/ PublishMode(p)
    \/ TouchMode(p) \/ RemoveRoute(p) \/ RemoveMode(p) \/ TestIpv4Route(p) \/ RemoveIpv4Route(p)

-----------------------------------------------------------------------------
ScriptStep ==
    \E p \in Proc : AddressScript(p) \/ RouteScript(p) \/ \E s \in Subscription : Start(s, p)

\* The bound is reached and everything has been handled.
AtRest ==
    /\ moves = MaxMoves
    /\ \A s \in Subscription : inbox[s] = <<>>
    /\ \A p \in Proc : ~Running(p)
    /\ UNCHANGED vars

Next == ScriptStep \/ AtRest \/ \E o \in Addr \cup Route : KernelMoves(o)

Spec == Init /\ [][Next]_vars

-----------------------------------------------------------------------------
(* Properties.                                                             *)

Notification == [op : {"add", "delete"}, obj : Addr \cup Route]
About(s) == IF s = "address" THEN Addr ELSE Route

\* Type correctness.
TypeOK ==
    /\ kernel \subseteq Addr \cup Route /\ moves \in 0..MaxMoves
    /\ inbox \in [Subscription -> Seq(Notification)]
    /\ \A s \in Subscription : \A i \in 1..Len(inbox[s]) : inbox[s][i].obj \in About(s)
    /\ script \in [Proc -> Script \cup {Idle}]
    /\ \A p \in Proc : Running(p) => (Obj(p) \in Addr <=> script[p].at \in AddressLabels)
    /\ tmp \subseteq File
    /\ published \in {"none", "ipv4", "ipv6"}
    /\ mixed \subseteq Proc
    /\ raced \subseteq {"add", "delete"} \X Family

\* What whoever reads /tmp/ipv6_mode takes it for.
ModeAgrees == Mode["ipv6"] \in tmp => published = "ipv6"

\* /tmp/ipv6_mode comes to stand beside a last published mode that is not IPv6 only by a
\* step of an ipmodechange.sh that has run beside one that announces the other mode
\* (subscribers.h:63 lets them).  Nothing else parts the two: no other overlap, and no
\* order in which the tests read the files that ipv6addressChange.sh changes meanwhile.
Ipv6ModeIsPublished ==
    [][ModeAgrees /\ ~ModeAgrees' => \E p \in mixed : script'[p] # script[p]]_vars

\* ipv6addressChange.sh has handled all there is.
Settled == inbox["address"] = <<>> /\ \A p \in Proc : Running(p) => Obj(p) \in Route

Carries(f, addrs) == \E a \in Addr \cap kernel \cap addrs : FamilyOf[a] = f

\* When all is handled, estb_ipv4 and estb_ipv6 are there if there is an address that
\* counts, although the scripts of deletes ask a kernel that is ahead of the
\* notifications, and many may run at once: this needs only that no add was started
\* while the script of a delete of its family was running (its rm may follow the touch).
\* And they are there only if there is an address, but for IPv6 on a box with unique local
\* addresses, whose delete leaves the flag alone: this needs that no address was deleted
\* while the script of its own add was running (its touch may follow the rm).
EstbFollowsAddresses ==
    Settled => \A f \in Family :
        /\ <<"add", f>> \notin raced /\ Carries(f, Addr \ Ignored) => Estb[f] \in tmp
        /\ <<"delete", f>> \notin raced /\ Estb[f] \in tmp =>
              Carries(f, Addr) \/ \E a \in Ignored : FamilyOf[a] = f /\ f = "ipv6"

\* When all is handled, ipv4_global and ipv6_global are there only if a managed interface
\* has an address of the family, whatever runs at once, unless an address was deleted while
\* the script of its own add was running.  (Not if: the delete of one of two removes the
\* file.)
GlobalFlagIsReal ==
    Settled => \A f \in Family :
        <<"delete", f>> \notin raced /\ Global[f] \in tmp =>
            Carries(f, {a \in Addr : IfcOf[a] \in Managed})
=================================================================================
