---------------------------- MODULE CheckDefaultRoute ----------------------------
(***************************************************************************)
(* checkDefaultRoute.sh, the dfltroute subscriber of every configuration.  *)
(* It keeps one line per default gateway in /tmp/.GatewayIP_dfltroute and  *)
(* the flag /tmp/route_available while there is one.  ScriptSubscriber     *)
(* starts it in the background for each message, so several instances run  *)
(* at once and in any order; each command of the script is a step.         *)
(***************************************************************************)
EXTENDS FiniteSets

CONSTANTS Route,         \* default routes nlmon tells of
          Gateway,
          GatewaysOf,    \* GatewaysOf[r]: the gateways route r may have
          Matches,       \* Matches[g]: the gateways whose line the pattern g matches
          Proc,          \* a bound on the scripts that run at once
          Words,         \* words a message may have: 7, or 6 if it does not name
                         \* its interface (NetLinkIfc!DfltMessageNamesInterface)
          CanReplace,    \* whether a route may change its gateway
          CanOverlap,    \* whether the kernel is so quick that a delete's script
                         \* runs together with another one
          NoGateway, NoFile

ASSUME GatewaysAssumption ==
    /\ GatewaysOf \in [Route -> SUBSET Gateway]
    /\ Matches \in [Gateway -> SUBSET Gateway] /\ \A g \in Gateway : g \in Matches[g]
    /\ NoGateway \notin Gateway /\ \A S \in SUBSET Gateway : NoFile # S
ASSUME BoundsAssumption ==
    Words \subseteq {6, 7} /\ CanReplace \in BOOLEAN /\ CanOverlap \in BOOLEAN

VARIABLES route,         \* route[r]: its gateway in the last message, or NoGateway
          script,        \* script[p]: where the script in slot p is
          file,          \* gateways with a line in $FILE, or NoFile
          flag           \* whether /tmp/route_available exists

vars == <<route, script, file, flag>>

Done == [at |-> "done", gw |-> NoGateway, kept |-> {}]
AddSteps == {"test", "touch", "grep", "append"}
DeleteSteps == {"sed", "rename", "size", "rm"}

Lines == IF file = NoFile THEN {} ELSE file

Init ==
    /\ route = [r \in Route |-> NoGateway]
    /\ script = [p \in Proc |-> Done]
    /\ file = NoFile
    /\ flag = FALSE

-----------------------------------------------------------------------------
(* nlmon publishes a message and the shell starts the script.              *)

\* Adds may run together; a delete runs alone unless CanOverlap.
MayStart(first) ==
    \/ CanOverlap
    \/ \A p \in Proc : script[p].at \in {"done"} \cup (IF first = "test" THEN AddSteps ELSE {})

\* The script leaves at once if it has not been given seven words.
Start(first, g) ==
    /\ MayStart(first)
    /\ \E p \in Proc, words \in Words :
          /\ script[p] = Done
          /\ script' = IF words # 7 THEN script
                       ELSE [script EXCEPT ![p] = [at |-> first, gw |-> g, kept |-> {}]]
    /\ UNCHANGED <<file, flag>>

\* A new route, or a change to a route, which is published as an "add" too.
RouteAdded(r) ==
    \E g \in GatewaysOf[r] :
        /\ route[r] \in {NoGateway, g} \/ CanReplace
        /\ route' = [route EXCEPT ![r] = g]
        /\ Start("test", g)

RouteDeleted(r) ==
    /\ route[r] # NoGateway
    /\ route' = [route EXCEPT ![r] = NoGateway]
    /\ Start("sed", route[r])

-----------------------------------------------------------------------------
(* The script's commands, for an add and then for a delete.                *)

Go(p, step) == script' = [script EXCEPT ![p] = IF step = "done" THEN Done ELSE [@ EXCEPT !.at = step]]
At(p, step) == script[p].at = step /\ UNCHANGED route

TestFlag(p) ==
    /\ At(p, "test")
    /\ Go(p, IF flag THEN "grep" ELSE "touch")
    /\ UNCHANGED <<file, flag>>

TouchFlag(p) ==
    /\ At(p, "touch")
    /\ flag' = TRUE
    /\ Go(p, "grep")
    /\ UNCHANGED file

Grep(p) ==
    /\ At(p, "grep")
    /\ Go(p, IF Matches[script[p].gw] \cap Lines # {} THEN "done" ELSE "append")
    /\ UNCHANGED <<file, flag>>

\* Mutant: the word before the gateway, the destination, is appended (NoGateway stands for
\* a word that is no gateway).
AppendLineMutant(p) ==
    /\ At(p, "append")
    /\ file' = Lines \cup {NoGateway}
    /\ Go(p, "done")
    /\ UNCHANGED flag

\* The mode is 2 or 10 in every message of processroute_rtnl.
AppendLine(p) ==
    /\ At(p, "append")
    /\ file' = Lines \cup {script[p].gw}
    /\ Go(p, "done")
    /\ UNCHANGED flag

\* Mutant: the delete empties the file.
SedMutant(p) ==
    /\ At(p, "sed")
    /\ script' = [script EXCEPT ![p] = [@ EXCEPT !.at = "rename", !.kept = {}]]
    /\ UNCHANGED <<file, flag>>

\* sed -i reads the file, writes what it keeps to another one and renames that;
\* it fails if there is no file.
Sed(p) ==
    /\ At(p, "sed")
    /\ script' = [script EXCEPT ![p] =
                     IF file = NoFile THEN [@ EXCEPT !.at = "size"]
                     ELSE [@ EXCEPT !.at = "rename", !.kept = file \ Matches[script[p].gw]]]
    /\ UNCHANGED <<file, flag>>

Rename(p) ==
    /\ At(p, "rename")
    /\ file' = script[p].kept
    /\ Go(p, "size")
    /\ UNCHANGED flag

\* Mutant: the test is whether the file exists.
TestSizeMutant(p) ==
    /\ At(p, "size")
    /\ Go(p, IF file # NoFile THEN "done" ELSE "rm")
    /\ UNCHANGED <<file, flag>>

TestSize(p) ==
    /\ At(p, "size")
    /\ Go(p, IF Lines # {} THEN "done" ELSE "rm")
    /\ UNCHANGED <<file, flag>>

RemoveFlag(p) ==
    /\ At(p, "rm")
    /\ flag' = FALSE
    /\ Go(p, "done")
    /\ UNCHANGED file

ScriptStep(p) ==
    \/ TestFlag(p) \/ TouchFlag(p) \/ Grep(p) \/ AppendLine(p)
    \/ Sed(p) \/ Rename(p) \/ TestSize(p) \/ RemoveFlag(p)

Next ==
    \/ \E r \in Route : RouteAdded(r) \/ RouteDeleted(r)
    \/ \E p \in Proc : ScriptStep(p)

Spec == Init /\ [][Next]_vars

-----------------------------------------------------------------------------
(* Properties.                                                             *)

\* Type correctness.
TypeOK ==
    /\ route \in [Route -> Gateway \cup {NoGateway}]
    /\ script \in [Proc -> {Done} \cup [at : AddSteps \cup DeleteSteps,
                                        gw : Gateway, kept : SUBSET Gateway]]
    /\ file \in {NoFile} \cup SUBSET Gateway
    /\ flag \in BOOLEAN

\* No script is running.
Quiet == \A p \in Proc : script[p] = Done

\* When no script is running the flag and the file agree: the flag
\* exists if and only if the file has a line (checkDefaultRoute.sh:42-44 and :66).
FlagMatchesFile == Quiet => (flag <=> Lines # {})

\* "Check and create the route flag" (checkDefaultRoute.sh:38): while there is a
\* default route and no script is running, the flag exists.
RouteHasFlag == Quiet /\ (\E r \in Route : route[r] # NoGateway) => flag

\* "Add Default route IP to the ... file" (checkDefaultRoute.sh:50): when
\* no script is running, the gateway of each default route has its line.
GatewayHasLine == Quiet => \A r \in Route : route[r] # NoGateway => route[r] \in Lines

\* "Remove flag and IP for delete operation" (checkDefaultRoute.sh:63): once the
\* last default route is deleted, neither the flag nor a line is left.
NoRouteNoTrace == Quiet /\ (\A r \in Route : route[r] = NoGateway) => ~flag /\ Lines = {}
=================================================================================
