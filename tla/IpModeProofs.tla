------------------------------- MODULE IpModeProofs -------------------------------
(* Theorems about IpMode, for any addresses, routes and backlogs, and any  *)
(* number of scripts at once.                                              *)
EXTENDS IpMode, SequenceTheorems, TLAPS

-----------------------------------------------------------------------------
(* Type correctness.                                                       *)

LEMMA Families ==
    /\ \A o \in Addr \cup Route : FamilyOf[o] \in Family
    /\ \A f \in Family : Estb[f] \in File /\ Global[f] \in File /\ RouteFlag[f] \in File /\ Mode[f] \in File
    /\ Family = {"ipv4", "ipv6"}
  BY IpModeAssumption DEF Family, File

LEMMA LabelsDiffer == AddressLabels \cap RouteLabels = {} /\ Labels = AddressLabels \cup RouteLabels
  BY DEF AddressLabels, RouteLabels, Labels

\* A running script belongs to one of the two subscriptions.
LEMMA ScriptFacts ==
    ASSUME TypeOK, NEW p \in Proc, Running(p)
    PROVE  /\ script[p] \in Script /\ Fam(p) \in Family /\ Fam(p) = FamilyOf[Obj(p)]
           /\ Obj(p) \in Addr \cup Route /\ script[p].op \in {"add", "delete"}
           /\ script[p].todo \in SUBSET Ifc
           /\ Obj(p) \in Addr <=> script[p].at \in AddressLabels
           /\ Obj(p) \in Route <=> script[p].at \in RouteLabels
  <1>1. script[p] \in Script
    BY DEF TypeOK, Running
  <1>2. Obj(p) \in Addr \cup Route /\ script[p].at \in Labels
    BY <1>1 DEF Script, Obj
  <1>3. Obj(p) \in Addr <=> script[p].at \in AddressLabels
    BY DEF TypeOK
  <1> QED BY <1>1, <1>2, <1>3, Families, LabelsDiffer, IpModeAssumption DEF Script, Fam, Obj

\* A command that goes on, perhaps with less to look at, or ends its script.
Onward(p, label, T) == script' = [script EXCEPT ![p] = [script[p] EXCEPT !.at = label, !.todo = T]]

LEMMA OnwardFacts ==
    ASSUME TypeOK, NEW p \in Proc, Running(p), NEW label \in Labels, NEW T \in SUBSET Ifc,
           label \in AddressLabels <=> Obj(p) \in Addr, Onward(p, label, T)
    PROVE  /\ script' \in [Proc -> Script \cup {Idle}]
           /\ \A q \in Proc \ {p} : script'[q] = script[q]
           /\ Running(p)' /\ script'[p].at = label /\ script'[p].todo = T
           /\ script'[p].op = script[p].op /\ Obj(p)' = Obj(p) /\ Fam(p)' = Fam(p)
  <1>1. script[p] \in Script
    BY ScriptFacts
  <1>2. script'[p] = [script[p] EXCEPT !.at = label, !.todo = T] /\ \A q \in Proc \ {p} : script'[q] = script[q]
    BY DEF Onward, TypeOK
  <1>3. script'[p] \in Script
    BY <1>1, <1>2 DEF Script
  <1>4. /\ script'[p].at = label /\ script'[p].todo = T
        /\ script'[p].op = script[p].op /\ script'[p].obj = script[p].obj
    BY <1>1, <1>2 DEF Script
  <1>5. script' \in [Proc -> Script \cup {Idle}]
    <2> HIDE DEF Script
    <2>1. [script[p] EXCEPT !.at = label, !.todo = T] \in Script
      BY <1>2, <1>3
    <2> QED BY <2>1 DEF Onward, TypeOK
  <1>6. Running(p)'
    BY <1>3, IdleAssumption DEF Running
  <1> QED BY <1>2, <1>4, <1>5, <1>6 DEF Obj, Fam

LEMMA GotoOnward ==
    ASSUME TypeOK, NEW p \in Proc, Running(p), NEW label, Goto(p, label)
    PROVE  Onward(p, label, script[p].todo) /\ UNCHANGED history
  <1>1. script[p] \in Script
    BY ScriptFacts
  <1>2. [script[p] EXCEPT !.at = label, !.todo = script[p].todo] = [script[p] EXCEPT !.at = label]
    BY <1>1 DEF Script
  <1> QED BY <1>2 DEF Goto, Onward, TypeOK

LEMMA ExitFacts ==
    ASSUME TypeOK, NEW p \in Proc, Exit(p)
    PROVE  /\ script' \in [Proc -> Script \cup {Idle}]
           /\ script'[p] = Idle /\ ~Running(p)' /\ \A q \in Proc \ {p} : script'[q] = script[q]
           /\ mixed' = mixed \ {p} /\ UNCHANGED raced
  BY DEF Exit, TypeOK, Running

\* What a command of the script of p does next, among the labels of its script.
Moves(p, labels) ==
    /\ Running(p)
    /\ Exit(p) \/ \E label \in labels, T \in SUBSET Ifc : Onward(p, label, T) /\ UNCHANGED history

\* What a command does to the files and to the mode.
Effect ==
    /\ UNCHANGED <<kernel, moves, inbox>>
    /\ \/ tmp' = tmp \/ (\E f \in File : tmp' = tmp \cup {f} \/ tmp' = tmp \ {f})
    /\ published' \in {published, "ipv4", "ipv6"}

LEMMA GotoMoves ==
    ASSUME TypeOK, NEW p \in Proc, Running(p), NEW labels, NEW label \in labels, Goto(p, label)
    PROVE  Moves(p, labels)
  <1>1. script[p].todo \in SUBSET Ifc
    BY ScriptFacts
  <1> QED BY <1>1, GotoOnward DEF Moves

LEMMA AddressScriptSteps ==
    ASSUME TypeOK, NEW p \in Proc, AddressScript(p)
    PROVE  Moves(p, AddressLabels) /\ Effect /\ Obj(p) \in Addr
  <1>1. Running(p) /\ script[p].at \in AddressLabels
    BY DEF AddressScript, TouchEstb, TouchGlobal, Look, RemoveEstb, SkipLook, RemoveGlobal, At, AddressLabels
  <1>2. /\ Obj(p) \in Addr /\ Estb[Fam(p)] \in File /\ Global[Fam(p)] \in File
        /\ script[p].todo \in SUBSET Ifc
    BY <1>1, ScriptFacts, Families
  <1>3. Effect
    BY <1>2 DEF AddressScript, TouchEstb, TouchGlobal, Look, RemoveEstb, SkipLook, RemoveGlobal,
                Effect, Test, Touch, Remove
  <1>4. Exit(p) => Moves(p, AddressLabels)
    BY <1>1 DEF Moves
  <1>5. ASSUME NEW label \in AddressLabels, Goto(p, label) PROVE Moves(p, AddressLabels)
    BY <1>1, <1>5, GotoMoves
  <1>6. "touch global" \in AddressLabels /\ "rm global" \in AddressLabels
    BY DEF AddressLabels
  <1>7. ASSUME NEW i \in Ifc, Look(p, i) PROVE Moves(p, AddressLabels)
    <2>1. CASE script' = [script EXCEPT ![p].todo = @ \ {i}] /\ UNCHANGED history
      <3>1. script[p] \in Script /\ script[p].at \in AddressLabels
        BY <1>1, ScriptFacts
      <3>2. [script[p] EXCEPT !.at = script[p].at, !.todo = script[p].todo \ {i}]
                = [script[p] EXCEPT !.todo = script[p].todo \ {i}]
        BY <3>1 DEF Script
      <3>3. Onward(p, script[p].at, script[p].todo \ {i})
        BY <2>1, <3>2 DEF Onward, TypeOK
      <3>4. script[p].todo \ {i} \in SUBSET Ifc
        BY <1>2
      <3> QED BY <1>1, <2>1, <3>1, <3>3, <3>4 DEF Moves
    <2> QED BY <1>5, <1>6, <1>7, <2>1 DEF Look
  <1> QED BY <1>2, <1>3, <1>4, <1>5, <1>6, <1>7
          DEF AddressScript, TouchEstb, TouchGlobal, RemoveEstb, SkipLook, RemoveGlobal

LEMMA RouteScriptSteps ==
    ASSUME TypeOK, NEW p \in Proc, RouteScript(p)
    PROVE  Moves(p, RouteLabels) /\ UNCHANGED <<kernel, moves, inbox>> /\ Obj(p) \in Route
  <1>1. Running(p) /\ script[p].at \in RouteLabels
    BY DEF RouteScript, TouchRoute, TestModes, TestIpv4Mode, TestGlobal, PublishMode, TouchMode, RemoveRoute,
           RemoveMode, TestIpv4Route, RemoveIpv4Route, At, RouteLabels
  <1>2. Obj(p) \in Route
    BY <1>1, ScriptFacts
  <1>3. UNCHANGED <<kernel, moves, inbox>>
    BY DEF RouteScript, TouchRoute, TestModes, TestIpv4Mode, TestGlobal, PublishMode, TouchMode, RemoveRoute,
           RemoveMode, TestIpv4Route, RemoveIpv4Route, Test, Touch, Remove, Publish
  <1>4. Exit(p) \/ \E label \in RouteLabels : Goto(p, label)
    BY DEF RouteScript, TouchRoute, TestModes, TestIpv4Mode, TestGlobal, PublishMode, TouchMode, RemoveRoute,
           RemoveMode, TestIpv4Route, RemoveIpv4Route, RouteLabels
  <1> QED BY <1>1, <1>2, <1>3, <1>4, GotoMoves DEF Moves

\* The delete of an IPv4 route announces nothing.
Flow(p) ==
    /\ script[p].at \in {"touch route", "test modes", "test ipv4_mode"} => script[p].op = "add"
    /\ script[p].at \in {"test modes", "test ipv4_mode"} => Fam(p) = "ipv4"
    /\ script[p].at \in {"rm route", "rm mode", "test ipv4_route", "rm ipv4_route"} => script[p].op = "delete"
    /\ script[p].at = "test ipv4_route" => Fam(p) = "ipv6"
    /\ script[p].at \in {"publish", "touch mode"} => script[p].op = "add" \/ Fam(p) = "ipv6"

FlowInv == \A p \in Proc : Running(p) /\ Obj(p) \in Route => Flow(p)

LEMMA AnnouncedModes ==
    ASSUME TypeOK, NEW p \in Proc, Running(p)
    PROVE  /\ Announced(p) \in {"ipv4", "ipv6", "none"}
           /\ script[p].op = "add" => Announced(p) = Fam(p)
           /\ script[p].op = "delete" => Announced(p) = (IF Fam(p) = "ipv6" THEN "ipv4" ELSE "none")
           /\ script[p].op = "add" \/ Fam(p) = "ipv6" => Announced(p) \in Family
  BY ScriptFacts DEF Announced, Announces, Family

LEMMA RouteEffect ==
    ASSUME TypeOK, FlowInv, NEW p \in Proc, RouteScript(p)
    PROVE  Effect
  <1>1. Running(p) /\ Obj(p) \in Route /\ UNCHANGED <<kernel, moves, inbox>>
    BY RouteScriptSteps DEF Moves
  <1>2. Flow(p) /\ Fam(p) \in Family
    BY <1>1, ScriptFacts DEF FlowInv
  <1>3. script[p].at \in {"publish", "touch mode"} => Announced(p) \in {"ipv4", "ipv6"}
    BY <1>1, <1>2, AnnouncedModes, Families DEF Flow
  <1>4. /\ Mode["ipv4"] \in File /\ Mode["ipv6"] \in File
        /\ RouteFlag["ipv4"] \in File /\ RouteFlag["ipv6"] \in File
    BY Families
  <1>5. published' \in {published, "ipv4", "ipv6"}
    BY <1>3 DEF RouteScript, TouchRoute, TestModes, TestIpv4Mode, TestGlobal, PublishMode, TouchMode, RemoveRoute,
               RemoveMode, TestIpv4Route, RemoveIpv4Route, At, Test, Touch, Remove, Publish
  <1>6. tmp' = tmp \/ \E f \in File : tmp' = tmp \cup {f} \/ tmp' = tmp \ {f}
    BY <1>2, <1>3, <1>4, Families
       DEF RouteScript, TouchRoute, TestModes, TestIpv4Mode, TestGlobal, PublishMode, TouchMode, RemoveRoute,
           RemoveMode, TestIpv4Route, RemoveIpv4Route, At, Test, Touch, Remove, Publish
  <1> QED BY <1>1, <1>5, <1>6 DEF Effect

LEMMA FlowStep == ASSUME TypeOK, FlowInv, NEW p \in Proc, RouteScript(p) PROVE FlowInv'
  <1>1. Running(p) /\ Obj(p) \in Route /\ Moves(p, RouteLabels)
    BY RouteScriptSteps DEF Moves
  <1>2. Flow(p) /\ Fam(p) \in {"ipv4", "ipv6"} /\ script[p].op \in {"add", "delete"}
    BY <1>1, ScriptFacts DEF FlowInv, Family
  <1>3. \A q \in Proc \ {p} : script'[q] = script[q]
    <2>1. ASSUME NEW label \in RouteLabels, NEW T \in SUBSET Ifc, Onward(p, label, T)
          PROVE  \A q \in Proc \ {p} : script'[q] = script[q]
      BY <2>1 DEF Onward, TypeOK
    <2> QED BY <1>1, <2>1, ExitFacts DEF Moves
  <1>4. ASSUME Exit(p) PROVE FlowInv'
    BY <1>3, <1>4, ExitFacts DEF FlowInv, Flow, Running, Obj, Fam
  <1>5. ASSUME NEW label \in RouteLabels, Goto(p, label),
               /\ label \in {"touch route", "test modes", "test ipv4_mode"} => script[p].op = "add"
               /\ label \in {"test modes", "test ipv4_mode"} => Fam(p) = "ipv4"
               /\ label \in {"rm route", "rm mode", "test ipv4_route", "rm ipv4_route"} => script[p].op = "delete"
               /\ label = "test ipv4_route" => Fam(p) = "ipv6"
               /\ label \in {"publish", "touch mode"} => script[p].op = "add" \/ Fam(p) = "ipv6"
        PROVE  FlowInv'
    <2>1. Onward(p, label, script[p].todo) /\ script[p].todo \in SUBSET Ifc
      BY <1>1, <1>5, GotoOnward, ScriptFacts
    <2>2. label \in Labels /\ (label \in AddressLabels <=> Obj(p) \in Addr)
      BY <1>1, LabelsDiffer, IpModeAssumption
    <2>3. script'[p].at = label /\ script'[p].op = script[p].op /\ Fam(p)' = Fam(p)
      BY <1>1, <2>1, <2>2, OnwardFacts
    <2>4. Flow(p)'
      BY <1>5, <2>3 DEF Flow
    <2> QED BY <1>3, <2>4 DEF FlowInv, Flow, Running, Obj, Fam
  <1>6. /\ "test modes" \in RouteLabels /\ "test global" \in RouteLabels /\ "test ipv4_mode" \in RouteLabels
        /\ "publish" \in RouteLabels /\ "touch mode" \in RouteLabels /\ "rm mode" \in RouteLabels
        /\ "rm ipv4_route" \in RouteLabels /\ "test ipv4_route" \in RouteLabels
    BY DEF RouteLabels
  <1>7. CASE TouchRoute(p)
    BY <1>2, <1>5, <1>6, <1>7 DEF TouchRoute, At, Flow
  <1>8. CASE TestModes(p) \/ TestIpv4Mode(p)
    BY <1>2, <1>4, <1>5, <1>6, <1>8 DEF TestModes, TestIpv4Mode, At, Flow
  <1>9. CASE TestGlobal(p)
    BY <1>2, <1>4, <1>5, <1>6, <1>9 DEF TestGlobal, At, Flow
  <1>10. CASE PublishMode(p)
    BY <1>2, <1>5, <1>6, <1>10 DEF PublishMode, At, Flow
  <1>11. CASE TouchMode(p) \/ RemoveIpv4Route(p)
    BY <1>4, <1>11 DEF TouchMode, RemoveIpv4Route
  <1>12. CASE RemoveRoute(p)
    BY <1>5, <1>6, <1>12 DEF RemoveRoute
  <1>13. CASE RemoveMode(p)
    BY <1>2, <1>5, <1>6, <1>13 DEF RemoveMode, At, Flow
  <1>14. CASE TestIpv4Route(p)
    BY <1>2, <1>4, <1>5, <1>6, <1>14 DEF TestIpv4Route, At, Flow
  <1> QED BY <1>7, <1>8, <1>9, <1>10, <1>11, <1>12, <1>13, <1>14 DEF RouteScript

\* What is so when nlmon starts a script for msg.
StartsFor(s, p, msg) ==
    /\ msg = Head(inbox[s]) /\ msg.obj \in About(s) /\ FamilyOf[msg.obj] \in Family
    /\ script[p] = Idle /\ \A q \in Proc \ {p} : script'[q] = script[q]
    /\ script'[p] = [op |-> msg.op, obj |-> msg.obj, todo |-> Ifc, at |-> First[s][msg.op]]
    /\ script'[p] \in Script /\ First[s][msg.op] \in Labels
    /\ Running(p)' /\ Obj(p)' = msg.obj /\ Fam(p)' = FamilyOf[msg.obj]
    /\ script' \in [Proc -> Script \cup {Idle}]
    /\ mixed' = IF s = "dfltroute" /\ Opposed(msg) # {}
                THEN mixed \cup Opposed(msg) \cup {p} ELSE mixed
    /\ raced' = IF s = "address" THEN raced \cup Races(msg) ELSE raced
    /\ UNCHANGED <<kernel, moves, tmp, published>>

LEMMA StartFacts ==
    ASSUME TypeOK, NEW s \in Subscription, NEW p \in Proc, Start(s, p)
    PROVE  Head(inbox[s]) \in Notification /\ StartsFor(s, p, Head(inbox[s]))
  <1> DEFINE msg == Head(inbox[s])
  <1>1. inbox[s] \in Seq(Notification) /\ inbox[s] # <<>> /\ Len(inbox[s]) \in Nat
    BY LenProperties DEF TypeOK, Start
  <1>2. msg \in Notification /\ 1 \in 1..Len(inbox[s]) /\ inbox[s][1] = msg
    BY <1>1, HeadTailProperties
  <1>3. msg.obj \in About(s)
    BY <1>2 DEF TypeOK
  <1>4. msg.op \in {"add", "delete"} /\ msg.obj \in Addr \cup Route /\ FamilyOf[msg.obj] \in Family
    BY <1>2, Families DEF Notification
  <1>5. script'[p] = [op |-> msg.op, obj |-> msg.obj, todo |-> Ifc, at |-> First[s][msg.op]]
    BY DEF Start, TypeOK
  <1> HIDE DEF msg
  <1>6. First[s][msg.op] \in Labels
    <2>1. /\ First["address"]["add"] = "touch estb" /\ First["address"]["delete"] = "look"
          /\ First["dfltroute"]["add"] = "touch route" /\ First["dfltroute"]["delete"] = "rm route"
      BY DEF First
    <2>2. \A op \in {"add", "delete"} : First["address"][op] \in Labels /\ First["dfltroute"][op] \in Labels
      BY <2>1 DEF Labels, AddressLabels, RouteLabels
    <2> QED BY <1>4, <2>2 DEF Subscription
  <1>7. script'[p] \in Script
    BY <1>4, <1>5, <1>6 DEF Script
  <1>8. Running(p)' /\ Obj(p)' = msg.obj /\ Fam(p)' = FamilyOf[msg.obj]
    BY <1>5, <1>7, IdleAssumption DEF Running, Obj, Fam
  <1>9. /\ script' = [script EXCEPT ![p] = script'[p]]
        /\ script[p] = Idle /\ UNCHANGED <<kernel, moves, tmp, published>>
        /\ mixed' = IF s = "dfltroute" /\ Opposed(msg) # {}
                    THEN mixed \cup Opposed(msg) \cup {p} ELSE mixed
        /\ raced' = IF s = "address" THEN raced \cup Races(msg) ELSE raced
    BY <1>5 DEF Start, TypeOK, msg
  <1>10. script' \in [Proc -> Script \cup {Idle}] /\ \A q \in Proc \ {p} : script'[q] = script[q]
    <2> HIDE DEF Script
    <2> QED BY <1>7, <1>9 DEF TypeOK
  <1>11. StartsFor(s, p, msg)
    BY <1>2, <1>3, <1>4, <1>5, <1>6, <1>7, <1>8, <1>9, <1>10 DEF msg, StartsFor
  <1> QED BY <1>2, <1>11 DEF msg

LEMMA StartType ==
    ASSUME TypeOK, NEW s \in Subscription, NEW p \in Proc, Start(s, p) PROVE TypeOK'
  <1>1. PICK msg \in Notification : StartsFor(s, p, msg)
    BY StartFacts
  <1>2. inbox[s] \in Seq(Notification) /\ inbox[s] # <<>> /\ Len(inbox[s]) \in Nat
    BY LenProperties DEF TypeOK, Start
  <1>3. /\ Tail(inbox[s]) \in Seq(Notification) /\ Len(Tail(inbox[s])) = Len(inbox[s]) - 1
        /\ \A i \in 1..Len(Tail(inbox[s])) : Tail(inbox[s])[i] = inbox[s][i + 1]
    BY <1>2, HeadTailProperties
  <1>4. inbox' = [inbox EXCEPT ![s] = Tail(inbox[s])]
    BY DEF Start, TypeOK
  <1>5. inbox' \in [Subscription -> Seq(Notification)]
    BY <1>3, <1>4 DEF TypeOK
  <1>6. ASSUME NEW u \in Subscription, NEW i \in 1..Len(inbox'[u]) PROVE inbox'[u][i].obj \in About(u)
    <2>1. CASE u = s
      <3>1. inbox'[u] = Tail(inbox[s])
        BY <1>4, <2>1 DEF TypeOK
      <3>2. i + 1 \in 1..Len(inbox[s]) /\ inbox'[u][i] = inbox[s][i + 1]
        BY <1>2, <1>3, <3>1
      <3> QED BY <2>1, <3>2 DEF TypeOK
    <2>2. CASE u # s
      BY <1>4, <2>2 DEF TypeOK
    <2> QED BY <2>1, <2>2
  <1>7. ASSUME NEW q \in Proc, Running(q)' PROVE Obj(q)' \in Addr <=> script'[q].at \in AddressLabels
    <2>1. CASE q = p
      <3>1. /\ First["address"]["add"] = "touch estb" /\ First["address"]["delete"] = "look"
            /\ First["dfltroute"]["add"] = "touch route" /\ First["dfltroute"]["delete"] = "rm route"
        BY DEF First
      <3>2. \A op \in {"add", "delete"} :
                First["address"][op] \in AddressLabels /\ First["dfltroute"][op] \notin AddressLabels
        BY <3>1 DEF AddressLabels
      <3>3. msg.op \in {"add", "delete"}
        BY DEF Notification
      <3>4. script'[p].at = First[s][msg.op]
        BY <1>1 DEF StartsFor
      <3> QED BY <1>1, <2>1, <3>2, <3>3, <3>4, IpModeAssumption DEF StartsFor, About, Subscription
    <2>2. CASE q # p
      <3>1. script'[q] = script[q]
        BY <1>1, <2>2 DEF StartsFor
      <3> QED BY <1>7, <3>1 DEF Running, Obj, TypeOK
    <2> QED BY <2>1, <2>2
  <1>8. mixed' \subseteq Proc /\ raced' \subseteq {"add", "delete"} \X Family
    <2>1. Opposed(msg) \subseteq Proc /\ Races(msg) \subseteq {"add", "delete"} \X Family
      BY <1>1 DEF StartsFor, Opposed, Races, Notification
    <2> QED BY <1>1, <2>1 DEF StartsFor, TypeOK
  <1> QED BY <1>1, <1>5, <1>6, <1>7, <1>8 DEF StartsFor, TypeOK

LEMMA KernelType == ASSUME TypeOK, NEW o \in Addr \cup Route, KernelMoves(o) PROVE TypeOK'
  <1> DEFINE s == IF o \in Addr THEN "address" ELSE "dfltroute"
             msg == [op |-> IF o \in kernel THEN "delete" ELSE "add", obj |-> o]
  <1>1. msg \in Notification /\ s \in Subscription /\ msg.obj \in About(s)
    BY DEF Notification, Subscription, About
  <1>2. inbox' = [inbox EXCEPT ![s] = Append(@, msg)]
    BY DEF KernelMoves
  <1> HIDE DEF s, msg
  <1>3. inbox' \in [Subscription -> Seq(Notification)]
    BY <1>1, <1>2 DEF TypeOK
  <1>4. ASSUME NEW u \in Subscription, NEW i \in 1..Len(inbox'[u]) PROVE inbox'[u][i].obj \in About(u)
    <2>1. CASE u = s
      <3>1. inbox[s] \in Seq(Notification) /\ Len(inbox[s]) \in Nat
        BY <1>1, LenProperties DEF TypeOK
      <3>2. inbox'[u] = Append(inbox[s], msg)
        BY <1>1, <1>2, <2>1 DEF TypeOK
      <3>3. /\ Len(inbox'[u]) = Len(inbox[s]) + 1 /\ inbox'[u][Len(inbox[s]) + 1] = msg
            /\ \A j \in 1..Len(inbox[s]) : inbox'[u][j] = inbox[s][j]
        BY <1>1, <3>1, <3>2, AppendProperties
      <3>4. i \in 1..Len(inbox[s]) \/ i = Len(inbox[s]) + 1
        BY <3>1, <3>3
      <3> QED BY <1>1, <2>1, <3>3, <3>4 DEF TypeOK
    <2>2. CASE u # s
      BY <1>2, <1>4, <2>2 DEF TypeOK
    <2> QED BY <2>1, <2>2
  <1>5. moves' \in 0..MaxMoves /\ kernel' \subseteq Addr \cup Route
    BY IpModeAssumption DEF KernelMoves, TypeOK
  <1> QED BY <1>3, <1>4, <1>5 DEF KernelMoves, TypeOK, history, Running, Obj

LEMMA MovesType ==
    ASSUME TypeOK, NEW p \in Proc, NEW labels \in SUBSET Labels, Moves(p, labels), Effect,
           \A label \in labels : label \in AddressLabels <=> Obj(p) \in Addr
    PROVE  TypeOK'
  <1>1. Running(p)
    BY DEF Moves
  <1>2. ASSUME Exit(p) PROVE TypeOK'
    <2>1. \A q \in Proc : Running(q)' => Running(q) /\ script'[q] = script[q]
      BY <1>2, ExitFacts DEF Running
    <2> QED BY <1>2, <2>1, ExitFacts DEF TypeOK, Effect, Obj
  <1>3. ASSUME NEW label \in labels, NEW T \in SUBSET Ifc, Onward(p, label, T), UNCHANGED history
        PROVE  TypeOK'
    <2>1. /\ script' \in [Proc -> Script \cup {Idle}]
          /\ \A q \in Proc \ {p} : script'[q] = script[q]
          /\ Running(p)' /\ script'[p].at = label /\ Obj(p)' = Obj(p)
      BY <1>1, <1>3, OnwardFacts
    <2>2. ASSUME NEW q \in Proc, Running(q)' PROVE Obj(q)' \in Addr <=> script'[q].at \in AddressLabels
      <3>1. CASE q = p
        BY <2>1, <3>1
      <3>2. CASE q # p
        BY <2>1, <2>2, <3>2 DEF Running, Obj, TypeOK
      <3> QED BY <3>1, <3>2
    <2> QED BY <1>3, <2>1, <2>2 DEF TypeOK, Effect, history
  <1> QED BY <1>2, <1>3 DEF Moves

LEMMA TypeStep == TypeOK /\ FlowInv /\ [Next]_vars => TypeOK' /\ FlowInv'
  <1> SUFFICES ASSUME TypeOK, FlowInv, [Next]_vars PROVE TypeOK' /\ FlowInv'
    OBVIOUS
  <1>s. ASSUME UNCHANGED script PROVE FlowInv'
    BY <1>s DEF FlowInv, Flow, Running, Obj, Fam
  <1>1. ASSUME NEW p \in Proc, AddressScript(p) PROVE TypeOK' /\ FlowInv'
    <2>1. Moves(p, AddressLabels) /\ Effect /\ Obj(p) \in Addr /\ Running(p)
      BY <1>1, AddressScriptSteps DEF Moves
    <2>2. TypeOK'
      BY <2>1, MovesType, LabelsDiffer
    <2>3. \A q \in Proc \ {p} : script'[q] = script[q]
      BY <2>1, ExitFacts DEF Moves, Onward, TypeOK
    <2>4. Running(p)' => Obj(p)' \in Addr
      <3>1. ASSUME NEW label \in AddressLabels, NEW T \in SUBSET Ifc, Onward(p, label, T) PROVE Obj(p)' = Obj(p)
        BY <2>1, <3>1, OnwardFacts, LabelsDiffer
      <3> QED BY <2>1, <3>1, ExitFacts DEF Moves
    <2> QED BY <2>2, <2>3, <2>4, IpModeAssumption DEF FlowInv, Flow, Running, Obj, Fam
  <1>2. ASSUME NEW p \in Proc, RouteScript(p) PROVE TypeOK' /\ FlowInv'
    <2>1. Moves(p, RouteLabels) /\ Effect /\ Obj(p) \in Route
      BY <1>2, RouteScriptSteps, RouteEffect
    <2>2. \A label \in RouteLabels : label \in AddressLabels <=> Obj(p) \in Addr
      BY <2>1, LabelsDiffer, IpModeAssumption
    <2>3. TypeOK'
      BY <2>1, <2>2, MovesType, LabelsDiffer
    <2> QED BY <1>2, <2>3, FlowStep
  <1>3. ASSUME NEW s \in Subscription, NEW p \in Proc, Start(s, p) PROVE TypeOK' /\ FlowInv'
    <2>1. PICK msg \in Notification : StartsFor(s, p, msg)
      BY <1>3, StartFacts
    <2>2. Obj(p)' \in Route => Flow(p)'
      <3>1. First["dfltroute"]["add"] = "touch route" /\ First["dfltroute"]["delete"] = "rm route"
        BY DEF First
      <3>2. msg.op \in {"add", "delete"}
        BY DEF Notification
      <3>3. script'[p].op = msg.op /\ script'[p].at = First[s][msg.op]
        BY <2>1 DEF StartsFor
      <3>4. Obj(p)' \in Route => s = "dfltroute"
        BY <2>1, IpModeAssumption DEF StartsFor, About, Subscription
      <3> QED BY <3>1, <3>2, <3>3, <3>4 DEF Flow
    <2>3. FlowInv'
      <3>1. \A q \in Proc \ {p} : script'[q] = script[q]
        BY <2>1 DEF StartsFor
      <3> QED BY <2>2, <3>1 DEF FlowInv, Flow, Running, Obj, Fam
    <2> QED BY <1>3, <2>3, StartType
  <1>4. ASSUME NEW o \in Addr \cup Route, KernelMoves(o) PROVE TypeOK' /\ FlowInv'
    BY <1>4, <1>s, KernelType DEF KernelMoves
  <1>5. CASE UNCHANGED vars \/ AtRest
    BY <1>5, <1>s DEF vars, history, TypeOK, AtRest, Running, Obj
  <1> QED BY <1>1, <1>2, <1>3, <1>4, <1>5 DEF Next, ScriptStep

LEMMA TypeInit == Init => TypeOK /\ FlowInv
  <1> SUFFICES ASSUME Init PROVE TypeOK /\ FlowInv
    OBVIOUS
  <1>1. \A p \in Proc : ~Running(p)
    BY DEF Init, Running
  <1>2. moves \in 0..MaxMoves
    BY IpModeAssumption DEF Init
  <1>3. inbox \in [Subscription -> Seq(Notification)] /\ \A s \in Subscription : Len(inbox[s]) = 0
    BY DEF Init
  <1> QED BY <1>1, <1>2, <1>3 DEF Init, TypeOK, FlowInv

\* Every script keeps to its labels, files and modes, however many run at once.
THEOREM TypeCorrect == Spec => []TypeOK
  BY TypeInit, TypeStep, PTL DEF Spec


-----------------------------------------------------------------------------
(* The mode that is published.                                             *)

Ipv6Shown == Mode["ipv6"] \in tmp
RouteRuns(p) == Running(p) /\ Obj(p) \in Route
Clash(p, q) == {Announced(p), Announced(q)} = {"ipv4", "ipv6"}

\* Where a script is after it has found ipv6_mode gone, or has removed it.
PastTests(p) ==
    \/ script[p].at \in {"test ipv4_mode", "test ipv4_route", "publish", "touch mode"}
    \/ script[p].at = "test global" /\ script[p].op = "add"

Line(p) ==
    /\ Announced(p) = "ipv4" /\ PastTests(p) => ~Ipv6Shown
    /\ Announced(p) = "ipv6" /\ script[p].at = "touch mode" => published = "ipv6"

\* A script that has run beside none that announces the other mode finds the files and the
\* mode as it has seen them or left them.
ModeInv ==
    \A p \in Proc \ mixed : RouteRuns(p) =>
        Line(p) /\ \A q \in Proc : RouteRuns(q) => ~Clash(p, q)

LEMMA RouteGoes ==
    ASSUME TypeOK, NEW p \in Proc, RouteScript(p)
    PROVE  /\ RouteRuns(p) /\ script[p].op \in {"add", "delete"} /\ Fam(p) \in {"ipv4", "ipv6"}
           /\ \A q \in Proc \ {p} : script'[q] = script[q]
           /\ \/ Exit(p) /\ ~Running(p)'
              \/ /\ Running(p)' /\ UNCHANGED mixed /\ Obj(p)' = Obj(p)
                 /\ script'[p].op = script[p].op /\ Announced(p)' = Announced(p)
           /\ \A label \in Labels : Goto(p, label) => Running(p)' /\ script'[p].at = label
  <1>1. Moves(p, RouteLabels) /\ RouteRuns(p)
    BY RouteScriptSteps DEF Moves, RouteRuns
  <1>2. script[p].op \in {"add", "delete"} /\ Fam(p) \in {"ipv4", "ipv6"} /\ script[p].todo \in SUBSET Ifc
    BY <1>1, ScriptFacts DEF RouteRuns, Family
  <1>3. \A label \in RouteLabels : label \in Labels /\ (label \in AddressLabels <=> Obj(p) \in Addr)
    BY <1>1, LabelsDiffer, IpModeAssumption DEF RouteRuns
  <1>4. ASSUME NEW label \in RouteLabels, NEW T \in SUBSET Ifc, Onward(p, label, T)
        PROVE  /\ Running(p)' /\ Obj(p)' = Obj(p) /\ script'[p].at = label
               /\ script'[p].op = script[p].op /\ Announced(p)' = Announced(p)
               /\ \A q \in Proc \ {p} : script'[q] = script[q]
    <2>1. /\ Running(p)' /\ Obj(p)' = Obj(p) /\ Fam(p)' = Fam(p) /\ script'[p].at = label
          /\ script'[p].op = script[p].op /\ \A q \in Proc \ {p} : script'[q] = script[q]
      BY <1>1, <1>3, <1>4, OnwardFacts DEF RouteRuns
    <2> QED BY <2>1 DEF Announced
  <1>5. ASSUME NEW label \in Labels, Goto(p, label) PROVE Running(p)' /\ script'[p].at = label
    <2>1. script[p] \in Script
      BY <1>1, ScriptFacts DEF RouteRuns
    <2>2. script'[p] = [script[p] EXCEPT !.at = label]
      BY <1>5 DEF Goto, TypeOK
    <2>3. script'[p] \in Script /\ script'[p].at = label
      BY <2>1, <2>2 DEF Script
    <2> QED BY <2>3, IdleAssumption DEF Running
  <1>6. CASE Exit(p)
    BY <1>1, <1>2, <1>5, <1>6, ExitFacts
  <1>7. CASE \E label \in RouteLabels, T \in SUBSET Ifc : Onward(p, label, T) /\ UNCHANGED history
    BY <1>1, <1>2, <1>4, <1>5, <1>7 DEF history
  <1> QED BY <1>1, <1>6, <1>7 DEF Moves

\* What a script of ipmodechange.sh does to ipv6_mode and to the mode.
LEMMA RouteModes ==
    ASSUME TypeOK, FlowInv, NEW p \in Proc, RouteScript(p)
    PROVE  /\ Ipv6Shown' => Ipv6Shown \/ (script[p].at = "touch mode" /\ Announced(p) = "ipv6")
           /\ published' = published
              \/ (script[p].at = "publish" /\ published' = Announced(p) /\ Announced(p) \in {"ipv4", "ipv6"}
                  /\ tmp' = tmp)
  <1>1. RouteRuns(p) /\ Flow(p)
    BY RouteGoes DEF FlowInv, RouteRuns
  <1>2. script[p].at \in {"publish", "touch mode"} => Announced(p) \in {"ipv4", "ipv6"}
    BY <1>1, AnnouncedModes DEF Flow, RouteRuns, Family
  <1>3. \A f \in {"ipv4", "ipv6"} :
            /\ RouteFlag[f] # Mode["ipv6"] /\ (Mode[f] = Mode["ipv6"] => f = "ipv6")
    BY DEF RouteFlag, Mode
  <1>4. Fam(p) \in {"ipv4", "ipv6"}
    BY RouteGoes
  <1> QED BY <1>2, <1>3, <1>4
          DEF RouteScript, TouchRoute, TestModes, TestIpv4Mode, TestGlobal, PublishMode, TouchMode, RemoveRoute,
              RemoveMode, TestIpv4Route, RemoveIpv4Route, At, Test, Touch, Remove, Publish, Ipv6Shown

\* It arrives at each line with what must hold there.
LEMMA OwnLine ==
    ASSUME TypeOK, FlowInv, NEW p \in Proc, RouteScript(p), Line(p), Running(p)'
    PROVE  Line(p)'
  <1>1. /\ RouteRuns(p) /\ Flow(p) /\ script[p].op \in {"add", "delete"} /\ Fam(p) \in {"ipv4", "ipv6"}
        /\ script'[p].op = script[p].op /\ Announced(p)' = Announced(p) /\ ~Exit(p)
    BY RouteGoes, ExitFacts DEF FlowInv, RouteRuns
  <1>2. /\ script[p].op = "add" => Announced(p) = Fam(p)
        /\ script[p].op = "delete" => Announced(p) = (IF Fam(p) = "ipv6" THEN "ipv4" ELSE "none")
    BY <1>1, AnnouncedModes DEF RouteRuns
  <1>3. \A label \in Labels : Goto(p, label) => script'[p].at = label
    BY RouteGoes
  <1>4. /\ "test modes" \in Labels /\ "test global" \in Labels /\ "test ipv4_mode" \in Labels
        /\ "publish" \in Labels /\ "touch mode" \in Labels /\ "rm mode" \in Labels
        /\ "rm ipv4_route" \in Labels /\ "test ipv4_route" \in Labels
    BY DEF Labels, RouteLabels
  <1>5. /\ Ipv6Shown' => Ipv6Shown \/ (script[p].at = "touch mode" /\ Announced(p) = "ipv6")
        /\ published' = published \/ (script[p].at = "publish" /\ published' = Announced(p))
    BY RouteModes
  <1>6. CASE TouchRoute(p)
    BY <1>1, <1>2, <1>3, <1>4, <1>6 DEF TouchRoute, At, Flow, Line, PastTests
  <1>7. CASE TestModes(p)
    <2>1. ~Ipv6Shown /\ tmp' = tmp /\ script'[p].at = "test ipv4_mode"
      BY <1>1, <1>3, <1>4, <1>7 DEF TestModes, Test, Ipv6Shown
    <2> QED BY <2>1 DEF Line, Ipv6Shown
  <1>8. CASE TestIpv4Mode(p)
    <2>1. script[p].at = "test ipv4_mode" /\ tmp' = tmp /\ script'[p].at = "test global"
      BY <1>1, <1>3, <1>4, <1>8 DEF TestIpv4Mode, At, Test
    <2> QED BY <1>1, <2>1 DEF Line, PastTests, Ipv6Shown
  <1>9. CASE TestGlobal(p)
    <2>1. /\ script[p].at = "test global" /\ tmp' = tmp
          /\ \/ script[p].op = "add" /\ script'[p].at = "publish"
             \/ script[p].op = "delete" /\ script'[p].at \in {"rm mode", "rm ipv4_route"}
      BY <1>1, <1>3, <1>4, <1>9 DEF TestGlobal, At, Test
    <2> QED BY <1>1, <2>1 DEF Line, PastTests, Ipv6Shown
  <1>10. CASE PublishMode(p)
    <2>1. script[p].at = "publish" /\ tmp' = tmp /\ published' = Announced(p) /\ script'[p].at = "touch mode"
      BY <1>3, <1>4, <1>10 DEF PublishMode, At, Publish
    <2> QED BY <1>1, <2>1 DEF Line, PastTests, Ipv6Shown
  <1>11. CASE TouchMode(p) \/ RemoveIpv4Route(p)
    BY <1>1, <1>11 DEF TouchMode, RemoveIpv4Route
  <1>12. CASE RemoveRoute(p)
    <2>1. script[p].op = "delete" /\ script'[p].at = "test global"
      BY <1>1, <1>3, <1>4, <1>12 DEF RemoveRoute, At, Flow
    <2> QED BY <1>1, <2>1 DEF Line, PastTests
  <1>13. CASE RemoveMode(p)
    <2>1. /\ script[p].op = "delete" /\ tmp' = tmp \ {Mode[Fam(p)]}
          /\ script'[p].at = (IF Fam(p) = "ipv6" THEN "test ipv4_route" ELSE "rm ipv4_route")
      BY <1>1, <1>3, <1>4, <1>13 DEF RemoveMode, At, Flow, Remove
    <2>2. Fam(p) = "ipv6" => ~Ipv6Shown'
      BY <2>1 DEF Ipv6Shown
    <2> QED BY <1>1, <1>2, <2>1, <2>2 DEF Line, PastTests
  <1>14. CASE TestIpv4Route(p)
    <2>1. script[p].at = "test ipv4_route" /\ tmp' = tmp /\ script'[p].at = "publish"
      BY <1>1, <1>3, <1>4, <1>14 DEF TestIpv4Route, At, Test
    <2> QED BY <1>1, <2>1 DEF Line, PastTests, Ipv6Shown
  <1> QED BY <1>6, <1>7, <1>8, <1>9, <1>10, <1>11, <1>12, <1>13, <1>14 DEF RouteScript

\* Nor does a script that announces nothing else disturb it.
LEMMA OtherLine ==
    ASSUME TypeOK, FlowInv, NEW p \in Proc, NEW q \in Proc \ {p}, RouteScript(q),
           RouteRuns(p), Line(p), ~Clash(p, q)
    PROVE  Line(p)'
  <1>1. script'[p] = script[p] /\ Announced(p)' = Announced(p)
    BY RouteGoes DEF Announced, Fam
  <1>2. /\ Ipv6Shown' => Ipv6Shown \/ (script[q].at = "touch mode" /\ Announced(q) = "ipv6")
        /\ published' = published
           \/ (script[q].at = "publish" /\ published' = Announced(q) /\ Announced(q) \in {"ipv4", "ipv6"})
    BY RouteModes
  <1>3. Announced(p) = "ipv4" => ~(Ipv6Shown' /\ ~Ipv6Shown)
    BY <1>2 DEF Clash
  <1>4. Announced(p) = "ipv6" => published' = published \/ published' = "ipv6"
    BY <1>2 DEF Clash
  <1> QED BY <1>1, <1>3, <1>4 DEF Line, PastTests

LEMMA RouteModeInv == ASSUME TypeOK, FlowInv, ModeInv, NEW q \in Proc, RouteScript(q) PROVE ModeInv'
  <1>1. /\ RouteRuns(q) /\ \A p \in Proc \ {q} : script'[p] = script[p]
        /\ \/ Exit(q) /\ ~Running(q)'
           \/ Running(q)' /\ UNCHANGED mixed /\ Obj(q)' = Obj(q) /\ Announced(q)' = Announced(q)
    BY RouteGoes
  <1>2. \A p \in Proc : RouteRuns(p)' => RouteRuns(p) /\ Announced(p)' = Announced(p)
    BY <1>1 DEF RouteRuns, Running, Obj, Announced, Fam
  <1>3. \A p \in Proc \ mixed' : RouteRuns(p)' => p \notin mixed
    BY <1>1, ExitFacts DEF RouteRuns
  <1> SUFFICES ASSUME NEW p \in Proc \ mixed', RouteRuns(p)'
               PROVE  Line(p)' /\ \A r \in Proc : RouteRuns(r)' => ~Clash(p, r)'
    BY DEF ModeInv
  <1>4. RouteRuns(p) /\ Line(p) /\ \A r \in Proc : RouteRuns(r) => ~Clash(p, r)
    BY <1>2, <1>3 DEF ModeInv
  <1>5. \A r \in Proc : RouteRuns(r)' => ~Clash(p, r)'
    BY <1>2, <1>4 DEF Clash
  <1>6. Line(p)'
    <2>1. CASE p = q
      BY <1>4, <2>1, OwnLine DEF RouteRuns
    <2>2. CASE p # q
      BY <1>1, <1>4, <2>2, OtherLine
    <2> QED BY <2>1, <2>2
  <1> QED BY <1>5, <1>6

\* What else happens leaves ipv6_mode, the mode and the scripts of ipmodechange.sh alone.
SameModes ==
    /\ (Ipv6Shown' <=> Ipv6Shown) /\ UNCHANGED published
    /\ \A p \in Proc : RouteRuns(p)' => RouteRuns(p) /\ script'[p] = script[p] /\ (p \in mixed => p \in mixed')

LEMMA SameModesStep == ASSUME ModeInv, SameModes PROVE ModeInv'
  <1> SUFFICES ASSUME NEW p \in Proc \ mixed', RouteRuns(p)'
               PROVE  Line(p)' /\ \A r \in Proc : RouteRuns(r)' => ~Clash(p, r)'
    BY DEF ModeInv
  <1>1. \A r \in Proc : RouteRuns(r)' => RouteRuns(r) /\ Announced(r)' = Announced(r)
    BY DEF SameModes, Announced, Fam
  <1>2. p \notin mixed /\ script'[p] = script[p] /\ Line(p) /\ \A r \in Proc : RouteRuns(r) => ~Clash(p, r)
    BY DEF SameModes, ModeInv
  <1> QED BY <1>1, <1>2 DEF SameModes, Line, PastTests, Clash

\* ipv6addressChange.sh leaves the modes alone.
LEMMA AddressModes == ASSUME TypeOK, NEW q \in Proc, AddressScript(q) PROVE SameModes
  <1>1. \A f \in Family : Estb[f] # Mode["ipv6"] /\ Global[f] # Mode["ipv6"]
    BY DEF Family, Estb, Global, Mode
  <1>2. Moves(q, AddressLabels) /\ Obj(q) \in Addr /\ Running(q) /\ Fam(q) \in Family
    BY AddressScriptSteps, ScriptFacts DEF Moves
  <1>3. (Ipv6Shown' <=> Ipv6Shown) /\ UNCHANGED published
    BY <1>1, <1>2 DEF AddressScript, TouchEstb, TouchGlobal, Look, RemoveEstb, SkipLook, RemoveGlobal,
                      Test, Touch, Remove, Ipv6Shown
  <1>4. ASSUME NEW label \in AddressLabels, NEW T \in SUBSET Ifc, Onward(q, label, T), UNCHANGED history
        PROVE  Obj(q)' \in Addr /\ mixed' = mixed /\ \A p \in Proc \ {q} : script'[p] = script[p]
    BY <1>2, <1>4, OnwardFacts, LabelsDiffer DEF history
  <1>5. (Running(q)' => Obj(q)' \in Addr) /\ mixed \ {q} \subseteq mixed' /\ \A p \in Proc \ {q} : script'[p] = script[p]
    BY <1>2, <1>4, ExitFacts DEF Moves
  <1>6. ~RouteRuns(q)'
    BY <1>5, IpModeAssumption DEF RouteRuns
  <1> QED BY <1>3, <1>5, <1>6 DEF SameModes, RouteRuns, Running, Obj

LEMMA StartModeInv == ASSUME TypeOK, ModeInv, NEW s \in Subscription, NEW p \in Proc, Start(s, p) PROVE ModeInv'
  <1>1. PICK msg \in Notification : StartsFor(s, p, msg)
    BY StartFacts
  <1>2. (Ipv6Shown' <=> Ipv6Shown) /\ UNCHANGED published /\ mixed \subseteq mixed'
    BY <1>1 DEF StartsFor, Ipv6Shown
  <1>3. \A q \in Proc \ {p} : (RouteRuns(q)' <=> RouteRuns(q)) /\ Announced(q)' = Announced(q)
    BY <1>1 DEF StartsFor, RouteRuns, Running, Obj, Announced, Fam
  <1>4. CASE s = "address"
    <2>1. ~RouteRuns(p)'
      BY <1>1, <1>4, IpModeAssumption DEF StartsFor, RouteRuns, About
    <2>2. SameModes
      BY <1>1, <1>2, <1>3, <2>1 DEF StartsFor, SameModes
    <2> QED BY <2>2, SameModesStep
  <1>5. CASE s = "dfltroute"
    <2>1. /\ script'[p].op = msg.op /\ script'[p].at = First[s][msg.op] /\ msg.op \in {"add", "delete"}
      BY <1>1 DEF StartsFor, Notification
    <2>2. First["dfltroute"]["add"] = "touch route" /\ First["dfltroute"]["delete"] = "rm route"
      BY DEF First
    <2>3. Line(p)'
      BY <1>5, <2>1, <2>2 DEF Line, PastTests
    <2>4. Announced(p)' = Announces(msg.op, FamilyOf[msg.obj])
      BY <1>1, <2>1 DEF StartsFor, Announced
    <2>5. \A q \in Proc \ {p} : RouteRuns(q) /\ q \notin Opposed(msg) => ~Clash(p, q)' /\ ~Clash(q, p)'
      BY <1>3, <2>4 DEF Clash, Opposed, RouteRuns
    <2>6. ~Clash(p, p)'
      BY DEF Clash
    <2> SUFFICES ASSUME NEW q \in Proc \ mixed', RouteRuns(q)'
                 PROVE  Line(q)' /\ \A r \in Proc : RouteRuns(r)' => ~Clash(q, r)'
      BY DEF ModeInv
    <2>7. q \notin Opposed(msg) /\ q \notin mixed /\ (q = p => Opposed(msg) = {})
      BY <1>1, <1>5 DEF StartsFor
    <2>8. CASE q = p
      BY <1>3, <2>3, <2>5, <2>6, <2>7, <2>8
    <2>9. CASE q # p
      <3>1. RouteRuns(q) /\ Line(q) /\ script'[q] = script[q] /\ Announced(q)' = Announced(q)
        BY <1>1, <1>3, <2>7, <2>9 DEF StartsFor, ModeInv
      <3>2. Line(q)'
        BY <1>2, <3>1 DEF Line, PastTests
      <3>3. ASSUME NEW r \in Proc \ {p}, RouteRuns(r)' PROVE ~Clash(q, r)'
        <4>1. RouteRuns(r) /\ Announced(r)' = Announced(r) /\ ~Clash(q, r)
          BY <1>3, <2>7, <3>1, <3>3 DEF ModeInv
        <4> QED BY <3>1, <4>1 DEF Clash
      <3> QED BY <2>5, <2>7, <2>9, <3>1, <3>2, <3>3
    <2> QED BY <2>8, <2>9
  <1> QED BY <1>4, <1>5 DEF Subscription

\* A kernel's move, or none, is no concern of the modes.
LEMMA SilentModes ==
    ASSUME UNCHANGED <<script, tmp, published, mixed>> PROVE SameModes
  BY DEF SameModes, Ipv6Shown, RouteRuns, Running, Obj

LEMMA ModeStep == TypeOK /\ FlowInv /\ ModeInv /\ [Next]_vars => ModeInv'
  <1> SUFFICES ASSUME TypeOK, FlowInv, ModeInv, [Next]_vars PROVE ModeInv'
    OBVIOUS
  <1>1. ASSUME NEW p \in Proc, AddressScript(p) PROVE ModeInv'
    BY <1>1, AddressModes, SameModesStep
  <1>2. ASSUME NEW p \in Proc, RouteScript(p) PROVE ModeInv'
    BY <1>2, RouteModeInv
  <1>3. ASSUME NEW s \in Subscription, NEW p \in Proc, Start(s, p) PROVE ModeInv'
    BY <1>3, StartModeInv
  <1>4. CASE (\E o \in Addr \cup Route : KernelMoves(o)) \/ AtRest \/ UNCHANGED vars
    BY <1>4, SilentModes, SameModesStep DEF KernelMoves, AtRest, vars, history
  <1> QED BY <1>1, <1>2, <1>3, <1>4 DEF Next, ScriptStep

\* Only a script that has run beside one that announces the other mode parts the file from
\* the mode.
LEMMA ModeHeld ==
    ASSUME TypeOK, FlowInv, ModeInv, [Next]_vars, ModeAgrees, ~ModeAgrees'
    PROVE  \E p \in mixed : script'[p] # script[p]
  <1>1. ASSUME (Ipv6Shown' <=> Ipv6Shown) /\ UNCHANGED published PROVE FALSE
    BY <1>1 DEF ModeAgrees, Ipv6Shown
  <1>2. ASSUME NEW p \in Proc, RouteScript(p) PROVE \E q \in mixed : script'[q] # script[q]
    <2>1. /\ Ipv6Shown' => Ipv6Shown \/ (script[p].at = "touch mode" /\ Announced(p) = "ipv6")
          /\ published' = published
             \/ (script[p].at = "publish" /\ published' = Announced(p) /\ Announced(p) \in {"ipv4", "ipv6"}
                 /\ tmp' = tmp)
      BY <1>2, RouteModes
    <2>2. Ipv6Shown' /\ published' # "ipv6" /\ (Ipv6Shown => published = "ipv6")
      BY DEF ModeAgrees, Ipv6Shown
    <2>3. script[p].at \in {"publish", "touch mode"}
      BY <2>1, <2>2
    <2>4. CASE script[p].at = "touch mode"
      <3>1. published # "ipv6" /\ Announced(p) = "ipv6"
        BY <2>1, <2>2, <2>4
      <3>2. p \in mixed
        BY <1>2, <2>4, <3>1, RouteGoes DEF ModeInv, Line
      <3>3. Exit(p)
        BY <1>2, <2>4 DEF RouteScript, TouchRoute, TestModes, TestIpv4Mode, TestGlobal, PublishMode, TouchMode,
                          RemoveRoute, RemoveMode, TestIpv4Route, RemoveIpv4Route, At
      <3>4. script'[p] # script[p]
        BY <1>2, <3>3, ExitFacts, RouteGoes DEF RouteRuns, Running
      <3> QED BY <3>2, <3>4
    <2>5. CASE script[p].at = "publish"
      <3>1. Ipv6Shown /\ Announced(p) = "ipv4" /\ PastTests(p)
        BY <2>1, <2>2, <2>5 DEF PastTests
      <3>2. p \in mixed
        BY <1>2, <3>1, RouteGoes DEF ModeInv, Line
      <3>3. Goto(p, "touch mode")
        BY <1>2, <2>5 DEF RouteScript, TouchRoute, TestModes, TestIpv4Mode, TestGlobal, PublishMode, TouchMode,
                          RemoveRoute, RemoveMode, TestIpv4Route, RemoveIpv4Route, At
      <3>4. script'[p].at = "touch mode"
        BY <1>2, <3>3, RouteGoes DEF Labels, RouteLabels
      <3> QED BY <2>5, <3>2, <3>4
    <2> QED BY <2>3, <2>4, <2>5
  <1>3. ASSUME NEW p \in Proc, AddressScript(p) PROVE FALSE
    BY <1>1, <1>3, AddressModes DEF SameModes
  <1>4. ASSUME NEW s \in Subscription, NEW p \in Proc, Start(s, p) PROVE FALSE
    BY <1>1, <1>4 DEF Start, Ipv6Shown
  <1>5. ASSUME (\E o \in Addr \cup Route : KernelMoves(o)) \/ AtRest \/ UNCHANGED vars PROVE FALSE
    BY <1>1, <1>5 DEF KernelMoves, AtRest, vars, Ipv6Shown
  <1> QED BY <1>2, <1>3, <1>4, <1>5 DEF Next, ScriptStep

LEMMA ModeInit == Init => ModeInv
  BY DEF Init, ModeInv, RouteRuns, Running

\* /tmp/ipv6_mode comes to stand beside a last published mode that is not IPv6 only by a
\* step of an ipmodechange.sh that has run beside one that announces the other mode,
\* whatever ipv6addressChange.sh does to the files meanwhile and however many run at once.
THEOREM Ipv6ModeTrue == Spec => Ipv6ModeIsPublished
  <1>1. TypeOK /\ FlowInv /\ ModeInv /\ [Next]_vars
            => [ModeAgrees /\ ~ModeAgrees' => \E p \in mixed : script'[p] # script[p]]_vars
    BY ModeHeld
  <1> QED BY <1>1, TypeInit, TypeStep, ModeInit, ModeStep, PTL DEF Spec, Ipv6ModeIsPublished

-----------------------------------------------------------------------------
(* The order of the notifications.                                         *)

\* Whether o is there once the first i notifications of q are handled, when it is
\* there in the end if and only if it is in k.
After(q, k, i, o) ==
    \/ \E j \in i + 1..Len(q) : /\ q[j].obj = o /\ q[j].op = "delete"
                                /\ \A m \in i + 1..j - 1 : q[m].obj # o
    \/ o \in k /\ \A j \in i + 1..Len(q) : q[j].obj # o

\* Each notification is true when it is handled and was not before.
Alternates(q, k) == \A i \in 1..Len(q) : q[i].op = "add" <=> After(q, k, i, q[i].obj)

LEMMA AppendAfter ==
    ASSUME NEW q \in Seq(Notification), NEW k, NEW o, NEW kk, NEW m \in Notification, m.obj = o,
           \/ o \in k /\ kk = k \ {o} /\ m.op = "delete"
           \/ o \notin k /\ kk = k \cup {o} /\ m.op = "add",
           Alternates(q, k)
    PROVE  /\ \A i \in 0..Len(q) : \A a : After(Append(q, m), kk, i, a) <=> After(q, k, i, a)
           /\ Alternates(Append(q, m), kk)
  <1> DEFINE r == Append(q, m)
  <1>1. /\ Len(q) \in Nat /\ Len(r) = Len(q) + 1 /\ r[Len(q) + 1] = m
        /\ \A i \in 1..Len(q) : r[i] = q[i]
    BY LenProperties, AppendProperties
  <1> HIDE DEF r
  <1>2. ASSUME NEW i \in 0..Len(q), NEW a, After(r, kk, i, a) PROVE After(q, k, i, a)
    <2>1. ASSUME NEW j \in i + 1..Len(r), r[j].obj = a, r[j].op = "delete", \A n \in i + 1..j - 1 : r[n].obj # a
          PROVE  After(q, k, i, a)
      <3>1. CASE j \in i + 1..Len(q)
        <4>1. \A n \in i + 1..j - 1 : n \in 1..Len(q)
          BY <1>1, <3>1
        <4>2. j \in 1..Len(q)
          BY <1>1, <3>1
        <4> QED BY <1>1, <2>1, <3>1, <4>1, <4>2 DEF After
      <3>2. CASE j = Len(q) + 1
        <4>1. \A n \in i + 1..Len(q) : n \in 1..Len(q) /\ n \in i + 1..j - 1
          BY <1>1, <3>2
        <4>2. a = o /\ o \in k
          BY <1>1, <2>1, <3>2
        <4> QED BY <1>1, <2>1, <4>1, <4>2 DEF After
      <3>3. j \in i + 1..Len(q) \/ j = Len(q) + 1
        BY <1>1
      <3> QED BY <3>1, <3>2, <3>3
    <2>2. ASSUME a \in kk, \A j \in i + 1..Len(r) : r[j].obj # a PROVE After(q, k, i, a)
      <3>1. \A n \in i + 1..Len(q) : n \in 1..Len(q) /\ n \in i + 1..Len(r)
        BY <1>1
      <3>2. Len(q) + 1 \in i + 1..Len(r)
        BY <1>1
      <3>3. a # o
        BY <1>1, <2>2, <3>2
      <3> QED BY <1>1, <2>2, <3>1, <3>3 DEF After
    <2> QED BY <1>2, <2>1, <2>2 DEF After
  <1>3. ASSUME NEW i \in 0..Len(q), NEW a, After(q, k, i, a) PROVE After(r, kk, i, a)
    <2>1. ASSUME NEW j \in i + 1..Len(q), q[j].obj = a, q[j].op = "delete", \A n \in i + 1..j - 1 : q[n].obj # a
          PROVE  After(r, kk, i, a)
      <3>1. j \in i + 1..Len(r) /\ j \in 1..Len(q) /\ \A n \in i + 1..j - 1 : n \in 1..Len(q)
        BY <1>1
      <3> QED BY <1>1, <2>1, <3>1 DEF After
    <2>2. ASSUME a \in k, \A j \in i + 1..Len(q) : q[j].obj # a PROVE After(r, kk, i, a)
      <3>1. \A n \in i + 1..Len(q) : n \in 1..Len(q) /\ r[n].obj # a
        BY <1>1, <2>2
      <3>2. CASE a = o
        <4>1. Len(q) + 1 \in i + 1..Len(r) /\ \A n \in i + 1..(Len(q) + 1) - 1 : n \in i + 1..Len(q)
          BY <1>1
        <4> QED BY <1>1, <2>2, <3>1, <3>2, <4>1 DEF After
      <3>3. CASE a # o
        <4>1. \A n \in i + 1..Len(r) : n \in i + 1..Len(q) \/ n = Len(q) + 1
          BY <1>1
        <4> QED BY <1>1, <2>2, <3>1, <3>3, <4>1 DEF After
      <3> QED BY <3>2, <3>3
    <2> QED BY <1>3, <2>1, <2>2 DEF After
  <1>4. After(r, kk, Len(q) + 1, o) <=> o \in kk
    <2>1. \A j \in (Len(q) + 1) + 1..Len(r) : FALSE
      BY <1>1
    <2> QED BY <2>1 DEF After
  <1>5. Alternates(r, kk)
    <2> SUFFICES ASSUME NEW i \in 1..Len(r) PROVE r[i].op = "add" <=> After(r, kk, i, r[i].obj)
      BY DEF Alternates
    <2>1. CASE i \in 1..Len(q)
      <3>1. i \in 0..Len(q)
        BY <2>1
      <3> QED BY <1>1, <1>2, <1>3, <2>1, <3>1 DEF Alternates
    <2>2. CASE i = Len(q) + 1
      <3>1. o \in kk <=> m.op = "add"
        OBVIOUS
      <3> QED BY <1>1, <1>4, <2>2, <3>1
    <2> QED BY <1>1, <2>1, <2>2
  <1> QED BY <1>2, <1>3, <1>5 DEF r

LEMMA TailAfter ==
    ASSUME NEW q \in Seq(Notification), q # <<>>, NEW k, Alternates(q, k)
    PROVE  /\ Alternates(Tail(q), k)
           /\ \A a : After(Tail(q), k, 0, a) <=>
                        IF a = Head(q).obj THEN Head(q).op = "add" ELSE After(q, k, 0, a)
  <1> DEFINE r == Tail(q)
  <1>1. /\ Len(q) \in Nat /\ Len(q) >= 1 /\ Len(r) = Len(q) - 1 /\ q[1] = Head(q)
        /\ \A i \in 1..Len(r) : r[i] = q[i + 1]
    BY LenProperties, HeadTailProperties
  <1> HIDE DEF r
  <1>2. ASSUME NEW i \in 0..Len(r), NEW a PROVE After(r, k, i, a) <=> After(q, k, i + 1, a)
    <2>1. ASSUME NEW j \in i + 1..Len(r), r[j].obj = a, r[j].op = "delete", \A n \in i + 1..j - 1 : r[n].obj # a
          PROVE  After(q, k, i + 1, a)
      <3>1. j + 1 \in (i + 1) + 1..Len(q) /\ j \in 1..Len(r)
        BY <1>1
      <3>2. ASSUME NEW n \in (i + 1) + 1..(j + 1) - 1 PROVE q[n].obj # a
        <4>1. n - 1 \in i + 1..j - 1 /\ n - 1 \in 1..Len(r) /\ (n - 1) + 1 = n
          BY <1>1
        <4> QED BY <1>1, <2>1, <4>1
      <3> QED BY <1>1, <2>1, <3>1, <3>2 DEF After
    <2>2. ASSUME \A j \in i + 1..Len(r) : r[j].obj # a PROVE \A j \in (i + 1) + 1..Len(q) : q[j].obj # a
      <3> SUFFICES ASSUME NEW j \in (i + 1) + 1..Len(q) PROVE q[j].obj # a
        OBVIOUS
      <3>1. j - 1 \in i + 1..Len(r) /\ j - 1 \in 1..Len(r) /\ (j - 1) + 1 = j
        BY <1>1
      <3> QED BY <1>1, <2>2, <3>1
    <2>3. ASSUME NEW j \in (i + 1) + 1..Len(q), q[j].obj = a, q[j].op = "delete",
                 \A n \in (i + 1) + 1..j - 1 : q[n].obj # a
          PROVE  After(r, k, i, a)
      <3>1. j - 1 \in i + 1..Len(r) /\ j - 1 \in 1..Len(r) /\ (j - 1) + 1 = j
        BY <1>1
      <3>2. ASSUME NEW n \in i + 1..(j - 1) - 1 PROVE r[n].obj # a
        <4>1. n + 1 \in (i + 1) + 1..j - 1 /\ n \in 1..Len(r)
          BY <1>1
        <4> QED BY <1>1, <2>3, <4>1
      <3>3. r[j - 1] = q[j]
        BY <1>1, <3>1
      <3> QED BY <2>3, <3>1, <3>2, <3>3 DEF After
    <2>4. ASSUME \A j \in (i + 1) + 1..Len(q) : q[j].obj # a PROVE \A j \in i + 1..Len(r) : r[j].obj # a
      <3> SUFFICES ASSUME NEW j \in i + 1..Len(r) PROVE r[j].obj # a
        OBVIOUS
      <3>1. j + 1 \in (i + 1) + 1..Len(q) /\ j \in 1..Len(r)
        BY <1>1
      <3> QED BY <1>1, <2>4, <3>1
    <2> QED BY <2>1, <2>2, <2>3, <2>4 DEF After
  <1>3. Alternates(r, k)
    <2> SUFFICES ASSUME NEW i \in 1..Len(r) PROVE r[i].op = "add" <=> After(r, k, i, r[i].obj)
      BY DEF Alternates
    <2>1. i \in 0..Len(r) /\ i + 1 \in 1..Len(q) /\ r[i] = q[i + 1]
      BY <1>1
    <2> QED BY <1>2, <2>1 DEF Alternates
  <1>4. \A a : After(r, k, 0, a) <=> After(q, k, 1, a)
    <2>1. 0 \in 0..Len(r) /\ 0 + 1 = 1
      BY <1>1
    <2> QED BY <1>2, <2>1
  <1>5. After(q, k, 1, Head(q).obj) <=> Head(q).op = "add"
    <2>1. 1 \in 1..Len(q)
      BY <1>1
    <2> QED BY <1>1, <2>1 DEF Alternates
  <1>6. ASSUME NEW a, a # Head(q).obj PROVE After(q, k, 1, a) <=> After(q, k, 0, a)
    <2>1. \A j \in 0 + 1..Len(q) : q[j].obj = a => j \in 1 + 1..Len(q)
      BY <1>1, <1>6
    <2>2. \A j \in 1 + 1..Len(q) : j \in 0 + 1..Len(q)
      BY <1>1
    <2>3. \A j \in 1 + 1..Len(q) : (\A n \in 1 + 1..j - 1 : q[n].obj # a) <=> (\A n \in 0 + 1..j - 1 : q[n].obj # a)
      BY <1>1, <1>6
    <2> QED BY <2>1, <2>2, <2>3 DEF After
  <1> QED BY <1>3, <1>4, <1>5, <1>6 DEF r

-----------------------------------------------------------------------------
(* What ipv6addressChange.sh has been told.                                *)

\* The address was there when the last notification taken was sent.
Known(a) == After(inbox["address"], kernel, 0, a)

\* A delete of the address is on its way.
Leaving(a) == \E j \in 1..Len(inbox["address"]) : inbox["address"][j].obj = a /\ inbox["address"][j].op = "delete"

Told == Alternates(inbox["address"], kernel)

LEMMA Inbox ==
    ASSUME TypeOK
    PROVE  inbox["address"] \in Seq(Notification) /\ Len(inbox["address"]) \in Nat /\ "address" \in Subscription
  BY LenProperties DEF TypeOK, Subscription

\* What is known is there, unless it is on its way out.
LEMMA KnownOrLeaving == ASSUME TypeOK, NEW a, Known(a) PROVE a \in kernel \/ Leaving(a)
  <1>1. ASSUME NEW j \in 0 + 1..Len(inbox["address"]) PROVE j \in 1..Len(inbox["address"])
    BY <1>1, Inbox
  <1> QED BY <1>1 DEF Known, After, Leaving

\* When nothing is on its way, what is known is what there is.
LEMMA KnownSettled ==
    ASSUME TypeOK, inbox["address"] = <<>>, NEW a PROVE ~Leaving(a) /\ (Known(a) <=> a \in kernel)
  <1>1. Len(inbox["address"]) = 0
    OBVIOUS
  <1> QED BY <1>1 DEF Known, After, Leaving

\* The kernel's moves: nothing known changes, and what goes is on its way out.
LEMMA KernelTells ==
    ASSUME TypeOK, Told, NEW o \in Addr \cup Route, KernelMoves(o)
    PROVE  /\ Alternates(inbox'["address"], kernel')
           /\ \A a \in Addr : Known(a)' <=> Known(a)
           /\ \A a \in Addr : Leaving(a) => Leaving(a)'
           /\ \A a \in Addr : a \in kernel => a \in kernel' \/ Leaving(a)'
           /\ UNCHANGED <<script, tmp>>
  <1>1. CASE o \in Addr
    <2> DEFINE m == [op |-> IF o \in kernel THEN "delete" ELSE "add", obj |-> o]
               q == inbox["address"]
    <2>1. m \in Notification /\ m.obj = o /\ m.op = (IF o \in kernel THEN "delete" ELSE "add")
      BY DEF Notification
    <2>2. inbox'["address"] = Append(q, m)
      BY <1>1, Inbox DEF KernelMoves, TypeOK
    <2>3. \/ o \in kernel /\ kernel' = kernel \ {o} /\ m.op = "delete"
          \/ o \notin kernel /\ kernel' = kernel \cup {o} /\ m.op = "add"
      BY <2>1 DEF KernelMoves
    <2>4. q \in Seq(Notification) /\ Alternates(q, kernel) /\ Len(q) \in Nat
      BY Inbox DEF Told
    <2> HIDE DEF m, q
    <2>5. /\ \A i \in 0..Len(q) : \A a : After(Append(q, m), kernel', i, a) <=> After(q, kernel, i, a)
          /\ Alternates(Append(q, m), kernel')
      BY <2>1, <2>3, <2>4, AppendAfter
    <2>6. \A a \in Addr : Known(a)' <=> Known(a)
      BY <2>2, <2>4, <2>5 DEF Known, q
    <2>7. /\ Len(inbox'["address"]) = Len(q) + 1 /\ inbox'["address"][Len(q) + 1] = m
          /\ \A i \in 1..Len(q) : inbox'["address"][i] = q[i]
      BY <2>1, <2>2, <2>4, AppendProperties
    <2>8. \A a \in Addr : Leaving(a) => Leaving(a)'
      <3> SUFFICES ASSUME NEW a \in Addr, Leaving(a) PROVE Leaving(a)'
        OBVIOUS
      <3>1. PICK j \in 1..Len(q) : q[j].obj = a /\ q[j].op = "delete"
        BY DEF Leaving, q
      <3>2. j \in 1..Len(inbox'["address"]) /\ inbox'["address"][j] = q[j]
        BY <2>4, <2>7
      <3> QED BY <3>1, <3>2 DEF Leaving
    <2>9. ASSUME NEW a \in Addr, a \in kernel, a \notin kernel' PROVE Leaving(a)'
      <3>1. a = o /\ m.op = "delete"
        BY <2>3, <2>9
      <3>2. Len(q) + 1 \in 1..Len(inbox'["address"])
        BY <2>4, <2>7
      <3> QED BY <2>1, <2>7, <3>1, <3>2 DEF Leaving
    <2> QED BY <2>2, <2>5, <2>6, <2>8, <2>9 DEF KernelMoves
  <1>2. CASE o \notin Addr
    <2>1. inbox'["address"] = inbox["address"]
      BY <1>2, Inbox DEF KernelMoves, TypeOK
    <2>2. \A a \in Addr : a \in kernel' <=> a \in kernel
      BY <1>2 DEF KernelMoves
    <2>3. \A a \in Addr : \A i : After(inbox'["address"], kernel', i, a) <=> After(inbox["address"], kernel, i, a)
      BY <2>1, <2>2 DEF After
    <2>4. Alternates(inbox'["address"], kernel')
      <3>1. \A i \in 1..Len(inbox["address"]) : inbox["address"][i].obj \in Addr
        BY Inbox DEF TypeOK, About
      <3> QED BY <2>1, <2>3, <3>1 DEF Alternates, Told
    <2> QED BY <2>1, <2>2, <2>3, <2>4 DEF KernelMoves, Told, Known, Leaving
  <1> QED BY <1>1, <1>2

\* A notification is taken: its object is known or not, and nothing else changes.
LEMMA StartTells ==
    ASSUME TypeOK, Told, NEW p \in Proc, Start("address", p)
    PROVE  \E msg \in Notification :
             /\ StartsFor("address", p, msg) /\ msg.obj \in Addr
             /\ Alternates(inbox'["address"], kernel')
             /\ \A a \in Addr : Known(a)' <=> IF a = msg.obj THEN msg.op = "add" ELSE Known(a)
             /\ \A a \in Addr : Leaving(a) => Leaving(a)' \/ (a = msg.obj /\ msg.op = "delete")
  <1> DEFINE q == inbox["address"]
  <1>1. q \in Seq(Notification) /\ q # <<>> /\ Alternates(q, kernel)
    BY Inbox DEF Told, Start
  <1>2. Head(q) \in Notification /\ StartsFor("address", p, Head(q))
    BY StartFacts, Inbox
  <1>3. PICK msg \in Notification : msg = Head(q) /\ StartsFor("address", p, msg)
    BY <1>2
  <1>4. /\ Len(q) \in Nat /\ Len(q) >= 1 /\ Len(Tail(q)) = Len(q) - 1 /\ q[1] = msg
        /\ \A i \in 1..Len(Tail(q)) : Tail(q)[i] = q[i + 1]
    BY <1>1, <1>3, LenProperties, HeadTailProperties
  <1>5. inbox'["address"] = Tail(q) /\ kernel' = kernel
    BY Inbox DEF Start, TypeOK
  <1> HIDE DEF q
  <1>6. /\ Alternates(Tail(q), kernel)
        /\ \A a : After(Tail(q), kernel, 0, a) <=>
                     IF a = Head(q).obj THEN Head(q).op = "add" ELSE After(q, kernel, 0, a)
    BY <1>1, TailAfter
  <1>7. \A a \in Addr : Known(a)' <=> IF a = msg.obj THEN msg.op = "add" ELSE Known(a)
    BY <1>3, <1>5, <1>6 DEF Known, q
  <1>8. ASSUME NEW a \in Addr, Leaving(a), ~(a = msg.obj /\ msg.op = "delete") PROVE Leaving(a)'
    <2>1. PICK j \in 1..Len(q) : q[j].obj = a /\ q[j].op = "delete"
      BY <1>8 DEF Leaving, q
    <2>2. j # 1
      BY <1>4, <1>8, <2>1
    <2>3. j - 1 \in 1..Len(Tail(q)) /\ (j - 1) + 1 = j
      BY <1>4, <2>2
    <2>4. Tail(q)[j - 1] = q[j]
      BY <1>4, <2>3
    <2> QED BY <1>5, <2>1, <2>3, <2>4 DEF Leaving
  <1>9. msg.obj \in Addr
    BY <1>3 DEF StartsFor, About
  <1>10. Alternates(inbox'["address"], kernel')
    BY <1>5, <1>6 DEF Alternates
  <1> QED BY <1>3, <1>7, <1>8, <1>9, <1>10

-----------------------------------------------------------------------------
(* The files that tell of the addresses.                                   *)

AddrRuns(p) == Running(p) /\ Obj(p) \in Addr
AddrAt(p, label) == AddrRuns(p) /\ script[p].at = label

\* The script of an add runs for an address that is known, unless its delete overtook it.
ScriptInv ==
    \A p \in Proc : AddrRuns(p) =>
        \/ /\ script[p].op = "add" /\ script[p].at \in {"touch estb", "touch global"}
           /\ Known(Obj(p)) \/ <<"delete", Fam(p)>> \in raced
        \/ script[p].op = "delete" /\ script[p].at \in {"look", "rm global"}

\* A global flag is that of an address which is known, or which a script removes.
GlobalInv ==
    \A f \in Family : <<"delete", f>> \notin raced /\ Global[f] \in tmp =>
        \/ \E a \in Addr : IfcOf[a] \in Managed /\ FamilyOf[a] = f /\ Known(a)
        \/ \E p \in Proc : AddrRuns(p) /\ script[p].op = "delete" /\ Fam(p) = f /\ IfcOf[Obj(p)] \in Managed

\* An address that counts has its file, unless it is on its way out or in.
EstbThere ==
    \A a \in Addr \ Ignored : <<"add", FamilyOf[a]>> \notin raced /\ Known(a) =>
        Estb[FamilyOf[a]] \in tmp \/ Leaving(a) \/ \E p \in Proc : AddrAt(p, "touch estb") /\ Obj(p) = a

\* An interface that was seen without an address has none that will stay.
Looked ==
    \A p \in Proc : AddrAt(p, "look") /\ <<"add", Fam(p)>> \notin raced =>
        \A a \in Addr : FamilyOf[a] = Fam(p) /\ IfcOf[a] \notin script[p].todo /\ Known(a) => Leaving(a)

\* A file of Estb has an address to account for it, or is being looked into.
EstbReal ==
    \A f \in Family : <<"delete", f>> \notin raced /\ Estb[f] \in tmp =>
        \/ f = "ipv6" /\ \E a \in Ignored : FamilyOf[a] = f
        \/ \E a \in Addr : FamilyOf[a] = f /\ (a \in kernel \/ Leaving(a))
        \/ \E p \in Proc : AddrAt(p, "look") /\ Fam(p) = f /\ ~Skips(Obj(p))

FlagInv == Told /\ ScriptInv /\ GlobalInv /\ EstbThere /\ Looked /\ EstbReal

LEMMA FileNames ==
    /\ \A f, g \in Family : Estb[f] # Global[g] /\ RouteFlag[f] # Estb[g] /\ RouteFlag[f] # Global[g]
                            /\ Mode[f] # Estb[g] /\ Mode[f] # Global[g]
    /\ \A f, g \in Family : f # g => Estb[f] # Estb[g] /\ Global[f] # Global[g]
  BY DEF Family, Estb, Global, RouteFlag, Mode

SameFlags ==
    \A f \in Family : (Estb[f] \in tmp' <=> Estb[f] \in tmp) /\ (Global[f] \in tmp' <=> Global[f] \in tmp)

\* What a script of ipv6addressChange.sh is at is seen alike after a step of another.
Still(p) ==
    /\ AddrRuns(p)' <=> AddrRuns(p)
    /\ AddrRuns(p) => script'[p] = script[p] /\ Obj(p)' = Obj(p) /\ Fam(p)' = Fam(p)

Others(p) == \A q \in Proc \ {p} : Still(q)

LEMMA StillFacts == ASSUME NEW p \in Proc, script'[p] = script[p] PROVE Still(p)
  BY DEF Still, AddrRuns, Running, Obj, Fam

SameInbox == UNCHANGED <<kernel, inbox["address"]>>

LEMMA SameKnown == SameInbox => \A a : (Known(a)' <=> Known(a)) /\ (Leaving(a)' <=> Leaving(a))
  BY DEF SameInbox, Known, Leaving

\* ipv6addressChange.sh sees nothing of it.
SameView == SameInbox /\ SameFlags /\ UNCHANGED raced /\ \A p \in Proc : Still(p)

LEMMA SameViewStep == ASSUME TypeOK, FlagInv, SameView PROVE FlagInv'
  <1>1. /\ \A a : (Known(a)' <=> Known(a)) /\ (Leaving(a)' <=> Leaving(a))
        /\ \A p \in Proc : Still(p)
        /\ kernel' = kernel /\ raced' = raced /\ inbox'["address"] = inbox["address"] /\ SameFlags
    BY SameKnown DEF SameView, SameInbox
  <1>2. Told'
    BY <1>1 DEF FlagInv, Told
  <1>3. ScriptInv'
    BY <1>1 DEF FlagInv, ScriptInv, Still
  <1>4. GlobalInv'
    BY <1>1 DEF FlagInv, GlobalInv, Still, SameFlags
  <1>5. EstbThere'
    <2> SUFFICES ASSUME NEW a \in Addr \ Ignored, <<"add", FamilyOf[a]>> \notin raced, Known(a)
                 PROVE  \/ Estb[FamilyOf[a]] \in tmp' \/ Leaving(a)
                        \/ \E p \in Proc : AddrAt(p, "touch estb")' /\ Obj(p)' = a
      BY <1>1 DEF EstbThere
    <2>1. Estb[FamilyOf[a]] \in tmp \/ Leaving(a) \/ \E p \in Proc : AddrAt(p, "touch estb") /\ Obj(p) = a
      BY DEF FlagInv, EstbThere
    <2>2. Estb[FamilyOf[a]] \in tmp' <=> Estb[FamilyOf[a]] \in tmp
      BY <1>1, Families DEF SameFlags
    <2> QED BY <1>1, <2>1, <2>2 DEF Still, AddrAt
  <1>6. Looked'
    BY <1>1 DEF FlagInv, Looked, Still, AddrAt
  <1>7. EstbReal'
    BY <1>1 DEF FlagInv, EstbReal, Still, SameFlags, Skips, AddrAt
  <1> QED BY <1>2, <1>3, <1>4, <1>5, <1>6, <1>7 DEF FlagInv

LEMMA RouteView == ASSUME TypeOK, FlowInv, NEW p \in Proc, RouteScript(p) PROVE SameView
  <1>1. /\ RouteRuns(p) /\ Flow(p) /\ Fam(p) \in Family /\ UNCHANGED <<kernel, inbox>>
        /\ \A q \in Proc \ {p} : script'[q] = script[q]
    BY RouteGoes, RouteScriptSteps DEF FlowInv, RouteRuns, Family
  <1>2. script[p].at \in {"publish", "touch mode"} => Announced(p) \in Family
    BY <1>1, AnnouncedModes DEF Flow, RouteRuns
  <1>3. \/ tmp' = tmp
        \/ \E f \in Family : \/ tmp' = tmp \cup {RouteFlag[f]} \/ tmp' = tmp \ {RouteFlag[f]}
                             \/ tmp' = tmp \cup {Mode[f]} \/ tmp' = tmp \ {Mode[f]}
    BY <1>1, <1>2, Families
       DEF RouteScript, TouchRoute, TestModes, TestIpv4Mode, TestGlobal, PublishMode, TouchMode, RemoveRoute,
           RemoveMode, TestIpv4Route, RemoveIpv4Route, At, Test, Touch, Remove, Publish
  <1>4. SameFlags
    BY <1>3, FileNames DEF SameFlags
  <1>5. UNCHANGED raced
    BY DEF RouteScript, TouchRoute, TestModes, TestIpv4Mode, TestGlobal, PublishMode, TouchMode, RemoveRoute,
           RemoveMode, TestIpv4Route, RemoveIpv4Route, Goto, Exit, history
  <1>6. Still(p)
    <2>1. ~AddrRuns(p)
      BY <1>1, IpModeAssumption DEF AddrRuns, RouteRuns
    <2>2. ~AddrRuns(p)'
      BY <2>1, RouteGoes DEF AddrRuns, RouteRuns
    <2> QED BY <2>1, <2>2 DEF Still
  <1> QED BY <1>1, <1>4, <1>5, <1>6, StillFacts DEF SameView, SameInbox

LEMMA KernelFlags == ASSUME TypeOK, FlagInv, NEW o \in Addr \cup Route, KernelMoves(o) PROVE FlagInv'
  <1>1. /\ Alternates(inbox'["address"], kernel')
        /\ \A a \in Addr : Known(a)' <=> Known(a)
        /\ \A a \in Addr : Leaving(a) => Leaving(a)'
        /\ \A a \in Addr : a \in kernel => a \in kernel' \/ Leaving(a)'
        /\ UNCHANGED <<script, tmp>>
    BY KernelTells DEF FlagInv
  <1>2. \A p \in Proc : Still(p)
    BY <1>1, StillFacts
  <1>3. UNCHANGED raced
    BY DEF KernelMoves, history
  <1>4. Told'
    BY <1>1 DEF Told
  <1>5. ScriptInv'
    <2> SUFFICES ASSUME NEW p \in Proc, AddrRuns(p)'
                 PROVE  \/ /\ script'[p].op = "add" /\ script'[p].at \in {"touch estb", "touch global"}
                           /\ Known(Obj(p))' \/ <<"delete", Fam(p)'>> \in raced'
                        \/ script'[p].op = "delete" /\ script'[p].at \in {"look", "rm global"}
      BY DEF ScriptInv
    <2>1. AddrRuns(p) /\ script'[p] = script[p] /\ Obj(p)' = Obj(p) /\ Fam(p)' = Fam(p) /\ Obj(p) \in Addr
      BY <1>2 DEF Still, AddrRuns
    <2>2. Known(Obj(p))' <=> Known(Obj(p))
      BY <1>1, <2>1
    <2> QED BY <1>3, <2>1, <2>2 DEF FlagInv, ScriptInv
  <1>6. GlobalInv'
    BY <1>1, <1>2, <1>3 DEF FlagInv, GlobalInv, Still
  <1>7. EstbThere'
    BY <1>1, <1>2, <1>3 DEF FlagInv, EstbThere, Still, AddrAt
  <1>8. Looked'
    BY <1>1, <1>2, <1>3 DEF FlagInv, Looked, Still, AddrAt
  <1>9. EstbReal'
    BY <1>1, <1>2, <1>3 DEF FlagInv, EstbReal, Still, Skips, AddrAt
  <1> QED BY <1>4, <1>5, <1>6, <1>7, <1>8, <1>9 DEF FlagInv

LEMMA StartFlags == ASSUME TypeOK, FlagInv, NEW p \in Proc, Start("address", p) PROVE FlagInv'
  <1>1. PICK msg \in Notification :
             /\ StartsFor("address", p, msg) /\ msg.obj \in Addr
             /\ Alternates(inbox'["address"], kernel')
             /\ \A a \in Addr : Known(a)' <=> IF a = msg.obj THEN msg.op = "add" ELSE Known(a)
             /\ \A a \in Addr : Leaving(a) => Leaving(a)' \/ (a = msg.obj /\ msg.op = "delete")
    BY StartTells DEF FlagInv
  <1> DEFINE f == FamilyOf[msg.obj]
  <1>2. /\ msg.op \in {"add", "delete"} /\ f \in Family
        /\ script[p] = Idle /\ \A q \in Proc \ {p} : script'[q] = script[q]
        /\ Running(p)' /\ Obj(p)' = msg.obj /\ Fam(p)' = f
        /\ script'[p] = [op |-> msg.op, obj |-> msg.obj, todo |-> Ifc, at |-> First["address"][msg.op]]
        /\ raced' = raced \cup Races(msg) /\ UNCHANGED <<kernel, tmp>>
    BY <1>1 DEF StartsFor, Notification
  <1>3. First["address"]["add"] = "touch estb" /\ First["address"]["delete"] = "look"
    BY DEF First
  <1>4. script'[p].op = msg.op /\ script'[p].todo = Ifc
        /\ script'[p].at = (IF msg.op = "add" THEN "touch estb" ELSE "look")
    <2>1. First["address"][msg.op] = (IF msg.op = "add" THEN "touch estb" ELSE "look")
      BY <1>2, <1>3
    <2>2. /\ script'[p].op = msg.op /\ script'[p].todo = Ifc
          /\ script'[p].at = First["address"][msg.op]
      BY <1>2
    <2> QED BY <2>1, <2>2
  <1>5. AddrRuns(p)' /\ ~AddrRuns(p) /\ Others(p)
    BY <1>1, <1>2, StillFacts DEF AddrRuns, Running, Others
  <1> HIDE DEF f
  <1>6. ASSUME NEW q \in Proc, AddrRuns(q), script[q].op # msg.op,
               IF msg.op = "add" THEN Fam(q) = f ELSE Obj(q) = msg.obj
        PROVE  <<msg.op, f>> \in raced'
    BY <1>2, <1>6 DEF Races, Crosses, AddrRuns, f
  <1>7. raced \subseteq raced'
    BY <1>2
  <1>8. ScriptInv /\ GlobalInv /\ EstbThere /\ Looked /\ EstbReal
    BY DEF FlagInv
  <1>9. Told'
    BY <1>1 DEF Told
  <1>10. ScriptInv'
    <2> SUFFICES ASSUME NEW q \in Proc, AddrRuns(q)'
                 PROVE  \/ /\ script'[q].op = "add" /\ script'[q].at \in {"touch estb", "touch global"}
                           /\ Known(Obj(q))' \/ <<"delete", Fam(q)'>> \in raced'
                        \/ script'[q].op = "delete" /\ script'[q].at \in {"look", "rm global"}
      BY DEF ScriptInv
    <2>1. CASE q = p
      BY <1>1, <1>2, <1>4, <2>1
    <2>2. CASE q # p
      <3>1. AddrRuns(q) /\ script'[q] = script[q] /\ Obj(q)' = Obj(q) /\ Fam(q)' = Fam(q) /\ Obj(q) \in Addr
            /\ Fam(q) = FamilyOf[Obj(q)]
        BY <1>5, <2>2 DEF Others, Still, AddrRuns, Fam, Obj
      <3>2. CASE script[q].op = "add" /\ msg.op = "delete" /\ Obj(q) = msg.obj
        <4>1. <<"delete", Fam(q)>> \in raced'
          BY <1>6, <3>1, <3>2 DEF f
        <4> QED BY <1>8, <3>1, <3>2, <4>1 DEF ScriptInv
      <3>3. CASE script[q].op = "add" /\ ~(msg.op = "delete" /\ Obj(q) = msg.obj)
        <4>1. Known(Obj(q)) => Known(Obj(q))'
          BY <1>1, <1>2, <3>1, <3>3
        <4> QED BY <1>7, <1>8, <3>1, <3>3, <4>1 DEF ScriptInv
      <3>4. CASE script[q].op # "add"
        BY <1>8, <3>1, <3>4 DEF ScriptInv
      <3> QED BY <3>2, <3>3, <3>4
    <2> QED BY <2>1, <2>2
  <1>11. GlobalInv'
    <2> SUFFICES ASSUME NEW g \in Family, Global[g] \in tmp, <<"delete", g>> \notin raced'
                 PROVE  \/ \E a \in Addr : IfcOf[a] \in Managed /\ FamilyOf[a] = g /\ Known(a)'
                        \/ \E q \in Proc : /\ AddrRuns(q)' /\ script'[q].op = "delete" /\ Fam(q)' = g
                                           /\ IfcOf[Obj(q)'] \in Managed
      BY <1>2 DEF GlobalInv
    <2>1. CASE \E a \in Addr : IfcOf[a] \in Managed /\ FamilyOf[a] = g /\ Known(a)
      <3>1. PICK a \in Addr : IfcOf[a] \in Managed /\ FamilyOf[a] = g /\ Known(a)
        BY <2>1
      <3>2. CASE a = msg.obj /\ msg.op = "delete"
        BY <1>2, <1>4, <1>5, <3>1, <3>2 DEF f
      <3>3. CASE ~(a = msg.obj /\ msg.op = "delete")
        BY <1>1, <1>2, <3>1, <3>3
      <3> QED BY <3>2, <3>3
    <2>2. CASE \E q \in Proc : AddrRuns(q) /\ script[q].op = "delete" /\ Fam(q) = g /\ IfcOf[Obj(q)] \in Managed
      BY <1>5, <2>2 DEF Others, Still
    <2> QED BY <1>7, <1>8, <2>1, <2>2 DEF GlobalInv
  <1>12. EstbThere'
    <2> SUFFICES ASSUME NEW a \in Addr \ Ignored, Known(a)', <<"add", FamilyOf[a]>> \notin raced'
                 PROVE  \/ Estb[FamilyOf[a]] \in tmp \/ Leaving(a)'
                        \/ \E q \in Proc : AddrAt(q, "touch estb")' /\ Obj(q)' = a
      BY <1>2 DEF EstbThere
    <2>1. CASE a = msg.obj
      BY <1>1, <1>2, <1>4, <1>5, <2>1 DEF AddrAt
    <2>2. CASE a # msg.obj
      BY <1>1, <1>5, <1>7, <1>8, <2>2 DEF EstbThere, Others, Still, AddrAt
    <2> QED BY <2>1, <2>2
  <1>13. Looked'
    <2> SUFFICES ASSUME NEW q \in Proc, AddrAt(q, "look")', <<"add", Fam(q)'>> \notin raced', NEW a \in Addr,
                        FamilyOf[a] = Fam(q)', IfcOf[a] \notin script'[q].todo, Known(a)'
                 PROVE  Leaving(a)'
      BY DEF Looked
    <2>1. q # p
      BY <1>4, IpModeAssumption
    <2>2. AddrAt(q, "look") /\ AddrRuns(q) /\ script'[q] = script[q] /\ Fam(q)' = Fam(q)
      BY <1>5, <2>1 DEF Others, Still, AddrAt
    <2>3. script[q].op = "delete"
      BY <1>8, <2>2 DEF ScriptInv, AddrAt
    <2>4. ~(a = msg.obj /\ msg.op = "add")
      BY <1>6, <2>2, <2>3 DEF f
    <2>5. Known(a) /\ a # msg.obj
      BY <1>1, <2>4
    <2> QED BY <1>1, <1>7, <1>8, <2>2, <2>5 DEF Looked
  <1>14. EstbReal'
    <2> SUFFICES ASSUME NEW g \in Family, Estb[g] \in tmp, <<"delete", g>> \notin raced',
                        ~(g = "ipv6" /\ \E a \in Ignored : FamilyOf[a] = g)
                 PROVE  \/ \E a \in Addr : FamilyOf[a] = g /\ (a \in kernel \/ Leaving(a)')
                        \/ \E q \in Proc : AddrAt(q, "look")' /\ Fam(q)' = g /\ ~Skips(Obj(q)')
      BY <1>2 DEF EstbReal, Skips
    <2>1. CASE \E a \in Addr : FamilyOf[a] = g /\ (a \in kernel \/ Leaving(a))
      <3>1. PICK a \in Addr : FamilyOf[a] = g /\ (a \in kernel \/ Leaving(a))
        BY <2>1
      <3>2. CASE a = msg.obj /\ msg.op = "delete"
        <4>1. ~Skips(Obj(p)')
          BY <1>2, <3>1, <3>2 DEF Skips
        <4> QED BY <1>2, <1>4, <1>5, <3>1, <3>2, <4>1 DEF AddrAt, f
      <3>3. CASE ~(a = msg.obj /\ msg.op = "delete")
        BY <1>1, <3>1, <3>3
      <3> QED BY <3>2, <3>3
    <2>2. CASE \E q \in Proc : AddrAt(q, "look") /\ Fam(q) = g /\ ~Skips(Obj(q))
      BY <1>5, <2>2 DEF Others, Still, AddrAt
    <2> QED BY <1>7, <1>8, <2>1, <2>2 DEF EstbReal
  <1> QED BY <1>9, <1>10, <1>11, <1>12, <1>13, <1>14 DEF FlagInv

\* A command of ipv6addressChange.sh goes on at a label or ends the script.
Keeps(p, label, T) ==
    /\ AddrRuns(p)' /\ script'[p].at = label /\ script'[p].todo = T
    /\ script'[p].op = script[p].op /\ Obj(p)' = Obj(p) /\ Fam(p)' = Fam(p)

LEMMA AddressOnward ==
    ASSUME TypeOK, NEW p \in Proc, AddrRuns(p), NEW label \in AddressLabels, NEW T \in SUBSET Ifc,
           Onward(p, label, T)
    PROVE  Keeps(p, label, T) /\ Others(p)
  <1>1. label \in Labels
    BY LabelsDiffer
  <1>2. /\ Running(p)' /\ script'[p].at = label /\ script'[p].todo = T
        /\ script'[p].op = script[p].op /\ Obj(p)' = Obj(p) /\ Fam(p)' = Fam(p)
        /\ \A q \in Proc \ {p} : script'[q] = script[q]
    BY <1>1, OnwardFacts DEF AddrRuns
  <1> QED BY <1>2, StillFacts DEF Keeps, Others, AddrRuns

LEMMA AddressGoto ==
    ASSUME TypeOK, NEW p \in Proc, AddrRuns(p), NEW label \in AddressLabels, Goto(p, label)
    PROVE  Keeps(p, label, script[p].todo) /\ Others(p) /\ UNCHANGED raced
  <1>1. Onward(p, label, script[p].todo) /\ UNCHANGED history /\ script[p].todo \in SUBSET Ifc
    BY GotoOnward, ScriptFacts DEF AddrRuns
  <1> QED BY <1>1, AddressOnward DEF history

LEMMA AddressExit ==
    ASSUME TypeOK, NEW p \in Proc, Exit(p)
    PROVE  ~AddrRuns(p)' /\ Others(p) /\ UNCHANGED raced
  BY ExitFacts, StillFacts DEF AddrRuns, Others

LEMMA AddressFlags == ASSUME TypeOK, FlagInv, NEW p \in Proc, AddressScript(p) PROVE FlagInv'
  <1>1. /\ AddrRuns(p) /\ UNCHANGED <<kernel, inbox>> /\ script[p].todo \in SUBSET Ifc
        /\ Obj(p) \in Addr /\ Fam(p) \in Family /\ Fam(p) = FamilyOf[Obj(p)]
    BY AddressScriptSteps, ScriptFacts DEF Moves, Effect, AddrRuns
  <1>2. \A a : (Known(a)' <=> Known(a)) /\ (Leaving(a)' <=> Leaving(a))
    BY <1>1, SameKnown DEF SameInbox
  <1>3. Told'
    BY <1>1 DEF FlagInv, Told
  <1>4. ScriptInv /\ GlobalInv /\ EstbThere /\ Looked /\ EstbReal
    BY DEF FlagInv
  <1>5. \/ /\ script[p].op = "add" /\ script[p].at \in {"touch estb", "touch global"}
           /\ Known(Obj(p)) \/ <<"delete", Fam(p)>> \in raced
        \/ script[p].op = "delete" /\ script[p].at \in {"look", "rm global"}
    BY <1>1, <1>4 DEF ScriptInv
  <1>6. "touch global" \in AddressLabels /\ "look" \in AddressLabels /\ "rm global" \in AddressLabels
    BY DEF AddressLabels
  <1>7. \A label : AddrAt(p, label) <=> script[p].at = label
    BY <1>1 DEF AddrAt
  <1>8. ASSUME NEW label \in {"touch global", "look", "rm global"}, NEW T \in SUBSET Ifc, Keeps(p, label, T), Others(p),
               UNCHANGED raced, script[p].op = "add" <=> label = "touch global"
        PROVE  ScriptInv'
    BY <1>2, <1>4, <1>5, <1>8 DEF ScriptInv, Keeps, Others, Still
  <1>9. CASE TouchEstb(p)
    <2>1. script[p].at = "touch estb" /\ Goto(p, "touch global")
      BY <1>9 DEF TouchEstb, At
    <2>2. tmp' = (IF Obj(p) \in Ignored THEN tmp ELSE tmp \cup {Estb[Fam(p)]})
      BY <1>9 DEF TouchEstb, Touch, Test
    <2>3. Keeps(p, "touch global", script[p].todo) /\ Others(p) /\ UNCHANGED raced
      BY <1>1, <1>6, <2>1, AddressGoto
    <2>4. ScriptInv'
      BY <1>1, <1>5, <1>8, <2>1, <2>3
    <2>5. GlobalInv'
      <3>1. \A f \in Family : Global[f] \in tmp' => Global[f] \in tmp
        BY <1>1, <2>2, FileNames
      <3>2. script[p].op = "add"
        BY <1>5, <2>1
      <3> QED BY <1>1, <1>2, <1>4, <2>3, <3>1, <3>2 DEF GlobalInv, Others, Still
    <2>6. EstbThere'
      <3> SUFFICES ASSUME NEW a \in Addr \ Ignored, <<"add", FamilyOf[a]>> \notin raced, Known(a)
                   PROVE  \/ Estb[FamilyOf[a]] \in tmp' \/ Leaving(a)
                          \/ \E q \in Proc : AddrAt(q, "touch estb")' /\ Obj(q)' = a
        BY <1>2, <2>3 DEF EstbThere
      <3>1. Estb[FamilyOf[a]] \in tmp \/ Leaving(a) \/ \E q \in Proc : AddrAt(q, "touch estb") /\ Obj(q) = a
        BY <1>4 DEF EstbThere
      <3>2. CASE \E q \in Proc \ {p} : AddrAt(q, "touch estb") /\ Obj(q) = a
        BY <2>3, <3>2 DEF Others, Still, AddrAt
      <3>3. CASE Obj(p) = a
        BY <1>1, <2>2, <3>3
      <3> QED BY <2>2, <3>1, <3>2, <3>3
    <2>7. Looked'
      BY <1>2, <1>4, <2>3 DEF Looked, Keeps, Others, Still, AddrAt
    <2>8. EstbReal'
      <3>1. <<"delete", Fam(p)>> \notin raced => Obj(p) \in kernel \/ Leaving(Obj(p))
        BY <1>5, <2>1, KnownOrLeaving
      <3>2. \A f \in Family : Estb[f] \in tmp' => Estb[f] \in tmp \/ f = Fam(p)
        BY <1>1, <2>2, FileNames
      <3>3. ~AddrAt(p, "look")
        BY <2>1 DEF AddrAt
      <3>4. \A q \in Proc : AddrAt(q, "look") /\ ~Skips(Obj(q))
                => AddrAt(q, "look")' /\ Fam(q)' = Fam(q) /\ ~Skips(Obj(q))'
        BY <2>3, <3>3 DEF Others, Still, AddrAt, Skips
      <3>5. \A a : Leaving(a)' <=> Leaving(a)
        BY <1>2
      <3> SUFFICES ASSUME NEW f \in Family, Estb[f] \in tmp', <<"delete", f>> \notin raced,
                          ~(f = "ipv6" /\ \E a \in Ignored : FamilyOf[a] = f)
                   PROVE  \/ \E a \in Addr : FamilyOf[a] = f /\ (a \in kernel \/ Leaving(a))
                          \/ \E q \in Proc : AddrAt(q, "look")' /\ Fam(q)' = f /\ ~Skips(Obj(q))'
        BY <1>1, <2>3, <3>5 DEF EstbReal, Skips
      <3>6. CASE f = Fam(p)
        BY <1>1, <3>1, <3>6
      <3>7. CASE f # Fam(p)
        BY <1>4, <3>2, <3>4, <3>7 DEF EstbReal
      <3> QED BY <3>6, <3>7
    <2> QED BY <1>3, <2>4, <2>5, <2>6, <2>7, <2>8 DEF FlagInv
  <1>10. ASSUME Exit(p), ~AddrAt(p, "look"), ~AddrAt(p, "touch estb"),
                \A f \in Family : Estb[f] \in tmp' <=> Estb[f] \in tmp, GlobalInv'
         PROVE  FlagInv'
    <2>1. ~AddrRuns(p)' /\ Others(p) /\ UNCHANGED raced
      BY <1>10, AddressExit
    <2>2. \A q \in Proc : AddrRuns(q)' => AddrRuns(q) /\ Still(q)
      BY <2>1 DEF Others, Still
    <2>3. ScriptInv'
      BY <1>2, <1>4, <2>1, <2>2 DEF ScriptInv, Still
    <2>4. EstbThere'
      <3> SUFFICES ASSUME NEW a \in Addr \ Ignored, <<"add", FamilyOf[a]>> \notin raced, Known(a)
                   PROVE  \/ Estb[FamilyOf[a]] \in tmp \/ Leaving(a)
                          \/ \E q \in Proc : AddrAt(q, "touch estb")' /\ Obj(q)' = a
        BY <1>2, <1>10, <2>1, Families DEF EstbThere
      <3>1. Estb[FamilyOf[a]] \in tmp \/ Leaving(a) \/ \E q \in Proc : AddrAt(q, "touch estb") /\ Obj(q) = a
        BY <1>4 DEF EstbThere
      <3> QED BY <1>10, <2>1, <3>1 DEF Others, Still, AddrAt
    <2>5. Looked'
      BY <1>2, <1>4, <2>1, <2>2 DEF Looked, Still, AddrAt
    <2>6. EstbReal'
      <3>1. \A q \in Proc : AddrAt(q, "look") /\ ~Skips(Obj(q))
                => AddrAt(q, "look")' /\ Fam(q)' = Fam(q) /\ ~Skips(Obj(q))'
        BY <1>10, <2>1 DEF Others, Still, AddrAt, Skips
      <3> SUFFICES ASSUME NEW f \in Family, Estb[f] \in tmp, <<"delete", f>> \notin raced,
                          ~(f = "ipv6" /\ \E a \in Ignored : FamilyOf[a] = f)
                   PROVE  \/ \E a \in Addr : FamilyOf[a] = f /\ (a \in kernel \/ Leaving(a))
                          \/ \E q \in Proc : AddrAt(q, "look")' /\ Fam(q)' = f /\ ~Skips(Obj(q))'
        BY <1>1, <1>2, <1>10, <2>1 DEF EstbReal, Skips
      <3> QED BY <1>4, <3>1 DEF EstbReal
    <2> QED BY <1>3, <1>10, <2>3, <2>4, <2>5, <2>6 DEF FlagInv
  <1>11. CASE TouchGlobal(p)
    <2>1. script[p].at = "touch global" /\ Exit(p)
      BY <1>11 DEF TouchGlobal, At
    <2>2. tmp' = (IF IfcOf[Obj(p)] \in Managed THEN tmp \cup {Global[Fam(p)]} ELSE tmp)
      BY <1>11 DEF TouchGlobal, Touch, Test
    <2>3. \A f \in Family : Estb[f] \in tmp' <=> Estb[f] \in tmp
      BY <1>1, <2>2, FileNames
    <2>4. ~AddrRuns(p)' /\ Others(p) /\ UNCHANGED raced /\ script[p].op = "add"
      BY <1>5, <2>1, AddressExit
    <2>5. GlobalInv'
      <3> SUFFICES ASSUME NEW f \in Family, Global[f] \in tmp', <<"delete", f>> \notin raced
                   PROVE  \/ \E a \in Addr : IfcOf[a] \in Managed /\ FamilyOf[a] = f /\ Known(a)
                          \/ \E q \in Proc : /\ AddrRuns(q)' /\ script'[q].op = "delete" /\ Fam(q)' = f
                                             /\ IfcOf[Obj(q)'] \in Managed
        BY <1>2, <2>4 DEF GlobalInv
      <3>1. CASE Global[f] \in tmp
        BY <1>4, <2>4, <3>1 DEF GlobalInv, Others, Still
      <3>2. CASE Global[f] \notin tmp
        <4>1. IfcOf[Obj(p)] \in Managed /\ Global[f] = Global[Fam(p)]
          BY <2>2, <3>2
        <4>2. f = Fam(p)
          BY <1>1, <4>1, FileNames
        <4> QED BY <1>1, <1>5, <2>1, <4>1, <4>2
      <3> QED BY <3>1, <3>2
    <2> QED BY <1>10, <2>1, <2>3, <2>5 DEF AddrAt
  <1>12. ASSUME NEW i \in Ifc, Look(p, i) PROVE FlagInv'
    <2> DEFINE label == IF Has(p, i) THEN "rm global" ELSE "look"
               T == IF Has(p, i) THEN script[p].todo ELSE script[p].todo \ {i}
    <2>1. script[p].at = "look" /\ tmp' = tmp /\ AddrAt(p, "look") /\ T \in SUBSET Ifc
      BY <1>1, <1>12 DEF Look, At, AddrAt, Test
    <2>2. label \in {"look", "rm global"} /\ (label = "look" <=> ~Has(p, i)) /\ label \in AddressLabels
      BY DEF AddressLabels
    <2>3. Keeps(p, label, T) /\ Others(p) /\ UNCHANGED raced
      <3>1. CASE Has(p, i)
        BY <1>1, <1>6, <1>12, <3>1, AddressGoto DEF Look
      <3>2. CASE ~Has(p, i)
        <4>1. script' = [script EXCEPT ![p].todo = @ \ {i}] /\ UNCHANGED raced
          BY <1>12, <3>2 DEF Look, history
        <4>2. script[p] \in Script
          BY <1>1, ScriptFacts DEF AddrRuns
        <4>3. [script[p] EXCEPT !.at = "look", !.todo = script[p].todo \ {i}]
                  = [script[p] EXCEPT !.todo = script[p].todo \ {i}]
          BY <2>1, <4>2 DEF Script
        <4>4. Onward(p, "look", script[p].todo \ {i})
          BY <4>1, <4>3 DEF Onward, TypeOK
        <4> QED BY <1>1, <1>6, <2>1, <3>2, <4>1, <4>4, AddressOnward
      <3> QED BY <3>1, <3>2
    <2>4. \A a \in Addr : FamilyOf[a] = Fam(p) /\ IfcOf[a] \notin T => IfcOf[a] \notin script[p].todo \/ a \notin kernel
      BY DEF Has
    <2> HIDE DEF label, T
    <2>5. ScriptInv'
      BY <1>5, <1>8, <2>1, <2>2, <2>3
    <2>6. GlobalInv'
      <3>1. script'[p].op = script[p].op /\ AddrRuns(p)' /\ Obj(p)' = Obj(p) /\ Fam(p)' = Fam(p)
        BY <2>3 DEF Keeps
      <3> QED BY <1>2, <1>4, <2>1, <2>3, <3>1 DEF GlobalInv, Others, Still
    <2>7. EstbThere'
      <3>1. ~AddrAt(p, "touch estb")
        BY <2>1 DEF AddrAt
      <3> QED BY <1>2, <1>4, <2>1, <2>3, <3>1 DEF EstbThere, Others, Still, AddrAt
    <2>8. Looked'
      <3> SUFFICES ASSUME NEW q \in Proc, AddrAt(q, "look")', <<"add", Fam(q)'>> \notin raced, NEW a \in Addr,
                          FamilyOf[a] = Fam(q)', IfcOf[a] \notin script'[q].todo, Known(a)
                   PROVE  Leaving(a)
        BY <1>2, <2>3 DEF Looked
      <3>1. CASE q = p
        <4>1. FamilyOf[a] = Fam(p) /\ IfcOf[a] \notin T /\ <<"add", Fam(p)>> \notin raced
          BY <2>3, <3>1 DEF Keeps
        <4>2. CASE IfcOf[a] \notin script[p].todo
          BY <1>4, <2>1, <4>1, <4>2 DEF Looked
        <4>3. CASE a \notin kernel
          BY <4>3, KnownOrLeaving
        <4> QED BY <2>4, <4>1, <4>2, <4>3
      <3>2. CASE q # p
        BY <1>4, <2>3, <3>2 DEF Looked, Others, Still, AddrAt
      <3> QED BY <3>1, <3>2
    <2>9. EstbReal'
      <3> SUFFICES ASSUME NEW f \in Family, Estb[f] \in tmp, <<"delete", f>> \notin raced,
                          ~(f = "ipv6" /\ \E a \in Ignored : FamilyOf[a] = f)
                   PROVE  \/ \E a \in Addr : FamilyOf[a] = f /\ (a \in kernel \/ Leaving(a))
                          \/ \E q \in Proc : AddrAt(q, "look")' /\ Fam(q)' = f /\ ~Skips(Obj(q))'
        BY <1>1, <1>2, <2>1, <2>3 DEF EstbReal, Skips
      <3>1. CASE Has(p, i) /\ Fam(p) = f
        BY <3>1 DEF Has
      <3>2. CASE ~(Has(p, i) /\ Fam(p) = f)
        <4>1. \A q \in Proc : AddrAt(q, "look") /\ Fam(q) = f
                  => AddrAt(q, "look")' /\ Fam(q)' = f /\ Obj(q)' = Obj(q)
          BY <2>2, <2>3, <3>2 DEF Keeps, Others, Still, AddrAt
        <4> QED BY <1>4, <4>1 DEF EstbReal, Skips
      <3> QED BY <3>1, <3>2
    <2> QED BY <1>3, <2>5, <2>6, <2>7, <2>8, <2>9 DEF FlagInv
  <1>13. ASSUME script[p].at = "look", Goto(p, "rm global"),
                \/ tmp' = tmp /\ Skips(Obj(p))
                \/ tmp' = tmp \ {Estb[Fam(p)]} /\ script[p].todo = {}
         PROVE  FlagInv'
    <2>1. Keeps(p, "rm global", script[p].todo) /\ Others(p) /\ UNCHANGED raced
      BY <1>1, <1>6, <1>13, AddressGoto
    <2>2. ScriptInv'
      BY <1>1, <1>5, <1>8, <1>13, <2>1
    <2>3. GlobalInv'
      <3>1. \A f \in Family : Global[f] \in tmp' => Global[f] \in tmp
        BY <1>13
      <3>2. \A q \in Proc : AddrRuns(q) =>
                /\ AddrRuns(q)' /\ script'[q].op = script[q].op
                /\ Obj(q)' = Obj(q) /\ Fam(q)' = Fam(q)
        BY <2>1 DEF Keeps, Others, Still
      <3> SUFFICES ASSUME NEW f \in Family, Global[f] \in tmp', <<"delete", f>> \notin raced
                   PROVE  \/ \E a \in Addr : IfcOf[a] \in Managed /\ FamilyOf[a] = f /\ Known(a)
                          \/ \E q \in Proc : /\ AddrRuns(q)' /\ script'[q].op = "delete" /\ Fam(q)' = f
                                             /\ IfcOf[Obj(q)'] \in Managed
        BY <1>2, <2>1 DEF GlobalInv
      <3> QED BY <1>4, <3>1, <3>2 DEF GlobalInv
    <2>4. EstbThere'
      <3> SUFFICES ASSUME NEW a \in Addr \ Ignored, <<"add", FamilyOf[a]>> \notin raced, Known(a)
                   PROVE  \/ Estb[FamilyOf[a]] \in tmp' \/ Leaving(a)
                          \/ \E q \in Proc : AddrAt(q, "touch estb")' /\ Obj(q)' = a
        BY <1>2, <2>1 DEF EstbThere
      <3>1. Estb[FamilyOf[a]] \in tmp \/ Leaving(a) \/ \E q \in Proc : AddrAt(q, "touch estb") /\ Obj(q) = a
        BY <1>4 DEF EstbThere
      <3>2. CASE FamilyOf[a] = Fam(p) /\ script[p].todo = {}
        BY <1>4, <1>7, <1>13, <3>2 DEF Looked
      <3>3. CASE (FamilyOf[a] # Fam(p) \/ tmp' = tmp) /\ Estb[FamilyOf[a]] \in tmp
        BY <1>1, <1>13, <3>3, FileNames, Families
      <3>4. CASE \E q \in Proc : AddrAt(q, "touch estb") /\ Obj(q) = a
        BY <1>7, <1>13, <2>1, <3>4 DEF Others, Still, AddrAt
      <3> QED BY <1>13, <3>1, <3>2, <3>3, <3>4
    <2>5. Looked'
      BY <1>2, <1>4, <2>1 DEF Looked, Keeps, Others, Still, AddrAt
    <2>6. EstbReal'
      <3> SUFFICES ASSUME NEW f \in Family, Estb[f] \in tmp', <<"delete", f>> \notin raced,
                          ~(f = "ipv6" /\ \E a \in Ignored : FamilyOf[a] = f)
                   PROVE  \/ \E a \in Addr : FamilyOf[a] = f /\ (a \in kernel \/ Leaving(a))
                          \/ \E q \in Proc : AddrAt(q, "look")' /\ Fam(q)' = f /\ ~Skips(Obj(q))'
        BY <1>1, <1>2, <2>1 DEF EstbReal, Skips
      <3>1. Estb[f] \in tmp /\ (Fam(p) = f => Skips(Obj(p)))
        BY <1>13
      <3>2. \A q \in Proc \ {p} : AddrAt(q, "look") => AddrAt(q, "look")' /\ Fam(q)' = Fam(q) /\ Obj(q)' = Obj(q)
        BY <2>1 DEF Others, Still, AddrAt
      <3> QED BY <1>4, <3>1, <3>2 DEF EstbReal, Skips
    <2> QED BY <1>3, <2>2, <2>3, <2>4, <2>5, <2>6 DEF FlagInv
  <1>14. CASE RemoveGlobal(p)
    <2>1. script[p].at = "rm global" /\ Exit(p)
      BY <1>14 DEF RemoveGlobal, At
    <2>2. tmp' = (IF IfcOf[Obj(p)] \in Managed THEN tmp \ {Global[Fam(p)]} ELSE tmp)
      BY <1>14 DEF RemoveGlobal, Remove, Test
    <2>3. \A f \in Family : Estb[f] \in tmp' <=> Estb[f] \in tmp
      BY <1>1, <2>2, FileNames
    <2>4. ~AddrRuns(p)' /\ Others(p) /\ UNCHANGED raced
      BY <2>1, AddressExit
    <2>5. GlobalInv'
      <3> SUFFICES ASSUME NEW f \in Family, Global[f] \in tmp', <<"delete", f>> \notin raced
                   PROVE  \/ \E a \in Addr : IfcOf[a] \in Managed /\ FamilyOf[a] = f /\ Known(a)
                          \/ \E q \in Proc : /\ AddrRuns(q)' /\ script'[q].op = "delete" /\ Fam(q)' = f
                                             /\ IfcOf[Obj(q)'] \in Managed
        BY <1>2, <2>4 DEF GlobalInv
      <3>1. Global[f] \in tmp /\ ~(Fam(p) = f /\ IfcOf[Obj(p)] \in Managed)
        BY <2>2
      <3> QED BY <1>4, <2>4, <3>1 DEF GlobalInv, Others, Still
    <2> QED BY <1>10, <2>1, <2>3, <2>5 DEF AddrAt
  <1>15. CASE RemoveEstb(p)
    BY <1>13, <1>15 DEF RemoveEstb, At, Remove
  <1>16. CASE SkipLook(p)
    BY <1>13, <1>16 DEF SkipLook, At, Test
  <1> QED BY <1>9, <1>11, <1>12, <1>14, <1>15, <1>16 DEF AddressScript

LEMMA FlagInvStep == TypeOK /\ FlowInv /\ FlagInv /\ [Next]_vars => FlagInv'
  <1> SUFFICES ASSUME TypeOK, FlowInv, FlagInv, [Next]_vars PROVE FlagInv'
    OBVIOUS
  <1>1. ASSUME NEW p \in Proc, RouteScript(p) PROVE FlagInv'
    BY <1>1, RouteView, SameViewStep
  <1>2. ASSUME NEW p \in Proc, Start("dfltroute", p) PROVE FlagInv'
    <2>1. PICK msg \in Notification : StartsFor("dfltroute", p, msg)
      BY <1>2, StartFacts DEF Subscription
    <2>2. ~AddrRuns(p) /\ ~AddrRuns(p)'
      BY <2>1, IpModeAssumption DEF StartsFor, About, AddrRuns, Running
    <2>3. \A q \in Proc : Still(q)
      <3>1. \A q \in Proc \ {p} : script'[q] = script[q]
        BY <2>1 DEF StartsFor
      <3> QED BY <2>2, <3>1, StillFacts DEF Still
    <2>4. SameView
      BY <1>2, <2>3, Inbox DEF Start, TypeOK, SameView, SameInbox, SameFlags
    <2> QED BY <2>4, SameViewStep
  <1>3. CASE UNCHANGED vars \/ AtRest
    <2>1. SameView
      BY <1>3, StillFacts DEF vars, history, AtRest, SameView, SameInbox, SameFlags
    <2> QED BY <2>1, SameViewStep
  <1>4. ASSUME NEW p \in Proc, Start("address", p) PROVE FlagInv'
    BY <1>4, StartFlags
  <1> QED BY <1>1, <1>2, <1>3, <1>4, AddressFlags, KernelFlags DEF Next, ScriptStep, Subscription

LEMMA FlagInvInit == Init => FlagInv
  <1> SUFFICES ASSUME Init PROVE FlagInv
    OBVIOUS
  <1>1. inbox["address"] = <<>> /\ kernel = {} /\ tmp = {} /\ Len(inbox["address"]) = 0
    BY Inbox, TypeInit DEF Init
  <1>2. \A a : ~Known(a)
    BY <1>1, TypeInit, KnownSettled
  <1>3. \A p \in Proc : ~AddrRuns(p)
    BY DEF Init, AddrRuns, Running
  <1>4. Told
    BY <1>1 DEF Told, Alternates
  <1> QED BY <1>1, <1>2, <1>3, <1>4 DEF FlagInv, ScriptInv, GlobalInv, EstbThere, Looked, EstbReal, AddrAt

LEMMA SettledFacts ==
    ASSUME TypeOK, Settled
    PROVE  /\ \A a : ~Leaving(a) /\ (Known(a) <=> a \in kernel)
           /\ \A p \in Proc : ~AddrRuns(p)
  BY KnownSettled, IpModeAssumption DEF Settled, AddrRuns

\* Once ipv6addressChange.sh has handled all there is, a global flag means that a managed
\* interface has an address of the family, however many of its scripts ran at once, unless
\* an address was deleted while the script of its own add was running.
THEOREM GlobalFlagTrue == Spec => []GlobalFlagIsReal
  <1>1. TypeOK /\ FlagInv => GlobalFlagIsReal
    <2> SUFFICES ASSUME TypeOK, FlagInv, Settled, NEW f \in Family, <<"delete", f>> \notin raced, Global[f] \in tmp
                 PROVE  Carries(f, {a \in Addr : IfcOf[a] \in Managed})
      BY DEF GlobalFlagIsReal
    <2>1. PICK a \in Addr : IfcOf[a] \in Managed /\ FamilyOf[a] = f /\ Known(a)
      BY SettledFacts DEF FlagInv, GlobalInv
    <2> QED BY <2>1, SettledFacts DEF Carries
  <1> QED BY <1>1, TypeInit, TypeStep, FlagInvInit, FlagInvStep, PTL DEF Spec

\* Once ipv6addressChange.sh has handled all there is, estb_ipv4 and estb_ipv6 are there for
\* every address that counts, unless an add was started beside the script of a delete of its
\* family; and for no other reason than an address, unless an address was deleted while the
\* script of its own add was running.
THEOREM EstbTrue == Spec => []EstbFollowsAddresses
  <1>1. TypeOK /\ FlagInv => EstbFollowsAddresses
    <2> SUFFICES ASSUME TypeOK, FlagInv, Settled, NEW f \in Family
                 PROVE  /\ <<"add", f>> \notin raced /\ Carries(f, Addr \ Ignored) => Estb[f] \in tmp
                        /\ <<"delete", f>> \notin raced /\ Estb[f] \in tmp =>
                              Carries(f, Addr) \/ \E a \in Ignored : FamilyOf[a] = f /\ f = "ipv6"
      BY DEF EstbFollowsAddresses
    <2>1. <<"add", f>> \notin raced /\ Carries(f, Addr \ Ignored) => Estb[f] \in tmp
      BY SettledFacts DEF FlagInv, EstbThere, Carries, AddrAt
    <2>2. <<"delete", f>> \notin raced /\ Estb[f] \in tmp =>
              Carries(f, Addr) \/ \E a \in Ignored : FamilyOf[a] = f /\ f = "ipv6"
      BY SettledFacts DEF FlagInv, EstbReal, Carries, AddrAt
    <2> QED BY <2>1, <2>2
  <1> QED BY <1>1, TypeInit, TypeStep, FlagInvInit, FlagInvStep, PTL DEF Spec
=================================================================================
