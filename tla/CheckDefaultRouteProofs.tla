------------------------- MODULE CheckDefaultRouteProofs -------------------------
(* Theorems about CheckDefaultRoute, for any routes, gateways and number of *)
(* scripts.                                                                *)
EXTENDS CheckDefaultRoute, TLAPS

-----------------------------------------------------------------------------
(* Type correctness.                                                       *)

Active == [at : AddSteps \cup DeleteSteps, gw : Gateway, kept : SUBSET Gateway]

\* A slot is free, or its script is at one of its commands and has a gateway.
LEMMA ActiveSlots ==
    /\ Done.at = "done" /\ Done \notin Active
    /\ \A s \in Active : s.at # "done" /\ s.at \in AddSteps \cup DeleteSteps
    /\ TypeOK => \A p \in Proc : /\ script[p] = Done \/ script[p] \in Active
                                 /\ script[p] = Done <=> script[p].at = "done"
  <1>1. /\ Done.at = "done" /\ Done \notin Active
        /\ \A s \in Active : s.at # "done" /\ s.at \in AddSteps \cup DeleteSteps
    BY DEF Done, Active, AddSteps, DeleteSteps
  <1> QED BY <1>1 DEF TypeOK, Active

\* What starting a script does to the slots.
LEMMA StartEffect ==
    ASSUME TypeOK, NEW first \in {"test", "sed"}, NEW g \in Gateway, Start(first, g)
    PROVE  /\ \/ script' = script
              \/ \E p \in Proc : /\ script[p] = Done
                                 /\ script' = [script EXCEPT ![p] =
                                                  [at |-> first, gw |-> g, kept |-> {}]]
           /\ UNCHANGED <<file, flag>>
  BY DEF Start

\* A slot takes a new value.
LEMMA SlotType ==
    ASSUME TypeOK, NEW p \in Proc, NEW s \in {Done} \cup Active,
           script' = [script EXCEPT ![p] = s], route' \in [Route -> Gateway \cup {NoGateway}],
           file' \in {NoFile} \cup SUBSET Gateway, flag' \in BOOLEAN
    PROVE  TypeOK'
  BY DEF TypeOK, Active

LEMMA StartType ==
    ASSUME TypeOK, NEW first \in {"test", "sed"}, NEW g \in Gateway, Start(first, g),
           route' \in [Route -> Gateway \cup {NoGateway}]
    PROVE  TypeOK'
  <1>1. [at |-> first, gw |-> g, kept |-> {}] \in Active
    BY DEF Active, AddSteps, DeleteSteps
  <1>2. UNCHANGED <<file, flag>>
    BY StartEffect
  <1>3. CASE script' = script
    BY <1>2, <1>3 DEF TypeOK
  <1>4. ASSUME NEW p \in Proc, script' = [script EXCEPT ![p] = [at |-> first, gw |-> g, kept |-> {}]]
        PROVE  TypeOK'
    BY <1>1, <1>2, <1>4, SlotType DEF TypeOK
  <1> QED BY <1>3, <1>4, StartEffect

\* What a command does to the slot of its script.
LEMMA GoType ==
    ASSUME TypeOK, NEW p \in Proc, NEW step \in AddSteps \cup DeleteSteps \cup {"done"},
           script[p] \in Active, Go(p, step), UNCHANGED route,
           file' \in {NoFile} \cup SUBSET Gateway, flag' \in BOOLEAN
    PROVE  TypeOK'
  <1>1. route' \in [Route -> Gateway \cup {NoGateway}]
    BY DEF TypeOK
  <1>2. CASE step = "done"
    BY <1>1, <1>2, SlotType DEF Go
  <1>3. CASE step # "done"
    <2>1. [script[p] EXCEPT !.at = step] \in Active
      BY <1>3 DEF Active
    <2> QED BY <1>1, <1>3, <2>1, SlotType DEF Go
  <1> QED BY <1>2, <1>3

LEMMA SedType == ASSUME TypeOK, NEW p \in Proc, Sed(p) PROVE TypeOK'
  <1>1. script[p] \in Active
    BY ActiveSlots DEF Sed, At
  <1>2. CASE file = NoFile
    BY <1>1, <1>2, GoType DEF Sed, Go, At, TypeOK, DeleteSteps
  <1>3. CASE file # NoFile
    <2>1. [script[p] EXCEPT !.at = "rename", !.kept = file \ Matches[script[p].gw]] \in Active
      BY <1>1, <1>3 DEF TypeOK, Active, DeleteSteps
    <2> QED BY <1>3, <2>1, SlotType DEF Sed, At, TypeOK
  <1> QED BY <1>2, <1>3

LEMMA ScriptStepType == ASSUME TypeOK, NEW p \in Proc, ScriptStep(p) PROVE TypeOK'
  <1>t. flag \in BOOLEAN /\ file \in {NoFile} \cup SUBSET Gateway /\ Lines \subseteq Gateway
    BY DEF TypeOK, Lines
  <1>a. script[p] \in Active /\ script[p].gw \in Gateway /\ script[p].kept \subseteq Gateway
    <2>1. script[p] \in Active
      BY ActiveSlots DEF ScriptStep, TestFlag, TouchFlag, Grep, AppendLine, Sed, Rename, TestSize,
                         RemoveFlag, At
    <2> QED BY <2>1 DEF Active
  <1>1. CASE TestFlag(p)
    BY <1>t, <1>a, <1>1, GoType DEF TestFlag, At, AddSteps
  <1>2. CASE TouchFlag(p)
    BY <1>t, <1>a, <1>2, GoType DEF TouchFlag, At, AddSteps
  <1>3. CASE Grep(p)
    BY <1>t, <1>a, <1>3, GoType DEF Grep, At, AddSteps
  <1>4. CASE AppendLine(p)
    BY <1>t, <1>a, <1>4, GoType DEF AppendLine, At
  <1>5. CASE Sed(p)
    BY <1>5, SedType
  <1>6. CASE Rename(p)
    BY <1>t, <1>a, <1>6, GoType DEF Rename, At, DeleteSteps
  <1>7. CASE TestSize(p)
    BY <1>t, <1>a, <1>7, GoType DEF TestSize, At, DeleteSteps
  <1>8. CASE RemoveFlag(p)
    BY <1>t, <1>a, <1>8, GoType DEF RemoveFlag, At
  <1> QED BY <1>1, <1>2, <1>3, <1>4, <1>5, <1>6, <1>7, <1>8 DEF ScriptStep

LEMMA RouteStepType == ASSUME TypeOK, NEW r \in Route, RouteAdded(r) \/ RouteDeleted(r) PROVE TypeOK'
  <1>1. ASSUME NEW g \in GatewaysOf[r], route' = [route EXCEPT ![r] = g], Start("test", g)
        PROVE  TypeOK'
    <2>1. g \in Gateway
      BY GatewaysAssumption
    <2> QED BY <1>1, <2>1, StartType DEF TypeOK
  <1>2. CASE RouteDeleted(r)
    <2>1. route[r] \in Gateway
      BY <1>2 DEF RouteDeleted, TypeOK
    <2> QED BY <1>2, <2>1, StartType DEF RouteDeleted, TypeOK
  <1> QED BY <1>1, <1>2 DEF RouteAdded

LEMMA StepType == TypeOK /\ [Next]_vars => TypeOK'
  <1>1. TypeOK /\ UNCHANGED vars => TypeOK'
    BY DEF TypeOK, vars
  <1> QED BY <1>1, ScriptStepType, RouteStepType DEF Next

LEMMA InitType == Init => TypeOK
  BY DEF Init, TypeOK

\* Every reachable state of the scripts, the flag and the file is well typed.
THEOREM TypeCorrect == Spec => []TypeOK
  <1> QED BY InitType, StepType, PTL DEF Spec

-----------------------------------------------------------------------------
(* The flag and the file, while deletes run alone.                         *)

\* FlagMatchesFile speaks of quiet states only.  In between, a line needs the
\* flag, an add that has seen to the flag relies on it, the flag may be without a
\* line only while a script is about to add one or to test for one, and sed
\* writes back only lines that are still there.
DeletesAlone ==
    \A p, q \in Proc : script[p].at \in DeleteSteps => q = p \/ script[q] = Done
FlagLines ==
    /\ Lines # {} => flag
    /\ \A p \in Proc : script[p].at \in {"grep", "append"} => flag
    /\ \A p \in Proc : script[p].at = "rm" => Lines = {}
    /\ flag => Lines # {} \/ \E p \in Proc : script[p].at \in {"grep", "append", "size", "rm"}
    /\ \A p \in Proc : script[p].at = "rename" => script[p].kept \subseteq Lines
FlagInv == TypeOK /\ DeletesAlone /\ FlagLines

\* The slots after a command that goes to a step.
LEMMA GoEffect ==
    ASSUME TypeOK, NEW p \in Proc, NEW step, Go(p, step)
    PROVE  /\ \A q \in Proc \ {p} : script'[q] = script[q]
           /\ script'[p].at = step
           /\ step = "done" => script'[p] = Done
           /\ step # "done" => script'[p].gw = script[p].gw /\ script'[p].kept = script[p].kept
  <1>1. script \in [Proc -> {Done} \cup Active]
    BY DEF TypeOK, Active
  <1>2. CASE step = "done"
    BY <1>1, <1>2 DEF Go, Done
  <1>3. CASE step # "done"
    BY <1>1, <1>3 DEF Go, Done, Active
  <1> QED BY <1>2, <1>3

\* The slots after sed has read the file.
LEMMA SedEffect ==
    ASSUME TypeOK, NEW p \in Proc, Sed(p)
    PROVE  /\ \A q \in Proc \ {p} : script'[q] = script[q]
           /\ script'[p].at = IF file = NoFile THEN "size" ELSE "rename"
           /\ script'[p].gw = script[p].gw
           /\ file # NoFile => script'[p].kept = file \ Matches[script[p].gw]
           /\ UNCHANGED <<file, flag, route>>
  <1>1. script[p] \in Active /\ script \in [Proc -> {Done} \cup Active]
    BY ActiveSlots DEF Sed, At, TypeOK, Active
  <1> QED BY <1>1 DEF Sed, At, Active

LEMMA AloneStep ==
    ASSUME TypeOK, DeletesAlone, NEW p \in Proc, ScriptStep(p)
    PROVE  DeletesAlone'
  <1>1. \A q \in Proc \ {p} : script'[q] = script[q]
    BY GoEffect, SedEffect DEF ScriptStep, TestFlag, TouchFlag, Grep, AppendLine, Rename, TestSize,
                               RemoveFlag
  <1>2. script[p].at \in AddSteps => script'[p].at \notin DeleteSteps
    BY GoEffect DEF ScriptStep, TestFlag, TouchFlag, Grep, AppendLine, Sed, Rename, TestSize,
                    RemoveFlag, At, AddSteps, DeleteSteps
  <1>3. script[p] # Done
    BY ActiveSlots DEF ScriptStep, TestFlag, TouchFlag, Grep, AppendLine, Sed, Rename, TestSize,
                       RemoveFlag, At
  <1>4. script[p].at \in AddSteps \cup DeleteSteps
    BY <1>3, ActiveSlots
  <1> QED BY <1>1, <1>2, <1>3, <1>4 DEF DeletesAlone

LEMMA AloneStart ==
    ASSUME ~CanOverlap, TypeOK, DeletesAlone, NEW first \in {"test", "sed"}, NEW g \in Gateway,
           Start(first, g)
    PROVE  DeletesAlone'
  <1>1. \A p \in Proc : script[p].at \notin DeleteSteps /\ (first = "sed" => script[p] = Done)
    BY ActiveSlots DEF Start, MayStart, AddSteps, DeleteSteps
  <1>2. CASE script' = script
    BY <1>2 DEF DeletesAlone
  <1>3. ASSUME NEW p \in Proc, script' = [script EXCEPT ![p] = [at |-> first, gw |-> g, kept |-> {}]]
        PROVE  DeletesAlone'
    <2>1. \A q \in Proc : script'[q] = IF q = p THEN [at |-> first, gw |-> g, kept |-> {}] ELSE script[q]
      BY <1>3 DEF TypeOK
    <2> QED BY <1>1, <2>1 DEF DeletesAlone, DeleteSteps
  <1> QED BY <1>2, <1>3, StartEffect

LEMMA FlagStart ==
    ASSUME FlagInv, NEW first \in {"test", "sed"}, NEW g \in Gateway, Start(first, g)
    PROVE  FlagLines'
  <1>1. UNCHANGED <<file, flag>> /\ Lines' = Lines /\ TypeOK
    BY StartEffect DEF Lines, FlagInv
  <1>2. CASE script' = script
    BY <1>1, <1>2 DEF FlagInv, FlagLines
  <1>3. ASSUME NEW p \in Proc, script[p] = Done,
               script' = [script EXCEPT ![p] = [at |-> first, gw |-> g, kept |-> {}]]
        PROVE  FlagLines'
    <2>1. \A q \in Proc : /\ script'[q].at = IF q = p THEN first ELSE script[q].at
                          /\ q # p => script'[q] = script[q]
      BY <1>1, <1>3 DEF TypeOK
    <2>2. script[p].at = "done"
      BY <1>3, ActiveSlots
    <2> QED BY <1>1, <2>1, <2>2 DEF FlagInv, FlagLines
  <1> QED BY <1>1, <1>2, <1>3, StartEffect

LEMMA FlagStep == ASSUME FlagInv, NEW p \in Proc, ScriptStep(p) PROVE FlagLines'
  <1>t. TypeOK /\ FlagLines /\ DeletesAlone
    BY DEF FlagInv
  <1>d. script[p].at \in DeleteSteps => \A q \in Proc \ {p} : script[q].at = "done"
    BY <1>t, ActiveSlots DEF DeletesAlone
  <1>1. CASE TestFlag(p)
    BY <1>t, <1>1, GoEffect DEF TestFlag, At, FlagLines, Lines
  <1>2. CASE TouchFlag(p)
    BY <1>t, <1>2, GoEffect DEF TouchFlag, At, FlagLines, Lines
  <1>3. CASE Grep(p)
    BY <1>t, <1>3, GoEffect DEF Grep, At, FlagLines, Lines
  <1>4. CASE AppendLine(p)
    <2>1. \A q \in Proc : script[q].at \notin DeleteSteps
      BY <1>t, <1>4, ActiveSlots DEF DeletesAlone, AppendLine, At, DeleteSteps
    <2>2. script[p].gw \in Gateway /\ Lines \subseteq Gateway
      BY <1>t, <1>4, ActiveSlots DEF AppendLine, At, Active, TypeOK, Lines
    <2>3. Lines' = Lines \cup {script[p].gw} /\ flag /\ flag'
      BY <1>t, <1>4, <2>2, GatewaysAssumption DEF AppendLine, At, Lines, FlagLines
    <2> QED BY <1>t, <1>4, <2>1, <2>3, GoEffect DEF AppendLine, FlagLines, DeleteSteps
  <1>5. CASE Sed(p)
    <2>s. script[p].at = "sed"
      BY <1>5 DEF Sed, At
    <2>l. Lines' = Lines /\ flag' = flag
      BY <1>t, <1>5, SedEffect DEF Lines
    <2>a. script'[p].at = IF file = NoFile THEN "size" ELSE "rename"
      BY <1>t, <1>5, SedEffect
    <2>k. file # NoFile => script'[p].kept \subseteq file
      BY <1>t, <1>5, SedEffect
    <2>1. /\ script[p].at = "sed" /\ Lines' = Lines /\ flag' = flag
          /\ script'[p].at \in {"size", "rename"}
          /\ script'[p].at = "rename" => script'[p].kept \subseteq Lines
      BY <2>s, <2>l, <2>a, <2>k DEF Lines
    <2>2. \A q \in Proc \ {p} : script'[q] = script[q] /\ script[q].at = "done"
      BY <1>t, <1>d, <1>5, <2>1, SedEffect DEF DeleteSteps
    <2>3. flag => Lines # {}
      BY <1>t, <2>1, <2>2 DEF FlagLines
    <2> QED BY <1>t, <2>1, <2>2, <2>3 DEF FlagLines
  <1>6. CASE Rename(p)
    <2>1. script[p].kept \subseteq Lines /\ script[p].kept \subseteq Gateway
      BY <1>t, <1>6, ActiveSlots DEF Rename, At, FlagLines, Active
    <2>2. Lines' = script[p].kept /\ flag' = flag
      BY <1>6, <2>1, GatewaysAssumption DEF Rename, Lines
    <2> QED BY <1>t, <1>d, <1>6, <2>1, <2>2, GoEffect DEF Rename, At, FlagLines, DeleteSteps
  <1>7. CASE TestSize(p)
    BY <1>t, <1>d, <1>7, GoEffect DEF TestSize, At, FlagLines, Lines, DeleteSteps
  <1>8. CASE RemoveFlag(p)
    BY <1>t, <1>d, <1>8, GoEffect DEF RemoveFlag, At, FlagLines, Lines, DeleteSteps
  <1> QED BY <1>1, <1>2, <1>3, <1>4, <1>5, <1>6, <1>7, <1>8 DEF ScriptStep

LEMMA FlagInvStep == ASSUME ~CanOverlap PROVE FlagInv /\ [Next]_vars => FlagInv'
  <1> SUFFICES ASSUME FlagInv, [Next]_vars PROVE FlagInv'
    OBVIOUS
  <1>t. TypeOK /\ TypeOK'
    BY StepType DEF FlagInv
  <1>1. ASSUME NEW r \in Route, RouteAdded(r) PROVE FlagInv'
    <2>1. PICK g \in Gateway : Start("test", g)
      BY <1>1, GatewaysAssumption DEF RouteAdded
    <2> QED BY <1>t, <2>1, AloneStart, FlagStart DEF FlagInv
  <1>2. ASSUME NEW r \in Route, RouteDeleted(r) PROVE FlagInv'
    <2>1. route[r] \in Gateway
      BY <1>t, <1>2 DEF RouteDeleted, TypeOK
    <2> QED BY <1>t, <1>2, <2>1, AloneStart, FlagStart DEF FlagInv, RouteDeleted
  <1>3. ASSUME NEW p \in Proc, ScriptStep(p) PROVE FlagInv'
    BY <1>t, <1>3, AloneStep, FlagStep DEF FlagInv
  <1>4. CASE UNCHANGED vars
    BY <1>t, <1>4 DEF FlagInv, FlagLines, DeletesAlone, Lines, vars
  <1> QED BY <1>1, <1>2, <1>3, <1>4 DEF Next

LEMMA FlagInvInit == Init => FlagInv
  BY InitType DEF Init, FlagInv, FlagLines, DeletesAlone, Lines, Done, DeleteSteps

\* Whatever the messages say, and however adds overlap, the flag exists exactly
\* while the file has a line (checkDefaultRoute.sh:42-66), in every state in
\* which no script runs, as long as a delete's script runs alone.
THEOREM FlagIsRight == ASSUME ~CanOverlap PROVE Spec => []FlagMatchesFile
  <1>1. FlagInv => FlagMatchesFile
    BY DEF FlagInv, FlagLines, FlagMatchesFile, Quiet, Done
  <1>2. FlagInv /\ [Next]_vars => FlagInv'
    BY FlagInvStep
  <1> QED BY <1>1, <1>2, FlagInvInit, PTL DEF Spec

-----------------------------------------------------------------------------
(* The file and the routes.                                                *)

\* Deletes run alone, every message is complete, no gateway is part of another, and
\* no two routes share one.
Apart ==
    /\ ~CanOverlap /\ Words = {7}
    /\ \A g \in Gateway : Matches[g] = {g}
    /\ \A r, s \in Route : r # s => GatewaysOf[r] \cap GatewaysOf[s] = {}

HasRoute(g) == \E r \in Route : route[r] = g
IsRemoving(p, g) == script[p].at \in {"sed", "rename"} /\ script[p].gw = g
IsAdding(p, g) == script[p].at \in AddSteps /\ script[p].gw = g

\* Every route has its line or a script that is about to write it, and what a delete
\* is about to drop has no route.
RouteLines ==
    /\ \A r \in Route : route[r] \in GatewaysOf[r] \cup {NoGateway}
    /\ \A p \in Proc : script[p].at \in {"sed", "rename"} => ~HasRoute(script[p].gw)
    /\ \A p \in Proc : script[p].at = "rename" => script[p].kept = Lines \ {script[p].gw}
    /\ \A g \in Gateway : HasRoute(g) => g \in Lines \/ \E p \in Proc : IsAdding(p, g)
ApartInv == FlagInv /\ RouteLines

\* A script that starts takes a free slot.
LEMMA ApartStart ==
    ASSUME Apart, TypeOK, NEW first \in {"test", "sed"}, NEW g \in Gateway, Start(first, g)
    PROVE  /\ Lines' = Lines
           /\ \E p \in Proc : /\ script[p].at = "done"
                              /\ script'[p] = [at |-> first, gw |-> g, kept |-> {}]
                              /\ \A q \in Proc \ {p} : script'[q] = script[q]
           /\ \A p \in Proc : script[p].at \in {"done"} \cup (IF first = "test" THEN AddSteps ELSE {})
  BY ActiveSlots DEF Apart, Start, MayStart, Lines, TypeOK

LEMMA AddedKeeps ==
    ASSUME Apart, ApartInv, NEW r \in Route, NEW g \in GatewaysOf[r],
           route' = [route EXCEPT ![r] = g], Start("test", g)
    PROVE  RouteLines'
  <1>t. TypeOK /\ RouteLines /\ g \in Gateway
    BY GatewaysAssumption DEF ApartInv, FlagInv
  <1>1. PICK p \in Proc : /\ script[p].at = "done"
                          /\ script'[p] = [at |-> "test", gw |-> g, kept |-> {}]
                          /\ \A q \in Proc \ {p} : script'[q] = script[q]
    BY <1>t, ApartStart
  <1>2. Lines' = Lines /\ \A q \in Proc : script[q].at \in {"done"} \cup AddSteps
    BY <1>t, ApartStart
  <1>3. \A s \in Route : route'[s] = IF s = r THEN g ELSE route[s]
    BY <1>t DEF TypeOK
  <1>4. \A h \in Gateway : HasRoute(h)' => HasRoute(h) \/ h = g
    BY <1>3 DEF HasRoute
  <1>5. \A q \in Proc : script[q].at # "done" => script'[q] = script[q]
    BY <1>1
  <1>6. \A q \in Proc : script'[q].at \in {"done"} \cup AddSteps
    BY <1>1, <1>2 DEF AddSteps
  <1>7. \A h \in Gateway : HasRoute(h)' => h \in Lines \/ \E q \in Proc : IsAdding(q, h)'
    <2> SUFFICES ASSUME NEW h \in Gateway, HasRoute(h)', h \notin Lines PROVE \E q \in Proc : IsAdding(q, h)'
      OBVIOUS
    <2>1. CASE h = g
      BY <1>1, <2>1 DEF IsAdding, AddSteps
    <2>2. CASE h # g
      <3>1. PICK q \in Proc : IsAdding(q, h)
        BY <1>t, <1>4, <2>2 DEF RouteLines
      <3>2. script'[q] = script[q]
        BY <1>5, <3>1 DEF IsAdding, AddSteps
      <3> QED BY <3>1, <3>2 DEF IsAdding
    <2> QED BY <2>1, <2>2
  <1>8. \A s \in Route : route'[s] \in GatewaysOf[s] \cup {NoGateway}
    BY <1>t, <1>3 DEF RouteLines
  <1> QED BY <1>2, <1>6, <1>7, <1>8 DEF RouteLines, AddSteps, IsAdding

\* What deleting a route does: the one script is that of the delete, and no other
\* route has the gateway.
LEMMA DeletedEffect ==
    ASSUME Apart, ApartInv, NEW r \in Route, RouteDeleted(r), NEW g, g = route[r]
    PROVE  /\ g \in Gateway /\ Lines' = Lines
           /\ \A q \in Proc : script[q].at = "done"
           /\ \E p \in Proc : /\ script'[p] = [at |-> "sed", gw |-> g, kept |-> {}]
                              /\ \A q \in Proc \ {p} : script'[q] = script[q]
           /\ \A s \in Route : route'[s] = IF s = r THEN NoGateway ELSE route[s]
           /\ \A s \in Route : route'[s] # g
           /\ \A h \in Gateway : HasRoute(h)' <=> HasRoute(h) /\ h # g
  <1>t. TypeOK /\ RouteLines /\ g \in Gateway /\ g \in GatewaysOf[r] /\ g # NoGateway
    BY DEF ApartInv, FlagInv, RouteDeleted, TypeOK, RouteLines
  <1>s. Start("sed", g) /\ route' = [route EXCEPT ![r] = NoGateway]
    BY DEF RouteDeleted
  <1>a. PICK p \in Proc : /\ script[p].at = "done"
                          /\ script'[p] = [at |-> "sed", gw |-> g, kept |-> {}]
                          /\ \A q \in Proc \ {p} : script'[q] = script[q]
    BY <1>t, <1>s, ApartStart
  <1>b. Lines' = Lines /\ \A q \in Proc : script[q].at = "done"
    BY <1>t, <1>s, ApartStart
  <1>1. \E x \in Proc : /\ script'[x] = [at |-> "sed", gw |-> g, kept |-> {}]
                        /\ \A q \in Proc \ {x} : script'[q] = script[q]
    <2> WITNESS p \in Proc
    <2> QED BY <1>a
  <1>2. \A s \in Route : route'[s] = IF s = r THEN NoGateway ELSE route[s]
    BY <1>t, <1>s DEF TypeOK
  <1>3. \A s \in Route \ {r} : route[s] # g
    BY <1>t DEF Apart, RouteLines
  <1>4. \A h \in Gateway : HasRoute(h)' <=> HasRoute(h) /\ h # g
    BY <1>t, <1>2, <1>3, GatewaysAssumption DEF HasRoute
  <1> QED BY <1>t, <1>b, <1>1, <1>2, <1>3, <1>4

LEMMA DeletedKeeps ==
    ASSUME Apart, ApartInv, NEW r \in Route, RouteDeleted(r)
    PROVE  RouteLines'
  <1>1. PICK g : g = route[r]
    OBVIOUS
  <1>2. PICK p \in Proc : /\ script'[p] = [at |-> "sed", gw |-> g, kept |-> {}]
                          /\ \A q \in Proc \ {p} : script'[q] = script[q]
    BY <1>1, DeletedEffect
  <1>3. /\ Lines' = Lines /\ \A q \in Proc : script[q].at = "done"
        /\ \A s \in Route : route'[s] = IF s = r THEN NoGateway ELSE route[s]
        /\ \A s \in Route : route'[s] # g
        /\ \A h \in Gateway : HasRoute(h)' <=> HasRoute(h) /\ h # g
    BY <1>1, DeletedEffect
  <1>4. RouteLines
    BY DEF ApartInv
  <1>5. \A q \in Proc : script'[q].at = IF q = p THEN "sed" ELSE "done"
    BY <1>2, <1>3
  <1>6. \A h \in Gateway : HasRoute(h)' => h \in Lines
    BY <1>3, <1>4 DEF RouteLines, IsAdding, AddSteps
  <1>7. ~HasRoute(script[p].gw)'
    BY <1>2, <1>3 DEF HasRoute
  <1>8. \A s \in Route : route'[s] \in GatewaysOf[s] \cup {NoGateway}
    BY <1>3, <1>4 DEF RouteLines
  <1> QED BY <1>3, <1>5, <1>6, <1>7, <1>8 DEF RouteLines, AddSteps, IsAdding

\* What a command does to the other slots, the routes and the file.
LEMMA StepEffect ==
    ASSUME TypeOK, NEW p \in Proc, ScriptStep(p)
    PROVE  /\ \A q \in Proc \ {p} : script'[q] = script[q]
           /\ UNCHANGED route /\ \A g : HasRoute(g)' <=> HasRoute(g)
           /\ script[p].gw \in Gateway /\ Lines \subseteq Gateway /\ script[p].kept \subseteq Gateway
           /\ Lines' = IF script[p].at = "append" THEN Lines \cup {script[p].gw}
                       ELSE IF script[p].at = "rename" THEN script[p].kept ELSE Lines
  <1>1. \A q \in Proc \ {p} : script'[q] = script[q]
    BY GoEffect, SedEffect DEF ScriptStep, TestFlag, TouchFlag, Grep, AppendLine, Rename, TestSize, RemoveFlag
  <1>2. UNCHANGED route /\ \A g : HasRoute(g)' <=> HasRoute(g)
    BY DEF ScriptStep, TestFlag, TouchFlag, Grep, AppendLine, Sed, Rename, TestSize, RemoveFlag, At, HasRoute
  <1>3. script[p].gw \in Gateway /\ Lines \subseteq Gateway /\ script[p].kept \subseteq Gateway
    <2>1. script[p] \in Active
      BY ActiveSlots DEF ScriptStep, TestFlag, TouchFlag, Grep, AppendLine, Sed, Rename, TestSize, RemoveFlag, At
    <2> QED BY <2>1 DEF Active, Lines, TypeOK
  <1>4. Lines' = IF script[p].at = "append" THEN Lines \cup {script[p].gw}
                 ELSE IF script[p].at = "rename" THEN script[p].kept ELSE Lines
    <2>1. CASE AppendLine(p)
      BY <1>3, <2>1, GatewaysAssumption DEF AppendLine, At, Lines
    <2>2. CASE Rename(p)
      BY <1>3, <2>2, GatewaysAssumption DEF Rename, At, Lines
    <2>3. CASE TestFlag(p) \/ TouchFlag(p) \/ Grep(p) \/ Sed(p) \/ TestSize(p) \/ RemoveFlag(p)
      <3>1. UNCHANGED file /\ script[p].at \in {"test", "touch", "grep", "sed", "size", "rm"}
        BY <2>3 DEF TestFlag, TouchFlag, Grep, Sed, TestSize, RemoveFlag, At
      <3> QED BY <3>1 DEF Lines
    <2> QED BY <2>1, <2>2, <2>3 DEF ScriptStep
  <1> QED BY <1>1, <1>2, <1>3, <1>4

\* Where a script goes: an add that ends leaves the line behind, a delete's rename
\* has read all the other lines.
LEMMA StepGoes ==
    ASSUME Apart, TypeOK, NEW p \in Proc, ScriptStep(p)
    PROVE  \/ /\ script[p].at \in AddSteps
              /\ \/ script'[p].at \in AddSteps /\ script'[p].gw = script[p].gw
                 \/ script'[p].at = "done" /\ script[p].gw \in Lines'
           \/ script[p].at \in {"size", "rm"} /\ script'[p].at \in {"rm", "done"}
           \/ /\ script[p].at = "sed" /\ script'[p].gw = script[p].gw
              /\ \/ script'[p].at = "rename" /\ script'[p].kept = Lines \ {script[p].gw}
                 \/ script'[p].at = "size" /\ Lines = {}
           \/ script[p].at = "rename" /\ script'[p].at = "size"
  <1>1. Matches[script[p].gw] = {script[p].gw}
    BY StepEffect DEF Apart
  <1>2. CASE TestFlag(p) \/ TouchFlag(p) \/ Grep(p)
    <2>1. Lines' = Lines /\ script[p].at \in AddSteps
      BY <1>2 DEF TestFlag, TouchFlag, Grep, At, Lines, AddSteps
    <2> QED BY <1>1, <1>2, <2>1, GoEffect DEF TestFlag, TouchFlag, Grep, AddSteps
  <1>3. CASE AppendLine(p)
    BY <1>3, GoEffect, StepEffect DEF AppendLine, At, AddSteps
  <1>4. CASE TestSize(p) \/ RemoveFlag(p)
    BY <1>4, GoEffect DEF TestSize, RemoveFlag, At
  <1>5. CASE Sed(p)
    BY <1>1, <1>5, SedEffect DEF Sed, At, Lines
  <1>6. CASE Rename(p)
    BY <1>6, GoEffect DEF Rename, At
  <1> QED BY <1>2, <1>3, <1>4, <1>5, <1>6 DEF ScriptStep

LEMMA StepKeeps == ASSUME Apart, ApartInv, NEW p \in Proc, ScriptStep(p) PROVE RouteLines'
  <1>t. TypeOK /\ RouteLines /\ DeletesAlone
    BY DEF ApartInv, FlagInv
  <1>e. /\ \A q \in Proc \ {p} : script'[q] = script[q]
        /\ UNCHANGED route /\ \A g : HasRoute(g)' <=> HasRoute(g)
        /\ Lines' = IF script[p].at = "append" THEN Lines \cup {script[p].gw}
                    ELSE IF script[p].at = "rename" THEN script[p].kept ELSE Lines
    BY <1>t, StepEffect
  <1>g. \/ /\ script[p].at \in AddSteps
           /\ \/ script'[p].at \in AddSteps /\ script'[p].gw = script[p].gw
              \/ script'[p].at = "done" /\ script[p].gw \in Lines'
        \/ script[p].at \in {"size", "rm"} /\ script'[p].at \in {"rm", "done"}
        \/ /\ script[p].at = "sed" /\ script'[p].gw = script[p].gw
           /\ \/ script'[p].at = "rename" /\ script'[p].kept = Lines \ {script[p].gw}
              \/ script'[p].at = "size" /\ Lines = {}
        \/ script[p].at = "rename" /\ script'[p].at = "size"
    BY <1>t, StepGoes
  <1>d. script[p].at \in AddSteps => \A q \in Proc : script[q].at \notin DeleteSteps
    BY <1>t, ActiveSlots DEF DeletesAlone, AddSteps, DeleteSteps
  <1>1. \A q \in Proc : script'[q].at \in {"sed", "rename"} => ~HasRoute(script'[q].gw)
    BY <1>t, <1>e, <1>g DEF RouteLines, AddSteps
  <1>2. ASSUME NEW q \in Proc, script'[q].at = "rename" PROVE script'[q].kept = Lines' \ {script'[q].gw}
    <2>1. CASE q = p
      BY <1>e, <1>g, <1>2, <2>1 DEF AddSteps
    <2>2. CASE q # p
      <3>1. script'[q] = script[q] /\ script[q].at = "rename"
        BY <1>e, <1>2, <2>2
      <3>2. script[p].at \notin AddSteps /\ script[p].at # "rename"
        BY <1>t, <1>d, <2>2, <3>1, ActiveSlots DEF DeletesAlone, DeleteSteps
      <3>3. Lines' = Lines
        BY <1>e, <3>2 DEF AddSteps
      <3> QED BY <1>t, <3>1, <3>3 DEF RouteLines
    <2> QED BY <2>1, <2>2
  <1>3. \A g \in Gateway : HasRoute(g) => g \in Lines' \/ \E q \in Proc : IsAdding(q, g)'
    <2> SUFFICES ASSUME NEW g \in Gateway, HasRoute(g), g \notin Lines' PROVE \E q \in Proc : IsAdding(q, g)'
      OBVIOUS
    <2>1. g \notin Lines
      BY <1>t, <1>e DEF RouteLines
    <2>2. PICK q \in Proc : IsAdding(q, g)
      BY <1>t, <2>1 DEF RouteLines
    <2>3. CASE q = p
      BY <1>g, <2>2, <2>3 DEF IsAdding, AddSteps
    <2>4. CASE q # p
      BY <1>e, <2>2, <2>4 DEF IsAdding
    <2> QED BY <2>3, <2>4
  <1> QED BY <1>t, <1>e, <1>1, <1>2, <1>3 DEF RouteLines

LEMMA ApartInvStep == ASSUME Apart PROVE ApartInv /\ [Next]_vars => ApartInv'
  <1> SUFFICES ASSUME ApartInv, [Next]_vars PROVE ApartInv'
    OBVIOUS
  <1>1. FlagInv'
    BY FlagInvStep DEF Apart, ApartInv
  <1>2. ASSUME NEW r \in Route, RouteAdded(r) PROVE RouteLines'
    BY <1>2, AddedKeeps DEF RouteAdded
  <1>3. ASSUME UNCHANGED vars PROVE RouteLines'
    <2>1. Lines' = Lines /\ UNCHANGED <<route, script>>
      BY <1>3 DEF Lines, vars
    <2> QED BY <2>1 DEF ApartInv, RouteLines, HasRoute, IsAdding
  <1> QED BY <1>1, <1>2, <1>3, DeletedKeeps, StepKeeps DEF Next, ApartInv

LEMMA ApartInvInit == Init => ApartInv
  <1> SUFFICES ASSUME Init PROVE RouteLines
    BY FlagInvInit DEF ApartInv
  <1>1. Lines = {} /\ \A g \in Gateway : ~HasRoute(g)
    BY GatewaysAssumption DEF Init, Lines, HasRoute
  <1>2. \A p \in Proc : script[p].at = "done"
    BY DEF Init, Done
  <1> QED BY <1>1, <1>2 DEF Init, RouteLines

\* While deletes run alone, each route has a gateway of its own and no gateway is part
\* of another, the file has the gateway of every default route whenever no script runs,
\* however many adds' scripts ran at once and however often routes changed gateway.
THEOREM RoutesHaveLines == ASSUME Apart PROVE Spec => []GatewayHasLine
  <1>1. ASSUME ApartInv PROVE GatewayHasLine
    <2>1. \A r \in Route : route[r] # NoGateway => route[r] \in Gateway /\ HasRoute(route[r])
      BY <1>1 DEF ApartInv, FlagInv, TypeOK, HasRoute
    <2> QED BY <1>1, <2>1 DEF ApartInv, RouteLines, IsAdding, AddSteps, GatewayHasLine, Quiet, Done
  <1>2. ApartInv /\ [Next]_vars => ApartInv'
    BY ApartInvStep
  <1> QED BY <1>1, <1>2, ApartInvInit, PTL DEF Spec

\* On the same terms the flag is there while there is a default route.
THEOREM FlagWhileRoute == ASSUME Apart PROVE Spec => []RouteHasFlag
  <1>1. FlagMatchesFile /\ GatewayHasLine => RouteHasFlag
    BY DEF FlagMatchesFile, GatewayHasLine, RouteHasFlag
  <1>2. Spec => []FlagMatchesFile
    BY FlagIsRight DEF Apart
  <1>3. Spec => []GatewayHasLine
    BY RoutesHaveLines
  <1> QED BY <1>1, <1>2, <1>3, PTL

-----------------------------------------------------------------------------
(* Lines without a route, when no route changes its gateway.               *)

Calm == Apart /\ ~CanReplace

\* An add's script has its route, and every line its route or a script that is about
\* to drop it.
LinesRoutes ==
    /\ \A p \in Proc : script[p].at \in AddSteps => HasRoute(script[p].gw)
    /\ \A g \in Lines : HasRoute(g) \/ \E p \in Proc : IsRemoving(p, g)
CalmInv == ApartInv /\ LinesRoutes

LEMMA CalmAdded ==
    ASSUME Calm, CalmInv, NEW r \in Route, NEW g \in GatewaysOf[r], route[r] \in {NoGateway, g},
           route' = [route EXCEPT ![r] = g], Start("test", g)
    PROVE  LinesRoutes'
  <1>t. TypeOK /\ LinesRoutes /\ g \in Gateway /\ Lines \subseteq Gateway
    BY GatewaysAssumption DEF CalmInv, ApartInv, FlagInv, Lines, TypeOK
  <1>1. PICK p \in Proc : /\ script[p].at = "done"
                          /\ script'[p] = [at |-> "test", gw |-> g, kept |-> {}]
                          /\ \A q \in Proc \ {p} : script'[q] = script[q]
    BY <1>t, ApartStart DEF Calm
  <1>2. Lines' = Lines /\ \A q \in Proc : script[q].at \in {"done"} \cup AddSteps
    BY <1>t, ApartStart DEF Calm
  <1>3. \A s \in Route : route'[s] = IF s = r THEN g ELSE route[s]
    BY <1>t DEF TypeOK
  <1>4. \A h \in Gateway : HasRoute(h)' <=> HasRoute(h) \/ h = g
    BY <1>3, GatewaysAssumption DEF HasRoute
  <1>5. \A q \in Proc : script'[q].at \in AddSteps => HasRoute(script[q].gw)'
    <2> SUFFICES ASSUME NEW q \in Proc, script'[q].at \in AddSteps
                 PROVE  \E h \in Gateway : h = script'[q].gw /\ HasRoute(h)'
      BY DEF HasRoute
    <2>1. CASE q = p
      BY <1>t, <1>1, <1>4, <2>1
    <2>2. CASE q # p
      <3>1. script'[q] = script[q] /\ script[q].gw \in Gateway
        BY <1>t, <1>1, <2>2, ActiveSlots DEF Active, AddSteps
      <3> QED BY <1>t, <1>4, <3>1 DEF LinesRoutes
    <2> QED BY <2>1, <2>2
  <1>6. \A h \in Lines : HasRoute(h)'
    BY <1>t, <1>2, <1>4 DEF LinesRoutes, IsRemoving, AddSteps
  <1> QED BY <1>2, <1>5, <1>6 DEF LinesRoutes

LEMMA CalmDeleted ==
    ASSUME Calm, CalmInv, NEW r \in Route, RouteDeleted(r)
    PROVE  LinesRoutes'
  <1>1. PICK g : g = route[r]
    OBVIOUS
  <1>t. Apart /\ ApartInv /\ LinesRoutes /\ Lines \subseteq Gateway
    BY DEF Calm, CalmInv, ApartInv, FlagInv, Lines, TypeOK
  <1>2. PICK p \in Proc : /\ script'[p] = [at |-> "sed", gw |-> g, kept |-> {}]
                          /\ \A q \in Proc \ {p} : script'[q] = script[q]
    BY <1>t, <1>1, DeletedEffect
  <1>3. /\ Lines' = Lines /\ \A q \in Proc : script[q].at = "done"
        /\ \A h \in Gateway : HasRoute(h)' <=> HasRoute(h) /\ h # g
    BY <1>t, <1>1, DeletedEffect
  <1>4. \A h \in Lines : HasRoute(h)
    BY <1>t, <1>3 DEF LinesRoutes, IsRemoving
  <1>5. IsRemoving(p, g)'
    BY <1>2 DEF IsRemoving
  <1>6. \A q \in Proc : script'[q].at \notin AddSteps
    BY <1>2, <1>3 DEF AddSteps
  <1> QED BY <1>t, <1>3, <1>4, <1>5, <1>6 DEF LinesRoutes

LEMMA CalmStep == ASSUME Calm, CalmInv, NEW p \in Proc, ScriptStep(p) PROVE LinesRoutes'
  <1>t. Apart /\ TypeOK /\ RouteLines /\ LinesRoutes /\ DeletesAlone
    BY DEF Calm, CalmInv, ApartInv, FlagInv
  <1>e. /\ \A q \in Proc \ {p} : script'[q] = script[q]
        /\ \A g : HasRoute(g)' <=> HasRoute(g)
        /\ Lines' = IF script[p].at = "append" THEN Lines \cup {script[p].gw}
                    ELSE IF script[p].at = "rename" THEN script[p].kept ELSE Lines
    BY <1>t, StepEffect
  <1>g. \/ /\ script[p].at \in AddSteps
           /\ \/ script'[p].at \in AddSteps /\ script'[p].gw = script[p].gw
              \/ script'[p].at = "done" /\ script[p].gw \in Lines'
        \/ script[p].at \in {"size", "rm"} /\ script'[p].at \in {"rm", "done"}
        \/ /\ script[p].at = "sed" /\ script'[p].gw = script[p].gw
           /\ \/ script'[p].at = "rename" /\ script'[p].kept = Lines \ {script[p].gw}
              \/ script'[p].at = "size" /\ Lines = {}
        \/ script[p].at = "rename" /\ script'[p].at = "size"
    BY <1>t, StepGoes
  <1>1. \A q \in Proc : script'[q].at \in AddSteps => HasRoute(script'[q].gw)
    BY <1>t, <1>e, <1>g DEF LinesRoutes, AddSteps
  <1>2. ASSUME NEW g \in Lines', ~HasRoute(g) PROVE \E q \in Proc : IsRemoving(q, g)'
    <2>1. g \in Lines
      BY <1>t, <1>e, <1>2 DEF RouteLines, LinesRoutes, AddSteps
    <2>2. PICK q \in Proc : IsRemoving(q, g)
      BY <1>t, <1>2, <2>1 DEF LinesRoutes
    <2>3. CASE q = p
      BY <1>t, <1>e, <1>g, <1>2, <2>1, <2>2, <2>3 DEF IsRemoving, AddSteps, RouteLines
    <2>4. CASE q # p
      BY <1>e, <2>2, <2>4 DEF IsRemoving
    <2> QED BY <2>3, <2>4
  <1> QED BY <1>e, <1>1, <1>2 DEF LinesRoutes

LEMMA CalmInvStep == ASSUME Calm PROVE CalmInv /\ [Next]_vars => CalmInv'
  <1> SUFFICES ASSUME CalmInv, [Next]_vars PROVE CalmInv'
    OBVIOUS
  <1>1. ApartInv'
    BY ApartInvStep DEF Calm, CalmInv
  <1>2. ASSUME NEW r \in Route, RouteAdded(r) PROVE LinesRoutes'
    BY <1>2, CalmAdded DEF RouteAdded, Calm
  <1>3. ASSUME UNCHANGED vars PROVE LinesRoutes'
    <2>1. Lines' = Lines /\ UNCHANGED <<route, script>>
      BY <1>3 DEF Lines, vars
    <2> QED BY <2>1 DEF CalmInv, LinesRoutes, HasRoute, IsRemoving
  <1> QED BY <1>1, <1>2, <1>3, CalmDeleted, CalmStep DEF Next, CalmInv

LEMMA CalmInvInit == Init => CalmInv
  <1> SUFFICES ASSUME Init PROVE LinesRoutes
    BY ApartInvInit DEF CalmInv
  <1>1. Lines = {} /\ \A p \in Proc : script[p].at = "done"
    BY GatewaysAssumption DEF Init, Lines, Done
  <1> QED BY <1>1 DEF LinesRoutes, AddSteps

\* If besides no route changes its gateway, the file has no other line: once the last
\* default route is deleted, neither a line nor the flag is left.
THEOREM FileFollowsRoutes == ASSUME Calm PROVE Spec => []NoRouteNoTrace
  <1>1. ASSUME CalmInv PROVE NoRouteNoTrace
    <2> SUFFICES ASSUME Quiet, \A r \in Route : route[r] = NoGateway PROVE ~flag /\ Lines = {}
      BY DEF NoRouteNoTrace
    <2>1. \A p \in Proc : script[p].at = "done"
      BY DEF Quiet, Done
    <2>2. Lines \subseteq Gateway
      BY <1>1 DEF CalmInv, ApartInv, FlagInv, TypeOK, Lines
    <2>3. Lines = {}
      BY <1>1, <2>1, <2>2, GatewaysAssumption DEF CalmInv, LinesRoutes, HasRoute, IsRemoving
    <2> QED BY <1>1, <2>1, <2>3 DEF CalmInv, ApartInv, FlagInv, FlagLines
  <1>2. CalmInv /\ [Next]_vars => CalmInv'
    BY CalmInvStep
  <1> QED BY <1>1, <1>2, CalmInvInit, PTL DEF Spec
=================================================================================
