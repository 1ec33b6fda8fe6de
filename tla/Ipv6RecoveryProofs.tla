---------------------------- MODULE Ipv6RecoveryProofs ----------------------------
(* Theorems about Ipv6Recovery, for any addresses, sleep and number of      *)
(* scripts.                                                                *)
EXTENDS Ipv6Recovery, TLAPS

-----------------------------------------------------------------------------
(* Type correctness.                                                       *)

LEMMA Bounds ==
    /\ Sleep \in Nat \ {0} /\ MaxRestarts \in Nat /\ Off \notin Nat
    /\ 0 \in 0..Sleep + 1 /\ 0 \in 0..MaxRestarts /\ Sleep \in 0..Sleep
  BY SleepAssumption, BoundsAssumption

Steps == {"done", "uptime", "query", "touch", "fork", "test", "rm"}

LEMMA GoType ==
    ASSUME TypeOK, NEW p \in Proc, NEW step \in Steps, Go(p, step)
    PROVE  script' \in [Proc -> Steps]
  BY DEF Go, TypeOK, Steps

LEMMA StartType ==
    ASSUME TypeOK, NEW step \in Steps, Start(step)
    PROVE  script' \in [Proc -> Steps]
  BY DEF Start, TypeOK, Steps

LEMMA TimerType ==
    ASSUME TypeOK, NEW q \in Timer, NEW n \in {Off} \cup 0..Sleep, timer' = [timer EXCEPT ![q] = n]
    PROVE  timer' \in [Timer -> {Off} \cup 0..Sleep]
  BY DEF TypeOK

LEMMA ScriptStepType == ASSUME TypeOK, NEW p \in Proc, ScriptStep(p) PROVE TypeOK'
  <1>1. UNCHANGED <<addrs, longUp, restarts, absent, owed>>
    BY DEF ScriptStep, At, TestUptime, QueryAddress, TouchFile, StartRecovery, TestFile, RemoveFile
  <1>2. \E step \in Steps : Go(p, step)
    BY DEF ScriptStep, TestUptime, QueryAddress, TouchFile, StartRecovery, TestFile, RemoveFile, Steps
  <1>3. file' \in BOOLEAN
    BY DEF ScriptStep, TestUptime, QueryAddress, TouchFile, StartRecovery, TestFile, RemoveFile, TypeOK
  <1>4. timer' \in [Timer -> {Off} \cup 0..Sleep]
    <2>1. timer' = timer \/ \E q \in Timer : timer' = [timer EXCEPT ![q] = Sleep]
      BY DEF ScriptStep, TestUptime, QueryAddress, TouchFile, StartRecovery, TestFile, RemoveFile
    <2>2. Sleep \in {Off} \cup 0..Sleep
      BY Bounds
    <2> QED BY <2>1, <2>2, TimerType DEF TypeOK
  <1> QED BY <1>1, <1>2, <1>3, <1>4, GoType DEF TypeOK, Steps

LEMMA TypeStep == TypeOK /\ [Next]_vars => TypeOK'
  <1> SUFFICES ASSUME TypeOK, [Next]_vars PROVE TypeOK'
    OBVIOUS
  <1>1. ASSUME NEW a \in Addr, AddressAdded(a) PROVE TypeOK'
    <2>1. Start("test") /\ "test" \in Steps
      BY <1>1 DEF AddressAdded, Steps
    <2>2. script' \in [Proc -> Steps]
      BY <2>1, StartType
    <2> QED BY <1>1, <2>2, Bounds DEF AddressAdded, Start, TypeOK, Steps
  <1>2. ASSUME NEW a \in Addr, AddressDeleted(a) PROVE TypeOK'
    <2>1. Start("uptime") /\ "uptime" \in Steps
      BY <1>2 DEF AddressDeleted, Steps
    <2>2. owed' \in BOOLEAN
      BY <1>2 DEF AddressDeleted, TypeOK
    <2>3. script' \in [Proc -> Steps]
      BY <2>1, StartType
    <2> QED BY <1>2, <2>2, <2>3 DEF AddressDeleted, Start, TypeOK, Steps
  <1>3. ASSUME NEW q \in Timer, Recover(q) PROVE TypeOK'
    <2>1. timer' \in [Timer -> {Off} \cup 0..Sleep]
      BY <1>3, TimerType DEF Recover
    <2>2. restarts \in 0..MaxRestarts /\ owed \in BOOLEAN /\ file \in BOOLEAN
      BY DEF TypeOK
    <2>3. CASE file
      <3>1. restarts < MaxRestarts /\ restarts' = restarts + 1 /\ owed' = FALSE
        BY <1>3, <2>3 DEF Recover
      <3>2. restarts' \in 0..MaxRestarts
        BY <2>2, <3>1, Bounds
      <3> QED BY <1>3, <2>1, <3>1, <3>2 DEF Recover, TypeOK
    <2>4. CASE ~file
      <3>1. restarts' = restarts /\ owed' = owed
        BY <1>3, <2>4 DEF Recover
      <3> QED BY <1>3, <2>1, <3>1 DEF Recover, TypeOK
    <2> QED BY <2>3, <2>4
  <1>4. CASE Tick
    <2>1. timer' \in [Timer -> {Off} \cup 0..Sleep]
      BY <1>4, Bounds DEF Tick, Woken, TypeOK
    <2>2. absent' \in 0..Sleep + 1 /\ (addrs # {} => absent' = 0)
      BY <1>4, Bounds DEF Tick, TypeOK
    <2> QED BY <1>4, <2>1, <2>2 DEF Tick, TypeOK
  <1>5. CASE Reboot
    BY <1>5, Bounds DEF Reboot, TypeOK
  <1>6. CASE UNCHANGED vars
    BY <1>6 DEF vars, scriptVars, TypeOK
  <1> QED BY <1>1, <1>2, <1>3, <1>4, <1>5, <1>6, ScriptStepType DEF Next

LEMMA TypeInit == Init => TypeOK
  BY Bounds DEF Init, TypeOK

\* Every state of the scripts, the sleeps and the file is well typed, with and without
\* scripts that overlap.
THEOREM TypeCorrect == Spec => []TypeOK
  BY TypeInit, TypeStep, PTL DEF Spec

-----------------------------------------------------------------------------
(* Recovery, when an address changes only once its scripts have ended.     *)

\* Nothing wakes while an addressmonitor.sh runs.
Apart == Running = {} \/ Woken = {}

\* A script acts on the addresses as they are.
Timely ==
    \A p \in Proc : /\ script[p] \in {"test", "rm"} => addrs # {}
                    /\ script[p] \in {"touch", "fork"} => addrs = {}

\* A file that an address has made out of date is about to be removed.
FileRemoved ==
    file /\ addrs # {} => \E p \in Proc : script[p] \in {"test", "rm"}

\* A restart that is due is on its way: a script is still to start its sleep, or the file
\* is there and the sleep ends in time.
OnItsWay ==
    owed => /\ addrs = {} /\ longUp
            /\ \/ absent = 0 /\ \E p \in Proc : \/ script[p] \in {"uptime", "query", "touch"}
                                                \/ script[p] = "fork" /\ file
               \/ file /\ \E q \in Timer : timer[q] # Off /\ timer[q] + absent <= Sleep

RecoveryInv == Apart /\ Timely /\ FileRemoved /\ OnItsWay

\* An address changes: a script starts, alone.
LEMMA StartAlone ==
    ASSUME TypeOK, ~CanOverlap, NEW step, Start(step)
    PROVE  /\ Running = {} /\ Woken = {} /\ UNCHANGED <<timer, file, longUp, restarts>> /\ Woken' = {}
           /\ \A p \in Proc : script[p] = "done"
           /\ \E p \in Proc : script' = [script EXCEPT ![p] = step]
  BY DEF Start, Running, Woken

\* A script goes on.
LEMMA GoEffect ==
    ASSUME TypeOK, NEW p \in Proc, NEW step, Go(p, step)
    PROVE  script'[p] = step /\ \A r \in Proc \ {p} : script'[r] = script[r]
  BY DEF Go, TypeOK

LEMMA ScriptRecovers ==
    ASSUME TypeOK, RecoveryInv, ~CanOverlap, NEW p \in Proc, ScriptStep(p) PROVE RecoveryInv'
  <1>1. UNCHANGED <<addrs, longUp, restarts, absent, owed>> /\ script[p] # "done"
    BY DEF ScriptStep, At, TestUptime, QueryAddress, TouchFile, StartRecovery, TestFile, RemoveFile
  <1>2. Woken = {}
    BY <1>1 DEF RecoveryInv, Apart, Running
  <1>3. Timely /\ FileRemoved /\ OnItsWay
    BY DEF RecoveryInv
  <1>4. CASE TestUptime(p)
    <2>1. /\ script[p] = "uptime" /\ Go(p, IF longUp THEN "query" ELSE "done") /\ UNCHANGED <<timer, file>>
      BY <1>4 DEF TestUptime, At
    <2>2. \A r \in Proc \ {p} : script'[r] = script[r]
      BY <2>1, GoEffect
    <2>3. script'[p] = IF longUp THEN "query" ELSE "done"
      BY <2>1, GoEffect
    <2>4. Apart'
      BY <1>2, <2>1 DEF Apart, Woken
    <2>5. Timely'
      BY <1>1, <1>3, <2>2, <2>3 DEF Timely
    <2>6. FileRemoved'
      BY <1>1, <1>3, <2>1, <2>2 DEF FileRemoved
    <2>7. OnItsWay'
      BY <1>1, <1>3, <2>1, <2>2, <2>3 DEF OnItsWay
    <2> QED BY <2>4, <2>5, <2>6, <2>7 DEF RecoveryInv
  <1>5. CASE QueryAddress(p)
    <2>1. /\ script[p] = "query" /\ Go(p, IF addrs = {} THEN "touch" ELSE "done") /\ UNCHANGED <<timer, file>>
      BY <1>5 DEF QueryAddress, At
    <2>2. \A r \in Proc \ {p} : script'[r] = script[r]
      BY <2>1, GoEffect
    <2>3. script'[p] = IF addrs = {} THEN "touch" ELSE "done"
      BY <2>1, GoEffect
    <2>4. Apart'
      BY <1>2, <2>1 DEF Apart, Woken
    <2>5. Timely'
      BY <1>1, <1>3, <2>2, <2>3 DEF Timely
    <2>6. FileRemoved'
      BY <1>1, <1>3, <2>1, <2>2 DEF FileRemoved
    <2>7. OnItsWay'
      BY <1>1, <1>3, <2>1, <2>2, <2>3 DEF OnItsWay
    <2> QED BY <2>4, <2>5, <2>6, <2>7 DEF RecoveryInv
  <1>6. CASE TouchFile(p)
    <2>1. script[p] = "touch" /\ Go(p, "fork") /\ timer' = timer /\ file'
      BY <1>6 DEF TouchFile, At
    <2>2. script'[p] = "fork" /\ \A r \in Proc \ {p} : script'[r] = script[r]
      BY <2>1, GoEffect
    <2>3. addrs = {}
      BY <1>3, <2>1 DEF Timely
    <2>4. Apart'
      BY <1>2, <2>1 DEF Apart, Woken
    <2>5. Timely' /\ FileRemoved'
      BY <1>1, <1>3, <2>2, <2>3 DEF Timely, FileRemoved
    <2>6. OnItsWay'
      BY <1>1, <1>3, <2>1, <2>2 DEF OnItsWay
    <2> QED BY <2>4, <2>5, <2>6 DEF RecoveryInv
  <1>7. CASE StartRecovery(p)
    <2>1. script[p] = "fork" /\ Go(p, "done") /\ file' = file
      BY <1>7 DEF StartRecovery, At
    <2>2. script'[p] = "done" /\ \A r \in Proc \ {p} : script'[r] = script[r]
      BY <2>1, GoEffect
    <2>3. PICK q \in Timer : timer[q] = Off /\ timer' = [timer EXCEPT ![q] = Sleep]
      BY <1>7 DEF StartRecovery
    <2>4. timer'[q] = Sleep /\ \A u \in Timer \ {q} : timer'[u] = timer[u]
      BY <2>3 DEF TypeOK
    <2>5. Apart'
      BY <1>2, <2>4, Bounds DEF Apart, Woken
    <2>6. Timely' /\ FileRemoved'
      BY <1>1, <1>3, <2>1, <2>2 DEF Timely, FileRemoved
    <2>7. OnItsWay'
      <3> SUFFICES ASSUME owed PROVE OnItsWay'
        BY <1>1 DEF OnItsWay
      <3>1. addrs = {} /\ longUp
        BY <1>3 DEF OnItsWay
      <3>2. CASE absent = 0 /\ \E r \in Proc \ {p} : \/ script[r] \in {"uptime", "query", "touch"}
                                                     \/ script[r] = "fork" /\ file
        BY <1>1, <2>1, <2>2, <3>1, <3>2 DEF OnItsWay
      <3>3. CASE absent = 0 /\ file
        <4>1. timer'[q] # Off /\ timer'[q] + absent' <= Sleep
          BY <1>1, <2>4, <3>3, Bounds
        <4> QED BY <1>1, <2>1, <3>1, <3>3, <4>1 DEF OnItsWay
      <3>4. CASE file /\ \E u \in Timer : timer[u] # Off /\ timer[u] + absent <= Sleep
        BY <1>1, <2>1, <2>3, <2>4, <3>1, <3>4, Bounds DEF OnItsWay
      <3> QED BY <1>3, <2>1, <3>2, <3>3, <3>4 DEF OnItsWay
    <2> QED BY <2>5, <2>6, <2>7 DEF RecoveryInv
  <1>8. CASE TestFile(p)
    <2>1. /\ script[p] = "test" /\ Go(p, IF file THEN "rm" ELSE "done") /\ UNCHANGED <<timer, file>>
      BY <1>8 DEF TestFile, At
    <2>2. \A r \in Proc \ {p} : script'[r] = script[r]
      BY <2>1, GoEffect
    <2>3. script'[p] = IF file THEN "rm" ELSE "done"
      BY <2>1, GoEffect
    <2>4. addrs # {} /\ ~owed
      BY <1>3, <2>1 DEF Timely, OnItsWay
    <2>5. Apart'
      BY <1>2, <2>1 DEF Apart, Woken
    <2>6. Timely' /\ FileRemoved' /\ OnItsWay'
      BY <1>1, <1>3, <2>1, <2>2, <2>3, <2>4 DEF Timely, FileRemoved, OnItsWay
    <2> QED BY <2>5, <2>6 DEF RecoveryInv
  <1>9. CASE RemoveFile(p)
    <2>1. script[p] = "rm" /\ Go(p, "done") /\ timer' = timer /\ ~file'
      BY <1>9 DEF RemoveFile, At
    <2>2. script'[p] = "done" /\ \A r \in Proc \ {p} : script'[r] = script[r]
      BY <2>1, GoEffect
    <2>3. addrs # {} /\ ~owed
      BY <1>3, <2>1 DEF Timely, OnItsWay
    <2>4. Apart'
      BY <1>2, <2>1 DEF Apart, Woken
    <2>5. Timely' /\ FileRemoved' /\ OnItsWay'
      BY <1>1, <1>3, <2>1, <2>2, <2>3 DEF Timely, FileRemoved, OnItsWay
    <2> QED BY <2>4, <2>5 DEF RecoveryInv
  <1> QED BY <1>4, <1>5, <1>6, <1>7, <1>8, <1>9 DEF ScriptStep

LEMMA RecoveryStep == ASSUME ~CanOverlap PROVE TypeOK /\ RecoveryInv /\ [Next]_vars => RecoveryInv'
  <1> SUFFICES ASSUME TypeOK, RecoveryInv, [Next]_vars PROVE RecoveryInv'
    OBVIOUS
  <1>1. Apart /\ Timely /\ FileRemoved /\ OnItsWay
    BY DEF RecoveryInv
  <1>2. ASSUME NEW a \in Addr, AddressAdded(a) PROVE RecoveryInv'
    <2>1. addrs' # {} /\ ~owed' /\ Start("test")
      BY <1>2 DEF AddressAdded
    <2>2. PICK p \in Proc : script' = [script EXCEPT ![p] = "test"]
      BY <2>1, StartAlone
    <2>3. Woken' = {} /\ \A r \in Proc : script[r] = "done"
      BY <2>1, StartAlone
    <2>4. script'[p] = "test" /\ \A r \in Proc \ {p} : script'[r] = "done"
      BY <2>2, <2>3 DEF TypeOK
    <2> QED BY <2>1, <2>3, <2>4 DEF RecoveryInv, Apart, Timely, FileRemoved, OnItsWay
  <1>3. ASSUME NEW a \in Addr, AddressDeleted(a) PROVE RecoveryInv'
    <2>1. Start("uptime") /\ addrs # {} /\ absent' = absent /\ owed' = (longUp /\ addrs' = {})
      BY <1>3 DEF AddressDeleted
    <2>2. PICK p \in Proc : script' = [script EXCEPT ![p] = "uptime"]
      BY <2>1, StartAlone
    <2>3. Woken' = {} /\ file' = file /\ longUp' = longUp /\ \A r \in Proc : script[r] = "done"
      BY <2>1, StartAlone
    <2>4. script'[p] = "uptime" /\ \A r \in Proc \ {p} : script'[r] = "done"
      BY <2>2, <2>3 DEF TypeOK
    <2>5. ~file' /\ absent' = 0
      BY <1>1, <2>1, <2>3 DEF FileRemoved, TypeOK
    <2>6. Timely'
      BY <2>4 DEF Timely
    <2> QED BY <2>1, <2>3, <2>4, <2>5, <2>6 DEF RecoveryInv, Apart, FileRemoved, OnItsWay
  <1>4. ASSUME NEW q \in Timer, Recover(q) PROVE RecoveryInv'
    <2>1. /\ timer[q] = 0 /\ timer' = [timer EXCEPT ![q] = Off] /\ UNCHANGED <<addrs, longUp, script, file, absent>>
          /\ owed' = (IF file THEN FALSE ELSE owed)
      BY <1>4 DEF Recover
    <2>2. Running = {}
      BY <1>1, <2>1 DEF Apart, Woken
    <2>3. ~owed'
      BY <1>1, <2>1, <2>2 DEF OnItsWay, Running
    <2>4. Apart'
      BY <2>1, <2>2 DEF Apart, Running
    <2> QED BY <1>1, <2>1, <2>3, <2>4, Bounds DEF RecoveryInv, Timely, FileRemoved, OnItsWay
  <1>5. CASE Tick
    <2>1. /\ Running = {} /\ Woken = {} /\ UNCHANGED <<addrs, script, file, restarts, owed>>
          /\ longUp' \in {longUp, TRUE}
          /\ timer' = [u \in Timer |-> IF timer[u] = Off THEN Off ELSE timer[u] - 1]
          /\ absent' = IF addrs = {} /\ absent <= Sleep THEN absent + 1 ELSE absent
      BY <1>5 DEF Tick
    <2>2. Apart' /\ Timely' /\ FileRemoved'
      BY <1>1, <2>1 DEF Apart, Running, Timely, FileRemoved
    <2>3. OnItsWay'
      <3> SUFFICES ASSUME owed PROVE OnItsWay'
        BY <2>1 DEF OnItsWay
      <3>1. addrs' = {} /\ longUp' /\ file'
        BY <1>1, <2>1 DEF OnItsWay, Running
      <3>2. PICK q \in Timer : timer[q] # Off /\ timer[q] + absent <= Sleep
        BY <1>1, <2>1 DEF OnItsWay, Running
      <3>3. timer[q] \in 1..Sleep /\ absent \in 0..Sleep + 1
        BY <2>1, <3>2, Bounds DEF Woken, TypeOK
      <3>4. timer'[q] = timer[q] - 1 /\ absent' = absent + 1
        <4>1. timer'[q] = timer[q] - 1
          BY <2>1, <3>2
        <4>2. absent <= Sleep /\ addrs = {}
          BY <1>1, <3>2, <3>3, Bounds DEF OnItsWay
        <4> QED BY <2>1, <4>1, <4>2
      <3>5. timer'[q] # Off /\ timer'[q] + absent' <= Sleep
        BY <3>2, <3>3, <3>4, Bounds
      <3> QED BY <3>1, <3>5 DEF OnItsWay
    <2> QED BY <2>2, <2>3 DEF RecoveryInv
  <1>6. CASE Reboot
    BY <1>6 DEF Reboot, RecoveryInv, Apart, Running, Timely, FileRemoved, OnItsWay
  <1>7. CASE UNCHANGED vars
    BY <1>1, <1>7 DEF vars, scriptVars, RecoveryInv, Apart, Running, Woken, Timely, FileRemoved, OnItsWay
  <1> QED BY <1>2, <1>3, <1>4, <1>5, <1>6, <1>7, ScriptRecovers DEF Next

LEMMA RecoveryInit == Init => RecoveryInv
  BY DEF Init, RecoveryInv, Apart, Running, Timely, FileRemoved, OnItsWay

\* While address scripts do not overlap, a device that has been up for long enough is
\* without an address for no longer than the sleep unless it was restarted, whatever
\* recoveries, reboots and old files there are.
THEOREM Recovers == ASSUME ~CanOverlap PROVE Spec => []RecoveredInTime
  <1>1. TypeOK /\ RecoveryInv => RecoveredInTime
    BY Bounds DEF TypeOK, RecoveryInv, OnItsWay, RecoveredInTime
  <1> QED BY <1>1, TypeInit, TypeStep, RecoveryInit, RecoveryStep, PTL DEF Spec

\* While address scripts do not overlap, none but a device without an address is
\* restarted once its scripts have ended.
THEOREM RestartsWhenNeeded == ASSUME ~CanOverlap PROVE Spec => NoNeedlessRestart
  <1>1. RecoveryInv /\ [Next]_vars => [restarts' # restarts /\ Running = {} => addrs = {}]_vars
    <2> SUFFICES ASSUME RecoveryInv, Next, restarts' # restarts, Running = {} PROVE addrs = {}
      OBVIOUS
    <2>1. file
      BY DEF Next, AddressAdded, AddressDeleted, Start, ScriptStep, At, TestUptime, QueryAddress, TouchFile,
             StartRecovery, TestFile, RemoveFile, Recover, Tick, Reboot
    <2>2. \A p \in Proc : script[p] = "done"
      BY DEF Running
    <2> QED BY <2>1, <2>2 DEF RecoveryInv, FileRemoved
  <1> QED BY <1>1, TypeInit, TypeStep, RecoveryInit, RecoveryStep, PTL DEF Spec, NoNeedlessRestart
=================================================================================
