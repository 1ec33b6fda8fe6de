------------------------------ MODULE Ipv6Recovery ------------------------------
(***************************************************************************)
(* The cameras' recovery of a lost IPv6 address: addressmonitor.sh, which  *)
(* nlmon starts in the background for each address message, and            *)
(* netmonitor_recovery.sh, which addressmonitor.sh starts and which sleeps *)
(* before it looks at the file /opt/recover_ipv6 they share.  Only         *)
(* messages about global IPv6 addresses of the camera's interface have an  *)
(* effect.  The copies for xcam2, xcam3 and dbc differ in the interface    *)
(* and in the service they restart.                                        *)
(*                                                                         *)
(* Time advances only while no addressmonitor.sh runs: it takes far less   *)
(* than the sleep.                                                         *)
(***************************************************************************)
EXTENDS Naturals, FiniteSets

CONSTANTS Addr,         \* addresses the interface may have
          Proc,         \* a bound on the addressmonitor.sh that run at once
          Timer,        \* a bound on the netmonitor_recovery.sh that run at once
          Sleep,        \* the sleep, in ticks
          MaxRestarts,  \* a bound on the restarts of a run
          CanOverlap,   \* whether an address changes while a script runs
          Off           \* a netmonitor_recovery.sh that does not run

ASSUME SleepAssumption == Sleep \in Nat \ {0} /\ Off \notin Nat
ASSUME BoundsAssumption ==
    /\ IsFiniteSet(Proc) /\ IsFiniteSet(Timer)
    /\ MaxRestarts \in Nat /\ CanOverlap \in BOOLEAN

VARIABLES addrs,      \* addresses of the interface
          longUp,     \* the device has been up for Uptime_Threshold
          script,     \* script[p]: the next step of the addressmonitor.sh in slot p
          timer,      \* timer[q]: ticks a netmonitor_recovery.sh has still to sleep
          file,       \* whether /opt/recover_ipv6 exists
          restarts,   \* restarts of the network service
          absent,     \* ticks since the last address went or the device
                      \* started, up to Sleep + 1
          owed        \* the last address went when longUp, and neither a new one
                      \* nor a restart has followed

scriptVars == <<script, timer, file>>
vars == <<addrs, longUp, scriptVars, restarts, absent, owed>>

Running == {p \in Proc : script[p] # "done"}
Woken == {q \in Timer : timer[q] = 0}

Init ==
    /\ addrs = {} /\ longUp = FALSE
    /\ script = [p \in Proc |-> "done"]
    /\ timer = [q \in Timer |-> Off]
    /\ file = FALSE
    /\ restarts = 0
    /\ absent = 0 /\ owed = FALSE

-----------------------------------------------------------------------------
(* The kernel changes an address; nlmon publishes it and starts the script. *)

Start(first) ==
    /\ CanOverlap \/ Running \cup Woken = {}
    /\ \E p \in Proc \ Running : script' = [script EXCEPT ![p] = first]
    /\ UNCHANGED <<timer, file, longUp, restarts>>

AddressAdded(a) ==
    /\ a \notin addrs
    /\ addrs' = addrs \cup {a}
    /\ absent' = 0 /\ owed' = FALSE
    /\ Start("test")

\* The guard keeps a slot free for the recovery of every script.
AddressDeleted(a) ==
    /\ a \in addrs
    /\ Cardinality({q \in Timer : timer[q] = Off}) > Cardinality(Running)
    /\ addrs' = addrs \ {a}
    /\ owed' = (longUp /\ addrs' = {})
    /\ Start("uptime")
    /\ UNCHANGED absent

-----------------------------------------------------------------------------
(* addressmonitor.sh, for a delete and then for an add.                    *)

Go(p, step) == script' = [script EXCEPT ![p] = step]
At(p, step) == script[p] = step /\ UNCHANGED <<addrs, longUp, restarts, absent, owed>>

TestUptime(p) ==
    /\ At(p, "uptime")
    /\ Go(p, IF longUp THEN "query" ELSE "done")
    /\ UNCHANGED <<timer, file>>

QueryAddress(p) ==
    /\ At(p, "query")
    /\ Go(p, IF addrs = {} THEN "touch" ELSE "done")
    /\ UNCHANGED <<timer, file>>

TouchFile(p) ==
    /\ At(p, "touch")
    /\ file' = TRUE
    /\ Go(p, "fork")
    /\ UNCHANGED timer

\* Mutant: the recovery sleeps for too long.
StartRecoveryMutant(p) ==
    /\ At(p, "fork")
    /\ \E q \in Timer : timer[q] = Off /\ timer' = [timer EXCEPT ![q] = Sleep + 1]
    /\ Go(p, "done")
    /\ UNCHANGED file

StartRecovery(p) ==
    /\ At(p, "fork")
    /\ \E q \in Timer : timer[q] = Off /\ timer' = [timer EXCEPT ![q] = Sleep]
    /\ Go(p, "done")
    /\ UNCHANGED file

TestFile(p) ==
    /\ At(p, "test")
    /\ Go(p, IF file THEN "rm" ELSE "done")
    /\ UNCHANGED <<timer, file>>

\* Mutant: the path is relative, as in the addressmonitor.sh at the root.
RemoveFileMutant(p) ==
    /\ At(p, "rm")
    /\ Go(p, "done")
    /\ UNCHANGED <<timer, file>>

RemoveFile(p) ==
    /\ At(p, "rm")
    /\ file' = FALSE
    /\ Go(p, "done")
    /\ UNCHANGED timer

ScriptStep(p) ==
    \/ TestUptime(p) \/ QueryAddress(p) \/ TouchFile(p) \/ StartRecovery(p)
    \/ TestFile(p) \/ RemoveFile(p)

-----------------------------------------------------------------------------
(* netmonitor_recovery.sh after its sleep, and time.                       *)

\* The file is left as it is: the next recovery to wake restarts again.
Recover(q) ==
    /\ timer[q] = 0
    /\ timer' = [timer EXCEPT ![q] = Off]
    /\ IF file THEN /\ restarts < MaxRestarts
                    /\ restarts' = restarts + 1 /\ owed' = FALSE
               ELSE UNCHANGED <<restarts, owed>>
    /\ UNCHANGED <<addrs, longUp, script, file, absent>>

Tick ==
    /\ Running = {} /\ Woken = {}
    /\ timer' = [q \in Timer |-> IF timer[q] = Off THEN Off ELSE timer[q] - 1]
    /\ longUp' \in {longUp, TRUE}
    /\ absent' = IF addrs = {} /\ absent <= Sleep THEN absent + 1 ELSE absent
    /\ UNCHANGED <<addrs, script, file, restarts, owed>>

\* A reboot: only the file survives, and the interface starts with no address.
Reboot ==
    /\ addrs' = {} /\ longUp' = FALSE
    /\ script' = [p \in Proc |-> "done"]
    /\ timer' = [q \in Timer |-> Off]
    /\ absent' = 0 /\ owed' = FALSE
    /\ UNCHANGED <<file, restarts>>

Next ==
    \/ \E a \in Addr : AddressAdded(a) \/ AddressDeleted(a)
    \/ \E p \in Proc : ScriptStep(p)
    \/ \E q \in Timer : Recover(q)
    \/ Tick
    \/ Reboot

Spec == Init /\ [][Next]_vars

-----------------------------------------------------------------------------
(* Properties.                                                             *)

\* Type correctness.
TypeOK ==
    /\ addrs \subseteq Addr
    /\ longUp \in BOOLEAN /\ file \in BOOLEAN /\ owed \in BOOLEAN
    /\ script \in [Proc -> {"done", "uptime", "query", "touch", "fork", "test", "rm"}]
    /\ timer \in [Timer -> {Off} \cup 0..Sleep]
    /\ restarts \in 0..MaxRestarts
    /\ absent \in 0..Sleep + 1 /\ (addrs # {} => absent = 0)

\* The service is restarted only "if camera misses to get the RA"
\* (netmonitor_recovery.sh:9): never while the interface has an address and every
\* script has ended, whatever recoveries, reboots and old files there are.
NoNeedlessRestart == [][restarts' # restarts /\ Running = {} => addrs = {}]_vars

\* The sleep is there "so that we can see whether we get RA from gateway or not"
\* (netmonitor_recovery.sh:8): a restart follows Sleep ticks without an address.
RestartAfterSleep == [][restarts' # restarts => absent >= Sleep]_vars

\* "If camera misses to get the RA within time period, we can have ... service
\* to restart" (netmonitor_recovery.sh:9-10): once its last address has gone, a
\* device that has been up for long enough is not without an address for longer
\* than the sleep unless the service has been restarted.
RecoveredInTime == owed => absent <= Sleep
=================================================================================
