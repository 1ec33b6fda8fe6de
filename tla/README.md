# nlmon in TLA+

`nlmon` (and the library `libnlmonitor` it is made of) listens to the kernel's
routing sockets and tells scripts and functions about links, addresses and
routes. These modules model it, TLC checks them on small instances and TLAPS
proves the main results for every instance. Line numbers are those of the
sources beside this directory, under `src/`.

## 1. The system

| Component | Source | State | Operations |
|---|---|---|---|
| Monitor core, `NetLinkIfc` | `netlinkifc.cpp`, `.h` | `m_state`, state table, three caches, three clones, static maps of link states | `initialize`, `run`, change and init callbacks, `process{link,addr,route}_rtnl`, state-machine handlers, `publish` |
| Queries | `netlinkifc.cpp:709-956` | read the clones | `getIpaddr`, `getInterfaces`, `getDefaultRoute` |
| Commands | `netlinkifc.cpp:507-707` | read the clones, own command socket | `deleteinterfaceip`, `deleteinterfaceroutes`, `activatelink` |
| Subscribers | `subscribers.h`, `netlinkifc.h:219-229` | `m_subscribers` | `addSubscriber`, `deleteSubscriber`, `invoke` of a script or a function |
| Kernel, socket, libnl | external | tables, groups, receive buffer, caches | multicast, overrun, join, dump, include, callback |
| Default route script | `checkDefaultRoute.sh` | `/tmp/route_available`, `/tmp/.GatewayIP_dfltroute` | add, delete |
| IPv6 recovery | `{xcam2,xcam3,dbc}/*.sh` | `/opt/recover_ipv6`, sleeping processes | add, delete, wake up |
| IP mode scripts | `ipmodechange.sh`, `ipv6addressChange.sh` | `/tmp/*_global`, `*_route`, `*_mode`, `estb_*` | add, delete, on two subscriptions |
| Start-up | `main.cpp`, `nlmon.service`, `nlmon_*.cfg` | subscriber list, pid file | read configuration, start |
| Logging scripts, build files | `printaddress.sh`, `printroute.sh`, `Makefile.am`, ... | none of interest | |

How they interact. `main()` adds a script per line of the configuration, calls
`initialize()` and then `run()`, which starts one thread that polls for ever.
`initialize()` adds the link, route and address caches to libnl's cache manager,
in this order. Adding a cache joins its multicast group on one socket and then
dumps its table over another, so notifications that overtake the dump wait in
the first socket. It then walks the caches, links first, then addresses, then
routes, through the same handlers that the change callbacks use later. A
handler holds the recursive mutex `g_state_mutex` throughout. It frees and
renews the clone of its cache (the query interface reads only clones), derives
events, passes them through the state table and publishes. Scripts are started
in the background, so two instances of a script run at once and end in any order.
Clients of the library call queries and commands from threads of their own, or
from a function subscriber that `publish` invokes with the mutex held. Both walk
the clones; a command asks the kernel for a change, object by object, over a second
socket, and the kernel's answer to that comes back to the monitor as a
notification. The IP mode scripts hang on two subscriptions and talk to each
other through empty files in `/tmp`.

What is hard about it: the order of dumps, notifications and walks; messages
lost when the socket's buffer is full; state kept by interface name while the
kernel's objects come and go; changes that update the queries and are not
published; clones replaced under the walks of other threads; callbacks that call
back into the library or change the subscriber list; commands that work from clones
the kernel has left behind and ignore that a request failed; background scripts that share files; sleeping scripts that
wake up in another situation. `PROJECT.json` lists each hazard at its line.

What makes each part correct:

* caches and clones: they end up equal to the kernel's tables, and queries are
  never staler than the caches;
* feeds: subscribers hear well-formed, alternating words, what they hear agrees
  with what they can query, and at rest it agrees with the kernel;
* queries: each answer is that of one moment, no walk meets a freed clone, every call
  returns;
* commands: they touch what they were asked to touch and nothing else, and what they fail
  to do does not escape the clients' notice;
* publication: a subscriber that stays in the list hears each message once, in order;
* IP mode scripts: the mode file tells what was published, the address flags agree
  with the kernel once the scripts have caught up, but for the overlaps that are named;
* default route script: flag and file exist exactly while there is a default
  route with a gateway;
* recovery: the service is restarted after a long enough loss, and only then.

## 2. The modules

| Module | Models |
|---|---|
| `Netlink` | the external world: `kernel` tables, multicast `groups`, the socket's `queue`, `drops`, libnl's caches `live` and the callback `pending` |
| `LinkFeed` | abstract: what a link subscriber may rely on |
| `NetLinkIfc` | the monitor core, on top of `Netlink` |
| `Commands` | the commands, on top of `NetLinkIfc` and `Netlink` |
| `Queries` | the queries as functions of what they read, and the callbacks of their walks |
| `QueryInterface` | abstract: what the queries promise their callers |
| `ClientApi` | threads, mutex, clones, subscriber list: how the queries and publication are carried out |
| `CheckDefaultRoute` | `checkDefaultRoute.sh`, command by command |
| `IpMode` | `ipmodechange.sh` and `ipv6addressChange.sh`, command by command |
| `Ipv6Recovery` | `addressmonitor.sh` and `netmonitor_recovery.sh`, command by command |
| `RoutePipeline` | the way of a default route from the kernel to the files: `Commands` (with the monitor) and `CheckDefaultRoute` side by side, with theorems |
| `MC*` | constants for TLC |
| `NetLinkIfcProofs`, `FeedProofs`, `CommandsProofs`, `ClientApiProofs`, `CheckDefaultRouteProofs`, `IpModeProofs`, `Ipv6RecoveryProofs` | lemmas and theorems |

**`NetLinkIfc`.** The variable `main` is the place of the main thread:
`<<"join", k>>`, `<<"refill", k>>`, `<<"foreach", k>>` and at last
`<<"run", "all">>`. `AddCache` and `FillCache` are the two halves of
`nl_cache_mngr_add`, because the kernel can act between them. `InitCallback` is
one of the `*_init_cb`, `ForeachDone` the event `DONE` and the two handlers it
has. `Poll` takes one message, `ChangeCallback` is one of the `*_change_cb` with
the whole `process*_rtnl` below it; they are two actions because the cache has
changed before the callback takes the mutex. `PollFails` is the error path of
`cacheMgrMsg`. `stateMachine` has, for each state, the events with a handler.
`link_admin_states` and `link_oper_states` are the static maps, where a name
that was never seen reads FALSE as `std::map::operator[]` has it. What was
published is kept as the last message per name, address or route: `adminSaid`,
`operSaid`, `addrSaid`, `routeSaid`, `dfltSaid`. Families are merged where the
two handlers differ only in text (`addiproute` and `addip6route`), and kept where
the state machine or the message tells them apart (addresses). A message's
words matter in two ways and only those are kept: whether the interface name is
there (`Named`, from `rtnl_link_i2name` on the live link cache), and which
gateway a route has.

**`Commands`.** `command` is the command that holds `g_state_mutex`: its step, the
interfaces and families it works on and the objects of the clone it has still to
visit. `DeleteOne` is `delete_addr_cb` or `delete_route_cb`, `TakeDown` and `BringUp`
are the two uses of `modify_link_cb`; `FlushOne` is the kernel's own removal of routes
when an interface goes down. The kernel may refuse any request, for whatever reason
(`Refused`): the callbacks log `err < 0` at most and go on, so nothing but `refused`, which
serves the properties, tells. Between two requests the kernel moves (`KernelBeside`) and
the cache thread may take one message (`PollBeside`), whose callback then waits. A
command may come from a callback within `initialize()`; then the walk of `initialize()`
waits. A name that is not in the clone makes `deleteinterfaceip` and
`deleteinterfaceroutes` do nothing: the first does not return with `ENABLE_RDKLOGGER`, but
then filters for an index that no address has.

**`Queries`, `QueryInterface`, `ClientApi`.** `Queries` has what a query answers to given
links, addresses and routes (`Answers`, the reference) and the callbacks that its walk
makes (`get_default_route_cb`, ...). `QueryInterface` says that an answer is computed
from one snapshot. `ClientApi` has the code: `lock` and `unlock` of the recursive mutex,
`Enter`, `Visit` and `Leave` of a query, `FreeClone` and `CloneCache` (the two lines of
`updateCloneConfig`) and `publish` with its loop, one subscriber at a time. `at` is the
element the range-for stands on. `Reaction` is what a subscriber does when invoked:
nothing to the library, query it, or add or delete another subscriber. What a
notification is about is `NetLinkIfc`'s matter, here it changes one object of one
cache. `standing` and `heard` only serve the property `StandingHearOnce`. `MayLock` is the
recursive mutex: free, or the caller's own.

**`IpMode`.** `script[p]` is the script that process `p` runs, with the command it is at;
`tmp` the files; `published` the last mode announced by `IARM_event_sender`. Each test,
`touch`, `rm` and publication is an action, and so is the question to the kernel about one
interface. `Start` is `ScriptSubscriber::invoke`: the scripts of a subscription start in the
order of its notifications, and nothing keeps one waiting for another, of its own
subscription or not. `Ignored` are unique local IPv6 and zero-configuration IPv4 addresses,
`Managed` the interfaces of `device.properties`. `mixed` and `raced` record which overlaps
have happened, for the properties; no guard reads them.

**`CheckDefaultRoute`.** `script[p]` is the next command of instance `p`. `file`
is the set of gateways that have a line. `sed -i` is a read (`Sed`) and a rename
(`Rename`). `Matches[g]` is what the pattern `g` matches. `Start` is
`ScriptSubscriber::invoke` and the check for seven arguments.

**`RoutePipeline`.** It has no state and no step of its own. Its behaviours are those of
`CSpec` and of `CheckDefaultRoute` at once, where what the scripts call a route is what the
dfltroute feed last told of it (`Heard`). So `RouteAdded` and `RouteDeleted` of the scripts
happen when the monitor publishes, and `ScriptSubscriber::invoke` starts one script each. Two
specifications in conjunction are nothing TLC can enumerate, so the module has no run; its
parts have their own (`commands`, `routes`, `route_quiet`).

**`Ipv6Recovery`.** `script[p]` is the next command of an `addressmonitor.sh`,
`timer[q]` the rest of the sleep of a `netmonitor_recovery.sh`. `absent` and
`owed` record what the properties ask about: for how long there has been no
address, and whether a restart is due. They influence no guard.

### Assumptions about the environment

* The kernel removes a link's routes before the link goes down, and removes a link
  only when it is down and has no addresses. Kernels that flush IPv4 routes on
  link down without notification are outside the model.
* Interfaces are not renamed and a route has at most one next hop (the source
  says so itself, `netlinkifc.cpp:1280`).
* A link that is administratively down reports the operational state DOWN.
* libnl includes one message at a time and calls back only if something changed.
* `nl_cache_mngr_add` succeeds.
* In `ClientApi`, the clients keep to what the code needs and does not enforce: once
  `initialize()` has begun only callbacks change the subscriber list, no callback removes
  the subscriber it is called for (`SubscribersAssumption`), and none adds one that is in
  the list (the guards of `Configure` and `invoke`). The first two are undefined otherwise:
  neither `addSubscriber` nor `deleteSubscriber` takes the mutex.
* `IpMode` has the addresses of global scope, the only ones its script handles, on interfaces
  other than `dobby0`.
* In `Ipv6Recovery`, `addressmonitor.sh` takes far less time than the sleep: time
  does not advance while it runs.

## 3. The runs

| Run | Properties | Instance and why it is enough |
|---|---|---|
| `links` | `TypeOK`, `LinkFeedMatchesKernel`, `LinkFeedSpec` | two links that carry one name in turn (a replugged device), buffer of 2 with `CanDrop`: removals, re-creation, stale replay, overrun and failed polls all happen; links of other names do not interact with them |
| `addrs` | `AddrFeedMatchesClone`, `CloneIsCurrent`, `EventsNameTheirLink`, `AddrMessagesAlternate`, `ClonesConverge`, `FeedsConverge` | one link, an IPv4 address with a label and an IPv6 one without, queue of 2: the removal of an address, or of the link, and a later addition wait together; the only run with fairness, as it has the properties that need it |
| `routes` | `CacheConverges`, `RouteFeedMatchesKernel`, `DfltFeedMatchesKernel`, `DfltDeletesMatchAdds` | an object of each kind, a route without next hop, two gateways, queue of 2: changes before, between and after each join and dump, replacement of a gateway by another and by none |
| `commands` | `CommandsTypeOK`, `CloneIsCurrent`, `AddrFeedMatchesClone`, `LinkFeedSpec`, `OnlyWhatWasAsked`, `SurvivorsAreOnTheirWay`, `ActivatedIsUp` | a link with an IPv6 address and an IPv4 route, so that families matter; buffer of 1 with `CanDrop`, so that a command's own notifications overrun it; the kernel moves once by itself, beside all that it is made to do (removals, and three ways of coming up): enough to put back what a command has removed, or to remove what it is working on; any request may be refused |
| `clients` | `TypeOK`, `WalksAreSafe`, `CallbackSeesItsEvent`, `StandingHearOnce`, `NobodyIsStuck`, `QuerySpec`, `EveryCallReturns` | a client thread beside the monitor, three routes of priorities 0, 1 and `MaxPriority` (`UINT_MAX`), three subscribers that query, delete another and add it back; any caches to begin with, one notification after `initialize()`'s walks |
| `route_quiet` | `TypeOK`, `FlagMatchesFile`, `RouteHasFlag`, `GatewayHasLine`, `NoRouteNoTrace` | two routes with a gateway each, three instances: a delete runs alone, adds overlap |
| `recovery_serial` | `TypeOK`, `RecoveredInTime`, `NoNeedlessRestart` | two addresses, sleep of 3 ticks, three recoveries, two restarts, reboots; address scripts do not overlap |
| `ip_mode` | `TypeOK`, `Ipv6ModeIsPublished`, `EstbFollowsAddresses`, `GlobalFlagIsReal` | three processes for scripts of both subscriptions, so that one overlaps two others; a global IPv4 address on an interface that is not managed, a zero-configuration one and a unique local IPv6 one on the managed interface, a default route of each family; five moves of the kernel, enough to bring an address and a route of each family and take two of them away again |

The runs with `expect: violation` are listed as findings:

| Run | The code does | A comment says |
|---|---|---|
| `dflt_names` | publishes a default route without an interface name if its link appeared after the link dump | `netlinkifc.cpp:1330`, the message format |
| `route_overlap` | loses the flag when a delete's script overlaps an add's | `checkDefaultRoute.sh:38` |
| `route_replaced` | keeps a replaced gateway's line, and so the flag | `checkDefaultRoute.sh:63` |
| `recovery_stale` | restarts at once for a new loss when an older recovery wakes up | `netmonitor_recovery.sh:8` |

Two more disagreements of this kind can be seen by changing a constant. With
`Matches <- Prefix` in `RouteQuiet.cfg`, `GatewayHasLine` fails: the gateway 10.0.0.1 is
taken for recorded when 10.0.0.10 is (`checkDefaultRoute.sh:51`). With `CanOverlap = TRUE` and
two instances in `RecoverySerial.cfg`, `RecoveredInTime` fails: an add's script removes the file that a later
delete has just touched, and no restart follows (`addressmonitor.sh:34`).

What overlapping IP mode scripts do to the files is in no document either, so it is no finding:
each property of `IpMode` names the overlaps that break it, and TLC reports a violation when
any of these conditions is dropped. Two instances of `ipmodechange.sh` that announce the two
modes, as when `initialize()` finds a default route of each family, can leave `ipv6_mode`
with IPv4 published last. The `rm` of a delete's script, after the `touch` of an add's,
leaves an address without its `estb` file; the `touch` of an add's script after the `rm` of the
delete's leaves `estb_ipv4` or a global flag without an address. All other overlaps do no harm.

Nor is what the scripts do not do in any document, so the properties of `IpMode` have only the
directions that hold. The rest can be seen by stating it: `ipv6_mode` stays if the route is
deleted before the address, and IPv4 is then not published until both mode files are gone; an
address that comes after its route never publishes IPv6; and, with the addresses for it, the
delete of one of two addresses removes `ipv6_global`, and the delete of a unique local address
never clears `estb_ipv6`.

Bounds. `RcvBuf` stands for the socket's buffer, in messages; with `CanDrop` FALSE
the kernel waits where it would drop, which only bounds the exploration. `Proc`
and `Timer` bound the scripts that run at once, `MaxRestarts` the restarts.
`CanOverlap` and `CanReplace` separate what holds when messages are far apart
from what goes wrong when they are close together (with `CanOverlap` and two
addresses, `NoNeedlessRestart` fails as well: the file outlives the address's
return). `MaxMoves`, `MaxEvents` and `MaxCalls` bound what the kernel and the clients do.
Symmetry is used in `ip_mode` only, among the processes. Deadlock
is checked in every run but `clients` and there is none: the kernel, the messages or time
go on (`AtRest` of `Commands` and of `IpMode` is the state where the bound is reached and all is handled). In
`clients` the bounds on notifications and queries end every behaviour in a state where
nobody has anything left to do; `NobodyIsStuck` and `EveryCallReturns`
say that nobody is waiting there.

Fairness. `FairSpec` has weak fairness on `MainStep` (the main thread is never
blocked: nobody else takes the mutex before `run()`) and on `CacheThreadStep`
(`cacheMgrMsg` loops without a condition, `netlinkifc.cpp:493`, and its callbacks
hold the mutex only while they run). That of `ClientApi` has weak fairness on the
monitor's thread and on each query that has been made. It does not assume that the
mutex is fair: with finitely many queries and notifications each waiting thread is at last
the only one that wants it. Nothing is assumed of the kernel, so the
liveness properties start from what the kernel does: "whatever stays in its
tables".

## 4. The proofs

All constants are arbitrary: any sets of links, addresses, routes, names, gateways,
threads and subscribers, any buffer size, with or without losses. The assumptions used
are those the modules state: `ObjectsAssumption`, `MarkersAssumption`, `BufferAssumption`
and `RoutesAssumption` for the monitor (the last says that the marker `NoClone` is not a
clone), `CommandsAssumption` for the commands, `QueriesAssumption`, `SubscribersAssumption`
and `MarkersAssumption` for `ClientApi`, `IpModeAssumption` and `IdleAssumption` for the IP
mode scripts (the second says that `Idle` is not a script), `GatewaysAssumption` for the
default route script, `SleepAssumption` and `BoundsAssumption` for the recovery.

In `NetLinkIfcProofs`:

* **`TypeCorrect`**: `Spec => []TypeOK`. `TypeOK` is inductive; the module begins
  with the lemmas for the external part (`IncludeType`, `RefillType`,
  `KernelStepType`), one lemma per handler covers the rest.
* **`CachesConverge`**: `Spec => []CacheConverges`. Alone it is not inductive: were
  a cache filled before its group was joined, the kernel could change the table
  unheard; and were a message of a group that is not joined in the queue, it
  could be the newest in the queue and yet older than the table. `ConvergeInv`
  adds these two facts (`Joined`, `QueuedAreJoined`).
* **`LinkFeedImplemented`**: `Spec => LinkFeedSpec`, the refinement. `LinkInv` says
  that the static maps and the words last published agree, that an operational
  interface is up, and that no handler runs in state INIT; then every step is an
  `Announce` of one name or a stutter. It holds with losses too.
* **`ClonesAreCurrent`**: `Spec => []CloneIsCurrent`. `CloneInv` describes the walk:
  the clone of a kind that has been walked is current, that of the kind being
  walked is missing only while all it holds is still to be visited, and later
  ones are missing; a callback that is pending can be about only the
  clone it is going to renew.

In `FeedProofs`, on top of these:

* **`AddrFeedTrue`**: `Spec => []AddrFeedMatchesClone`. `AddrInv` follows an address through
  the walk of `initialize()`: it has been said "add" or ignored exactly when it has been
  visited, and a callback that is pending about it is the one thing that the clone does
  not show yet.
* **`AddrMessagesInTurn`**: `Spec => AddrMessagesAlternate`, from the same invariant: what has
  not been visited has not been told, and a callback that adds is about an address the
  clone has not. `IpMode` and `Ipv6Recovery` take this for granted of their environments.
* **`QueriesShowKernel`**: at rest, every object shows in the queries as it is in the kernel.
  This is the safety half of `ClonesConverge`, from `CachesConverge` and `CloneInv`.
* **`RouteFeedTrue`, `DfltFeedTrue`**: at rest the two route feeds agree with the kernel.
  `RouteInv` says that what was last told about a route is what the route cache holds,
  but for a callback under way; `CachesConverge` takes it from there to the kernel.
* **`DeletesMatchAdds`**: the action property `DfltDeletesMatchAdds`, from the same
  invariant. No loss of messages disturbs it, because `RouteInv` speaks only of the cache.
* **`EventsNamed`**: `Spec => EventsNameTheirLink`. While no message was lost, only
  `initialize()` can meet an address without the name of its link. `NamedInv` says why not later: the address group is
  joined after the link cache is filled, and in the one socket the message that creates a
  link is ahead of those about its addresses, so the link is in the cache when the first of
  them is handled (`KnownAt`).
* **`LinkFeedTrue`**: `Spec => []LinkFeedMatchesKernel`. The words are kept by name and two
  interfaces may use one name in turn, so it is not enough that each object's last message
  is right. `SaidInv` says, while nothing was lost: if no queued message is about a name,
  what was said of it is what the kernel has; a message that repeats the cache says
  what is known already; after the last message about an interface that is there, no other
  one of its name follows; and a name passes only from an interface that went down, or was
  removed, to one that starts down, which is why the silent removals do no harm.

In `CommandsProofs`, about monitor and commands together (`CSpec`):

* **`CommandsTypeCorrect`** and **`CommandsKeepFeeds`**: the results above hold with
  commands too, the link feed and the names of address events among them. A request that
  the kernel grants is nearly a step of the kernel, so the invariants of the monitor carry
  over; what needs a proof is that they hold while `initialize()` waits in the middle of a
  walk for a command of its own callback, and while what is granted goes beyond the
  kernel's own steps. `Requested` states how far that is: a command makes no address, and
  neither makes nor removes an interface. `LinksThere` adds that the kernel keeps no address of an interface it has not.
* **`AsksOnlyForWhatWasAsked`**: `CSpec => OnlyWhatWasAsked`. `CommandInv` says that all a
  command has still to visit has passed its filter.
* **`ActivatedTrue`**: `CSpec => []ActivatedIsUp`; an interface already visited by the second
  walk is up, gone, changed by the kernel since, or one whose request to come up was refused.
  `SecondWalk` forgets the refusals of the first, so that only the last request counts.
* **`SurvivorsTrue`**: `CSpec => []SurvivorsAreOnTheirWay`. The property is not inductive: the
  cache thread may take a message that repeats what the cache holds, without a callback.
  `SurvivorInv` therefore asks for a message that differs from the clone (`Noted`), which
  the last message about an object that has changed always is (`Behind`, `LastExists`), or for
  a refusal: then, if no message is on its way, the clone is what the kernel kept.

In `ClientApiProofs`, first four parts of one inductive invariant (`Invariance`): `DataInv`
(types), `MutexInv` (who holds the mutex, and how often, is determined by where the
threads are: one that walks holds it, the monitor holds it from its callback's start to
its end, once more inside `runStateMachine`, and once more during a query of a callback),
`CacheInv` (the clone of the kind under way is valid and equal to the cache while
anything is published) and `WalkInv` (what a walk has found is what the reference
`Answers` would find among the objects visited so far).

* **`WalksSafe`**, **`CallbackSees`**: `Spec => []WalksAreSafe`, `Spec => []CallbackSeesItsEvent`.
* **`Refinement`**: `Spec => QuerySpec`. `Leave` maps to the reply; the freed clone between
  the two lines of `updateCloneConfig` is mapped to the one that is about to come, which
  is sound because nobody walks meanwhile. Without the strict comparison in
  `get_default_route_cb`, or with a walk outside the mutex, the step fails.
* **`StandingHeard`**: `Spec => []StandingHearOnce`, from a second invariant. `LoopInv` says
  that the loop has invoked, in order, exactly those standing subscribers that are at or
  before its place in the list. What a callback adds goes to the end and what it
  erases is never its own element, so neither changes the order of the others
  (`KeepsOrder`), and the next element is the one after the loop's wherever that has moved.
* **`TypeCorrect`** and **`NobodyStuck`**: `Spec => []TypeOK`, `Spec => []NobodyIsStuck`, from
  these invariants and `RestInv`. Of the threads that are in a query or a handler
  one can go on: who has the mutex is not at a `lock` it would have to wait for
  (`MutexInv`), and a loop that is not at its end has a next element (`LoopInv`).

In `IpModeProofs`:

* **`TypeCorrect`**: `Spec => []TypeOK`, together with `FlowInv`: which operation and family a
  script has at each of its commands.
* **`Ipv6ModeTrue`**: `Spec => Ipv6ModeIsPublished`, for any number of scripts. `ModeInv` is about
  the scripts of `ipmodechange.sh` that ran beside none announcing the other mode: none runs
  now either (`Clash`), and at each line what it has tested or done is still so (`Line`): once it
  has found `ipv6_mode` gone or removed it, nobody puts it back, and once it has published
  IPv6, nobody publishes IPv4. A script that announces nothing, as the delete of an IPv4 route,
  cannot disturb this.
* **`GlobalFlagTrue`**: `Spec => []GlobalFlagIsReal`, and **`EstbTrue`**:
  `Spec => []EstbFollowsAddresses`, for any number of scripts. Both properties speak of the moment when all is
  handled; the invariants say what holds before. `Known(a)` is what the script has been
  told of an address: the kernel's table with the waiting notifications undone. That each
  waiting notification reverses what is known (`Alternates`) makes `Known` change only when
  a script starts (`KernelTells`, `StartTells`). The script of an add runs for an address that is known, unless its delete overtook it, which
  `raced` records (`ScriptInv`). Then a global flag belongs to a known
  address or is about to be removed (`GlobalInv`), an `estb_*` file belongs to an address of the kernel or one
  that is leaving, or a script is about to look into it (`EstbReal`), and it is there for each
  known address that no waiting delete is about to take (`EstbThere`). The last needs `Looked`: an interface in which the script of a delete found
  nothing has no address that will stay, although the kernel it asks is ahead of what it knows.

In `CheckDefaultRouteProofs`:

* **`TypeCorrect`**: `Spec => []TypeOK`.
* **`FlagIsRight`**: `~CanOverlap` implies `Spec => []FlagMatchesFile`, for any number
  of instances, any substring matches, replaced gateways and messages of six or
  seven words. The property speaks of quiet states only, so the invariant
  `FlagInv` says what holds between the commands: a delete's script is alone
  (`DeletesAlone`); a line, or an add past its test of the flag, means that the flag
  is there; a flag without a line means that some script is still to add a line or to
  test for one; and what `sed` writes back is still in the file (`FlagLines`).
  Without `~CanOverlap` the second fact is lost: a delete's `rm` can come between an
  add's test of the flag and its line.
* **`RoutesHaveLines`** and **`FlagWhileRoute`**: `Apart` implies `Spec => []GatewayHasLine` and
  `Spec => []RouteHasFlag`. `Apart`: deletes run alone, no gateway's text is part of another's,
  no two routes share one, messages are complete. Gateways may be replaced.
  `RouteLines` ties each route to a line or to a script about to write it.
* **`FileFollowsRoutes`**: `Calm` implies `Spec => []NoRouteNoTrace`. `Calm`, which is what
  `RouteQuiet.cfg` has, is `Apart` and that no route changes its gateway: only then does
  each line belong to a route or to a script about to drop it (`LinesRoutes`). The two findings about this script
  are what happens without `~CanOverlap` and `~CanReplace`.

In `RoutePipeline`, about monitor, commands and scripts together:

* **`MonitorIsEnvironment`**: under `CSpec`, what the dfltroute feed tells changes only by a
  publication about one route, an add makes its gateway the one heard, and a delete is
  about a route that was heard of and names the gateway that was heard. This is what
  `RouteAdded` and `RouteDeleted` assume of the monitor, losses and commands included.
* **`GatewaysReachTheFile`**: with `Apart`, when all messages are handled and no script runs
  (`AllHandled`), every default route that the kernel has with a gateway and an interface has its line
  in the file, and the flag is there. `RouteInv` ties what was heard to the kernel, `RoutesHaveLines` the
  file to what was heard. Like all of these, it is about lossless behaviours: `Quiescent`.
* **`NoRouteReachesTheFile`**: with `Calm`, when all is handled and the kernel has no default route, there is
  no line and no flag, unless the last that was told of a route is that it lost its gateway
  (`LostGateway`): the feed published that to `NlType::route` and not to `NlType::dfltroute`.

Both suppose that each message named its interface (`DfltMessageNamesInterface`). The run
`dflt_names` shows that the code does not ensure this, and the script ignores a message of six
words; the scripts' own `FlagIsRight` does not need it.

In `Ipv6RecoveryProofs`:

* **`TypeCorrect`**: `Spec => []TypeOK`, with overlapping scripts too.
* **`Recovers`** and **`RestartsWhenNeeded`**: `~CanOverlap` implies `Spec => []RecoveredInTime`
  and `Spec => NoNeedlessRestart`. `RecoveryInv` says that nothing wakes while a script runs
  (`Apart`), that a script acts on the addresses as they are (`Timely`), that a file which an
  address has made out of date is about to be removed (`FileRemoved`), and that a restart
  which is due has a script on its way or a sleep that ends in time (`OnItsWay`).

Only model-checked: liveness (`ClonesConverge`, `FeedsConverge`, `EveryCallReturns`), which
is out of the prover's reach; what they say of safety is in `QueriesShowKernel` and
`NobodyStuck`. All other properties of the passing runs are proved. The findings are
counterexamples on one instance each.

## 5. Not modelled

* A failing `nl_cache_mngr_alloc` or `nl_cache_mngr_add`, and the cache pointers nobody
  initialised: what then happens is undefined, and there is nothing to enumerate.
* `get_instance()` called for the first time by two threads at once, changes of the
  subscriber list by other threads, and a callback that deletes its own subscriber:
  undefined as well (data races, an invalid iterator).
* A lock of the client's own, held around a query and taken in its callback. It deadlocks
  with `g_state_mutex`; no code of the repository does it.
* The firewall rules of `ipv6addressChange.sh` and the restart of `tr69agent`.
* The pid file, the service unit and a restart of nlmon alone. The process then begins anew with
  the `Init` of the monitor (after a reload too: nothing handles its SIGHUP), but the files of
  the scripts in `/tmp` are those the earlier one left. `CheckDefaultRoute` and `IpMode` begin
  without files, as after a boot. `Ipv6Recovery` has reboots, which its file survives.
* The order of the up to two publications, of the administrative and of the operational state,
  about one link notification: `processlink_rtnl` is one step, and no other thread acts between
  them that does not wait for the mutex, but for `Poll`, which changes nothing they say.
* The root `addressmonitor.sh`, which `rdk_build.sh:207-213` never installs; the logging scripts;
  build files.
* `changedefaultroutepriority` and `routeexists`, which are declared and not defined.
* Formatting, logging, libnl's reference counts other than those of the clones, allocation
  failures, and that `getIpaddr` appends to its caller's vector where `getInterfaces` replaces it.

## 6. Plan

The modules above were built in the order in which their results are consumed: the
external world and the monitor core, the scripts with the most intricate interleavings,
then clients, commands and the IP mode scripts, and at last `RoutePipeline`, which composes
the first two. What is left, by what it would add:

1. `IpMode` and `Ipv6Recovery` in the pipeline, to tie their files to the kernel's tables as
   `RoutePipeline` does for `checkDefaultRoute.sh`. `IpMode` asks the kernel directly, so its
   table has to be the monitor's, ahead of what was told.
2. A restart of nlmon that leaves the scripts' files as they are.
3. What remains of the default route script's files when messages were lost.
