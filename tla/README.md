# Verification of the anisa relay

TLA+ specifications, model-checking configurations and machine-checked proofs kept beside the
TypeScript packages of the relay (`packages/*`). Every definition is translated from the source;
`PROJECT.json` maps it to its lines. Code paths below are relative to `packages/`.

Run `tlc -config X.cfg M.tla` for the runs listed below and `tlapm M.tla` for the modules
`*Proofs.tla`.

## 1. The system

The relay is one Node.js process. A dependency container loads plugins in the order of a
configuration file; the plugins are a logger, an event emitter, database connections, the
peer-to-peer interface and a public HTTP API. Everything runs on one event loop: between two awaits
nothing else runs, and at every await anything may.

| Component | State | Operations | Interacts with |
|---|---|---|---|
| `container/src/container.ts` | `isReady`, `shuttingDown`, registry, exit | `setUp`, `tearDown`, `forceExit`, handler of SIGINT and `exit` | registrar; every plugin resolves others here |
| `container/src/registrars/plugin.ts` | `plugins`, `deregister`, `failedPlugins` | `setUp`, `register`, `registerWithContainer` (recursive), `tearDown` | container registry, the plugins' `register`/`deregister` |
| `p2p/src/peer-storage.ts` | maps of peers and of pending peers | set, forget, same-subnet query | processor, monitor, event listener |
| `p2p/src/peer-processor.ts` | none of its own; suspended `acceptNewPeer` calls | `validatePeerIp`, `validateAndAcceptPeer` | storage, communicator, connector |
| `p2p/src/peer-communicator.ts` | fields of `Peer` (`lastPinged`, `state`, `latency`) | `ping`, `getPeers`, `hasCommonBlocks`, `pingPorts` | connector; emits `internal.p2p.disconnectPeer` |
| `p2p/src/peer-connector.ts` | table of sockets, table of errors | `connect`, `disconnect`, `terminate` | handlers of the sockets |
| `p2p/src/event-listener.ts` | none | forgets a peer and its socket on the event | storage, connector |
| `p2p/src/network-monitor.ts` | scheduling flag, `coldStart`, suspended updates | `start`, `updateNetworkStatus`, `discoverPeers`, `cleansePeers`, seeds, fork refresh | processor, storage, communicator, timer |
| `p2p/src/rate-limiter.ts` | points per address, global and per endpoint | `hasExceededRateLimit`, `isBlocked` | rate-limiter-flexible |
| `p2p/src/socket-server` | external server | middleware, constant answers | socketcluster |
| `event-emitter` | listeners, limit of listeners | `on`, `once`, `off` | every plugin |
| `database-manager`, drivers | connection and query executor per name | `make`, `connect`, `disconnect`, `any` | forces the exit from a callback; queried by the api |
| `wallet-api` | HTTP and HTTPS servers | `start`, `stop`, `restart`, requests | hapi; plugin registration is not awaited |
| `logger-manager`, `logger-pino` | driver | log lines | needed by `exit()` |
| `core` | configuration file, pm2 processes | `core:start`, `core:stop` (with and without `--daemon`), init hook | pm2, file system |
| `container/src/config`, `environment.ts` | configuration directory, `peers.json` | load, fetch of seeds | read at every start |
| `scripts/upgrade` (repository root) | directories of both versions | the steps of `main` in `upgrade.js` | the directory a node starts from |
| `interface`, `utils` | none | types, stateless http client | |

What is hard, and for which property it calls:

* **Verification of an address** is split by a ping. Lists of peers, seeds, evictions and failing
  pings interleave with it and meet in two maps and a table of sockets keyed by address. The maps
  must stay apart, a verification must own its pending entry, nothing may be left behind.
* **Updates reschedule themselves** through a flag; an update can end in six ways (too many peers,
  failed discovery, malformed list, timed-out pings, seeds, malformed seeds), and public methods let
  the application start more of them.
* **Recovery**: dead peers must leave and the seeds must bring the relay back.
* **Recursive registration** with suspended calls, required and optional failures, and a shutdown
  that may come between any two awaits and iterates over a live array.
* **Limits per address** are kept by several windows that concurrent requests consume one after the
  other; a ban has to last its time and to end.
* **Databases and servers** come up behind the back of the calls that start them, are restarted,
  lost and torn down while requests run queries.
* **Commands** are processes of their own that rewrite one file in place, and **the upgrade** moves
  and rewrites whole directories; either may die between any two calls, and be run again.

The hazards, each at its line with the properties about it, are in `PROJECT.json`.

## 2. Modules

| Module | Models |
|---|---|
| `PeerLifecycle` | abstract: what the package promises about one address (absent, pending, accepted) |
| `PeerStore` | processor, storage, event listener, the sockets' table, pings: general callers |
| `NetworkMonitor` | EXTENDS `PeerStore`: the actual caller, the timer, the hosts of the network |
| `PluginRegistrar` | registration and tear down of plugins |
| `Container` | EXTENDS `PluginRegistrar`: set up, SIGINT and the exit event, forced exit, the application's tear down |
| `RateLimiter` | points, windows and bans per address, requests of the status |
| `Databases` | connections and executors of the three drivers, queries |
| `ApiServer` | EXTENDS `Databases`: the two servers of the wallet api, `start`, `stop`, `restart` |
| `Services` | EXTENDS `ApiServer`: both in one process, from registration to tear down, with requests |
| `Commands` | `core:start` and `core:stop`: `config.json`, the token, the questions to pm2 |
| `Configuration` | what a node reads and writes of its configuration directory |
| `Upgrade` | EXTENDS `Configuration`: `upgrade.js` and `upgrade.sh`, with starts of the node in between |
| `MC*` | small instances |
| `PeerStoreProofs`, `NetworkMonitorProofs`, `RateLimiterProofs`, `ContainerProofs`, `ServicesProofs`, `CommandsProofs`, `UpgradeProofs` | the theorems of section 4 |

Definitions whose comment starts with "Fault:" are not part of any specification. Each is a variant
of the definition that follows it with a plausible mistake in it; substituting it must break the
property `PROJECT.json` pairs it with, which shows that the property can see the mistake.

### PeerStore

One action is one turn of the event loop. `peers[ip]` is the `Peer` object of the map, `pending` the
keys of `peersPending`, `connections` the keys of the connector's table, `recent` the addresses whose
stored object answers `recentlyPinged()`. A call suspended at its await is an element of `accepting`
(an `acceptNewPeer` with the object it pings) or of `pings` (a ping inside a `cleansePeers` call).

* `validateAndAcceptPeer` runs without an await up to its ping, and `Promise.all(list.map(...))`
  starts all of a list before anything else: so `AcceptPeers(batch)` and `PopulateSeedPeers` are one
  action for the list, and every address is judged by the same list of peers.
* `AcceptSucceeds` and `AcceptFails` are the two ways that call resumes; try, catch and finally are
  one action.
* A failing ping of `cleansePeers` emits `internal.p2p.disconnectPeer`, which the listener handles
  synchronously: `PingFails` contains `DisconnectPeer`. Eviction is by address; the object the ping
  was about may have been replaced.
* `Peer` objects have identities from `Objects`. `NewPeer` takes one no suspended call and no map
  entry of the address refers to, so identities can be reused without changing the meaning.
  `Unused(ip) # {}` in `Verify` and in nothing else is a bound of the model.

The callers are the most general ones, so what is shown here holds for every caller.

### NetworkMonitor

`call[u]` is an `updateNetworkStatus` call: its stage names the await it is suspended at, `own` the
number of peers counted before asking, `waits` the verifications a `Promise.all` waits for and `run`
its cleansing. `timers` counts `scheduleUpdateNetworkStatus` calls suspended at their delay, apart
from the flag `scheduled`. `up` is the set of hosts that answer; `HostChanges` changes it at any
time. `Conclude` is everything after the try/catch of `updateNetworkStatus`.

Options as constants: `MinimumNetworkReach`, `IgnoreMinimumNetworkReach`, `SkipDiscovery`,
`NetworkStart`, `DisableDiscovery`. Environment as constants: `ExternalCalls` (the embedding
application calls public methods), `SlowPings` (a ping outlives `pingDelay`), `Unreliable` (a host
that is up fails to answer), `MalformedLists` and `MalformedSeeds` (an entry that is no address).
Such an entry makes `validateAndAcceptPeer` reject, since `getSameSubnetPeers` throws, as soon as a
peer is stored to compare it with: in a list that fails the discovery, which is caught; among the
seeds it is not, `updateNetworkStatus` or `start` rejects (`SeedThrows`, stage `failed`), and no next
update is scheduled. A relay whose `peers.json` has no list exits in `start`; that forced exit is
`PluginForcesExit` of `Container`. No code of the repository calls `start()` itself, nor
`refreshPeersAfterFork` and `completeColdStart`; they are called by the embedding application.

A ping cannot outlive the delay of `cleansePeers` with the default options (2 s for the socket plus
5 s for the answer against `verifyTimeout` 60 s); it can when `verifyTimeout` is lowered or with
`fast`, hence `SlowPings`.

### PluginRegistrar and Container

The nested calls of `registerWithContainer` are a stack of frames; `at` names the part that runs
next. `registry` stands for the awilix container, so `resolvePlugin` and `has` are membership;
`failed` are the keys of `failedPlugins` (module names and package names are the same for the
listed plugins). `tearing[t]` is the index of the array iterator of a `tearDown` call: the iterator
runs over the live array, which `reverse()` turns in place when another call starts. `order` and
`torn` are history.

`ForceExit` looks the logger up, as `exit()` does: without one, `logger.error` throws before
`process.exit`. `rejected` says that `setUp` rejected; `CommandExits` is the command that awaits it:
oclif reports the error and exits with 1. The handler is installed for the event `exit` too; it runs
whenever `process.exit` is called, finds `shuttingDown` set by whoever called it, and has work only in
`CommandExits`, where it sets the flag and has nothing to tear down. Ends of the process that the
container does not bring about (an uncaught exception, a kill) are left out. An exception in the SIGINT
handler or in `register` after an await is an unhandled rejection, which Node.js up to version 14
reports without ending the process (`engines` asks for `>=10.x`).

### RateLimiter

`consumed[l][ip]` and `expires[l][ip]` are the entry of an address in the memory of limiter `l`: the
global one or that of an endpoint. A request is a call of `getRateLimitStatus`: `Ask` is `isBlocked`
and the start of `hasExceededRateLimit`, `ConsumeGlobal` and `ConsumeEndpoint` are its two awaits in
their order. rate-limiter-flexible is modelled as it is configured: the first point opens the window,
the first one too many replaces it by the ban, further ones do not prolong it. The promises of a
memory limiter settle in microtasks, so `Tick` (a second passes) waits until no request is under way.
`served` and `banned` are history: what was let through, and how long a ban the address has earned.

### Databases, ApiServer and Services

`db[d]` is the connection of a driver. For mysql and mssql, `make()` leaves it `connecting` and
returns; `Connected` is the callback, which forces the exit on an error. The pool of postgres is
`open` from the start. `ConnectionLost` is an error event nobody listens to: it ends the process
unless queries under way take it. `query[c]` is one call of an executor.

`phase[s]` is hapi's phase of a server; `Change` begins a start or stop and `Settled` ends it.
`CreateServer`, `Register` and `Mount` are `start()` with the registrations it does not await.
`stop()` and `restart()` are walks over a list of calls of hapi, `at[w]` is the call each is at;
hapi refuses some calls in some phases, and a start while plugins are registering (`May`), which
rejects the walk. A registration that fails is the last of its server (`failed`), and frees hapi to
start it. `resolved` is what the module of the handlers found in the container: it looks the
connections up when it is loaded, once for both servers (`Requires`), and `Any` uses what it found.
`Services` adds the order of the container, requests that are authenticated (the comparison of the
password is awaited) and send two queries in a row, a restart by the application and SIGINT. A request
needs the routes, and the session its controllers use (`Handling`).

### Commands

Every slot `command[c]` is a process of the operating system. A write of `config.json` is two steps,
`Truncate` and `Write`; `Remove` unlinks the file under whoever has it open (`held`), and two writers
at once may leave a mixture. `Parse` is the end of the hook and the choice of kind and token. The
kinds are the commands there are: `core:start` (`run`) goes on in the container and asks pm2 nothing,
`core:stop` stops or deletes. `Check` is one question to pm2, in the order of `Checks`; `Act` is the
call. The abstract start and restart commands of `shared/` are extended by no command and are not
modelled. `Crash` is possible anywhere.
`alone` says that no other command ran beside it, `harmed` that a write was cut short or mixed, or
that the file was read in the middle of a write: both are history. `Pm2` is what happens outside of the
commands: the user has pm2 start a process, which fails, or is lost track of while pm2 restarts it.

### Configuration and Upgrade

`dir` is the configuration directory as far as version 2 reads it, `node` a node that starts from it:
`Load` is everything up to the first await, in which every file is required (`Reads`), `LoadFails`
every start that throws until then, `Fetch` merges the seeds (`Merge` is the loop of `buildPeers`, a
function of the number of fetched peers seen) and opens `peers.json`, `WritePeers` writes it. Only
then are the files validated (`Validated`): a start that is refused for an old `delegates.json`
(`Accepts`) has rewritten `peers.json` before. `Torn` is a file cut short. `Upgrade` has one
action per file operation of `main`, in the order of the script (`script.pc`); `Put` may tear the
file it writes, and so may `WriteCommander`; `Rewrite` throws when the `delegates.json` it requires is
missing or torn (`Rewritable`); `cut` remembers which files a write was cut short of. `Die` ends the
script anywhere, `Rename` is what `upgrade.sh` does after it in any case. A node may start between two
runs. Once `MoveData` has moved the data directory, the script cannot be run again: it wants `.env` in
the old one. `clutter` are snapshots or databases in the way.

## 3. Runs

| Run | Module / cfg | Shows |
|---|---|---|
| `store` | `MCPeerStore` | maps and sockets consistent, one verification per address, objects never replaced in place; implements `PeerLifecycle` with its liveness |
| `subnet_limit` | `MCSubnetLimit` | **violated**: `defaults.ts:30` against `peer-processor.ts:51` |
| `monitor` | `MCNetworkMonitor` | overlapping updates and cleansings, slow pings, unreliable hosts, malformed lists and seeds, calls by the application: the flag stands for the one delay there is |
| `monitor_liveness` | `MCMonitorLiveness` | the relay's own loop: start, the delay and one update take turns, cleansing only checks listed peers, updates recur, dead peers leave, seeds bring the relay back; the monitor satisfies `StoreSpec`, fairness included |
| `container` | `MCContainer` | a testnet configuration with included, excluded, missing and empty plugins, every fault, forced exits, tear downs of the application, SIGINT anywhere |
| `force_exit` | `MCForceExit` | **violated**: `interface/src/container/container.ts:83` against `container.ts:124` |
| `tear_down_fails` | `MCTearDownFails` | **violated**: `plugin.ts:49` against `plugin.ts:54` |
| `rate_limiter` | `MCRateLimiter` | limits hold under concurrent requests, bans last and end, the two answers of a status agree |
| `services` | `MCServices` | a restart that resolves leaves all servers listening, databases end behind the servers, queries find their connection, the tear down ends |
| `commands` | `MCCommands` | `core:start` and `core:stop` overlap and die: one that runs alone repairs the file and stops what it found running, the user's token survives |
| `upgrade` | `MCUpgrade` | the script dies anywhere and is run again, with starts in between: the user's files and seeds are kept, a script that ends is complete |
| `upgrade_env` | `MCUpgrade` / `MCCommander` | **violated**: `upgrade.js:67` against `upgrade.js:93` |

The four violated properties are documented promises the code does not keep; the findings in
`PROJECT.json` quote both sides. Two more divergences need no run, because no code stands behind the
words: `blacklist` is read nowhere (`defaults.ts:38`), and `skipDiscovery`, described as skipping the
initial discovery, leaves nothing to schedule a later one (`network-monitor.ts:71`).

### Properties that say less than one may expect

* `PingsCheckListedPeers` holds for the relay's own loop only. With overlapping calls of the
  application or slow pings a late ping evicts by address a peer verified since.
* `DeadPeersLeave` is demanded while the relay is below its minimum of peers and lists are well
  formed. A relay that is well connected does not cleanse when `discoverPeers` answers false, and
  one malformed entry makes a discovery fail and the cleansing be skipped.
* `GracefulExit` assumes an application that looks at `shuttingDown` before it tears down. A tear
  down of the application that starts after SIGINT reverses the array under the running one.
* `UpdatesRecur` needs well-formed seeds: one malformed seed beside a stored peer ends the loop, in the
  code and in the model. `UpdatesTakeTurns` holds for such seeds, malformed lists and slow pings too
  (the theorem; the run has none of them), but not when the application calls `updateNetworkStatus`.
* `ForceExitExits` fails inside the process: without a logger `forceExit` throws, so that neither its
  message is printed nor `process.exit` reached. Started by a command, the process then ends with the
  code 1 of oclif, which `ShutdownEnds` relies on; an application that catches the rejection goes on
  with a container that ignores SIGINT.
* `TearDownInReverse` and `ShutdownEnds` exempt a tear down that was rejected by a failing deregister
  function (`tear_down_fails` shows that case) and one the application runs beside the other.
* SIGINT before `isReady` exits at once, without deregistering what is registered so far. That is
  the code's choice and the model's.
* `isBlocked` is true from the last allowed point on, before anything was exceeded;
  `BlockedIsExceeded` says what is left of its meaning. `BansEnd` needs event-loop turns without a
  request under way, or the timers that forget a window never fire.
* `RestartedListen` speaks of a `restart()` that resolves, until `stop()` is called; one that hapi
  refuses is rejected and may leave a server down. A server may listen whose registrations failed:
  `restart()` starts it.
* `EndedBehindServers` excepts servers that were started, by `restart()` or at the end of their
  registrations, after `stop()` was called, and those a rejected `start()` leaves behind.
  `TearDownEnds` counts a rejected tear down as ended.
* `TokenKept` excepts `harmed`, for in those cases the code does lose the token: a command that dies
  in the middle of a write leaves a file the next one resets, and so may two commands at once, whose
  writes mix or one of which reads half of what the other writes. It also excepts a user of the
  default token (`Bin`), which a reset brings back.
* `AloneActs` speaks of a `core:stop` without another command beside it; with one, every answer may be
  stale when it is used, and pm2 refuses the call.
* `UserFilesKept` and `PeersKept` allow a file to be torn once a write of that very file was cut short,
  by the script or by a start; nothing repairs it. They do not allow it to be lost or reordered.

### Bounds

| Bound | Value | Why it is enough |
|---|---|---|
| `Ips` | 3 (a seed, a discovered, a third address); 1 in `monitor` | state is per address; addresses interact only through the subnet count, the minimum of peers and the lists, for which two others suffice. What overlapping calls race for is the entry of one address |
| `Objects` | 4 in `store` and `monitor`, 2 otherwise | one stored or being verified, and one per suspended ping of another object. Two pings of one object coexist; `store` and `monitor` have two runs, the others one, so no verification is ever blocked |
| `Runs`, `Updates` | 2, but 1 in `monitor_liveness` | two are the smallest number that races. The relay's own loop has one update at a time: a second one would begin from a delay, or from `start`, that stands beside the first, and `UpdatesTakeTurns` forbids both. The theorem has any number. Two runs of slow pings at once hold up a third |
| `MaxSameSubnetPeers` | 2 (1 in `subnet_limit`) | reached by the three addresses, all in one subnet |
| `MinimumNetworkReach` | 2 | lies between no peers and all; in `monitor` it is never reached, so that every update goes on to the seeds |
| Plugins | 9, 7 of them listed | the testnet configuration with one optional plugin of a third party that depends on the api |
| `TearDowns` | `exit`, `app` | the exit handler runs once; the application once |
| `Requests` (rate limiter) | 2 | two calls between whose awaits the other consumes |
| `Points`, `Duration`, `BlockDuration` | 3 global, 1 and 2 per endpoint; 1 and 2 s; 3 s | endpoints together exceed the global limit, one alone exceeds its own; the ban outlives every window |
| `MaxConsumed` | 5 | two above the largest limit: further points change nothing but the number |
| Drivers, servers, `Clients` | 3, 2, 1 | all there are; a client is one request at a time, and requests do not read each other's state |
| `Registrations` | 2 of 5 | the routes and, behind them, the session a route needs: a server with the one and without the other is among the states. The other awaits only widen the window in which `stop()` and `restart()` come |
| `Commands` | 2 slots, used again for ever | what goes wrong needs a writer and one beside it. The theorems hold for any number |
| `Tokens`, `Releases`, `Flags` | 2, 2, none | the package's and the user's; both channels. A flag names a token without a read of the file, which leaves the file's properties alone; the theorems allow flags |
| `Peers`, `UserLists`, `Fetched` | 2, 3, 3 | lists that are empty, repeat a peer, or overlap what is fetched |
| `Keys`, `Originals` | 2, 2 of 3 | one key may be there and one not; one required file has no original |

`NetworkStart`, `DisableDiscovery` and `IgnoreMinimumNetworkReach` are FALSE in the runs; the theorems
hold for either value. The run `store` leaves one address out of the whitelist. `SYMMETRY` is used in
`monitor` and `commands`, runs without liveness, over the identities of calls and slots only.
Deadlock is not checked in the runs of the container and the services: a process that has exited stops.

### Fairness

* `StoreFairness`: every suspended ping resumes, for each address and run, because `socketEmit`
  waits two seconds for the socket and then races its answer with a timeout of at most five.
* `MonitorFairness`: `start()` and every update go on when their await has settled, timers fire,
  pings settle, two minutes pass. Nothing is assumed of hosts, lists, sockets or the application.
* `ContainerSpec`: weak fairness of the steps of `setUp` and `tearDown` together: the event loop is
  not idle while one is enabled, a plugin's `register` and `deregister` settle in some way, and the
  command sees a rejection of `setUp`. SIGINT and forced exits have no fairness.
* `RateLimiterSpec`: the awaits of a request settle (microtasks), and time passes: strong fairness of
  `Tick`, which is enabled between requests only; `BansEnd` itself assumes such moments recur.
* `ServicesSpec`: weak fairness of the steps of the container and of hapi together. Connections,
  requests, queries, restarts and SIGINT have none.
* `CommandsSpec` and `UpgradeSpec` are safety specifications: whoever runs a command may stop it.

## 4. Proofs

Every safety property of a passing run is a theorem, for all values of the constants that satisfy the
assumptions of the modules. The invariants below were checked by TLC on the instances of the runs
before they were proved. In each module one lemma per action shows that the inductive invariant is
preserved, and the last theorem combines them.

`PeerStoreProofs`, with `StoreAssumption`:

* `StoreSafe`: `StoreTypeOK`, `VerifiedOncePerAddress`, `PendingIsNotStored`, `ConnectionsOwned` and
  `OnlyAdmissible` are invariants. None is inductive alone: that `AcceptSucceeds` does not leave its
  address pending needs `VerifiedOncePerAddress`, that it stores into a free entry needs
  `PendingIsNotStored`, and that dropping a pending entry leaves no socket unowned needs both.
  `StoreInv` is their conjunction.
* `PeersStay`: `PeersNeverReplaced`, from `StoreInv`.
* `StoreImplementsLifecycle`: the safety part of the refinement of `PeerLifecycle`; each action of
  the store is mapped to the abstract step it takes, or to a stutter.

`NetworkMonitorProofs`, with `MonitorAssumption`:

* `MonitorImplementsStore`: `MonitorSafety => StoreSafety`, whatever the options; so
  `MonitorKeepsStoreSafe` carries the invariants over to the composed system without another
  induction.
* `OneTimer`: `TimerMatchesFlag` for any number of overlapping updates.
* `MonitorTyped`: `MonitorTypeOK`. `MonitorInv` adds `StoreInv` and the timer's invariant to the types.
* `UpdatesNeverOverlap`: `UpdatesTakeTurns` under `~ExternalCalls`, whatever fails, is malformed or
  outlives its delay; without the hypothesis it is false. The property is inductive with `MonitorInv`:
  an update schedules the next one in the turn in which it ends, and in no other way an update begins.
* `PingsHitTheirPeers`: `PingsCheckListedPeers`, under the hypotheses `~ExternalCalls` and
  `~SlowPings`; without them the property is false. It needs `UpdatesTakeTurns` and `PingsAwaited` (a
  suspended ping belongs to the cleanse under way): nothing verifies an address while a cleanse pings.

`RateLimiterProofs`, with `RateLimiterAssumption`, for any finite number of requests under way:

* `RateLimiterSafe`: `RateLimiterTypeOK`, `LimitsHold`, `BlockedIsExceeded`. `LimitsHold` counts
  what was let through; between the two awaits of a request a point is consumed and nothing served
  yet. `PointsCover` therefore counts the requests that wait for their endpoint as well
  (`Cardinality(Waiting(ip))`, hence the lemmas about finite sets): with them, a limit is never passed.
* `BansAlwaysHold`: `BansHold`, an action property, from `BanIsWindow`: the ban an address has earned
  is what is left of the window of its entry.

`ContainerProofs`, with the assumptions of `PluginRegistrar` and `Container`, for any set of plugins,
whatever they extend and depend on, circles included:

* `ContainerSafe`: `ContainerTypeOK`, `RegisteredOnce`, `BasesFirst`, `ReadyIsComplete`,
  `TearDownInReverse` and `GracefulExit`. `CallsNested` says what each suspended call of
  `registerWithContainer` relies on when the call it waits for is over, `LoopHandles` what `setUp` has
  behind it, `RequiredNeverFail` why an ended loop is complete, `ArrayOrdered` how the array, the
  index of the iterator and the history `torn` belong together before and after `reverse()`, and
  `ExitCovers` the same for a tear down of SIGINT that starts beside one of the application's.

`ServicesProofs`, with the assumptions of `Databases` and `ApiServer`, for any choice and order of
drivers and servers, any registrations and any number of clients:

* `ServersSafe`: `RestartedListen` and `EndedBehindServers`, whatever fails. `Stages` relates the
  stage of the process, the plugin that is next, `start()` and `stop()`; `Awaited` that a call of
  hapi that waits waits for the server its walk is at, in the phase the walk asked for, so no two
  wait for one walk; `Restarted` that a server behind the walk of `restart()` listens, and `Passed`
  that one behind the walk of `stop()` is down or was started after the call.
* `QueriesSafe`: `ServicesTypeOK` and `QueriesFindConnection`, under the hypothesis
  `RoutesConfigured`: the databases that the routes query are in the configuration, as in that of
  testnet. Nothing in the api demands it; a configuration without them is answered 500. `Connects`
  says that all drivers have connected when `start()` begins, `Resolves` that the handlers found all
  of them, whichever server loaded their module first.

`CommandsProofs`, with `CommandsAssumption` (in the main: what marks a missing or a broken file is not
itself a file), for any number of commands, tokens, flags and releases:

* `CommandsSafe`: `CommandsTypeOK`, `TokenKept`, `AloneRepairs` and `AloneActs` are invariants. None
  is inductive. `CommandsInv` adds what a command has in hand before it writes (`PendingComplete`),
  that only `core:stop` asks and acts (`ChecksOfKind`), that one that is alone so far is alone
  (`AloneIsAlone`), and three parts that spread the properties over the way to them: how far the file
  is repaired at each step (`Repairing`), what a command knows of the process after each question
  (`Acting`), and that, as long as nothing is harmed, nobody resets the file and whoever rewrites it
  holds its token (`Keeping`).

`UpgradeProofs`, with `ConfigurationAssumption` and `UpgradeAssumption`, for lists of seeds of any
length, any keys and originals, and any number of runs, deaths and starts:

* `UpgradeSafe`: `UpgradeTypeOK`, `UserFilesKept`, `DoneIsComplete` and `PeersKept`, with starts
  that are refused after they have rewritten the seeds among the steps of the node. `UpgradeInv`
  adds where the directories are at each step (`StepsPrepared`), that the old one is as the user
  left it until it is moved (`OldUntouched`), that `.env` has one place at a time (`EnvKept`), how
  far the files are rewritten (`RewrittenSoFar`), and that the node's list in memory follows the
  user's like the one in its directory (`SeedsFollow`).
* `MergeFollows`, the lemma behind `PeersKept`: what `buildPeers` makes of a list that follows the
  user's follows it too. `Merge` is a recursive function on numbers; that it satisfies its equation and
  what it computes are proved from the least number for which it would not (`LeastNat`, from the
  well-foundedness of the order on the naturals), since the library's induction theorems take an
  operator.

What the assumptions say beyond types, and why:

| Assumption | Because |
|---|---|
| `None \notin Nat` and not one of the names it is compared with (registrar, databases, api) | `None` stands for `undefined`, null or a rejected promise |
| `IsFiniteSet(Requests)` (rate limiter) | finitely many calls are suspended at a time; their number is a cardinality |
| `Originals \subseteq Required` (upgrade) | the script copies nothing but required files |
| `Absent`, `Torn` are no content, no directory and no set of keys (upgrade) | they stand for what cannot be read |

Only model-checked: liveness (`UpdatesRecur`, `DeadPeersLeave`, `RecoversFromSeeds`, `BansEnd`,
`ShutdownEnds`, `TearDownEnds`) and the fairness part of both refinements, since
fairness and ENABLED are out of the prover's reach; and the four violated properties, which are false.
`OnlyAdmissible` is in no run: every run keeps to the whitelist by the same test, and the theorem
says it for all addresses.

## 5. Not modelled, and the plan

1. Proofs: abstract specifications of the container (what is registered is a prefix of an order of the
   bases) and of the upgrade (one directory at a time), and their refinements.
2. `PeerSockets`: the sockets behind the table of the connector. `disconnect()` forgets a socket
   without closing it, and its handlers later terminate the address's current one.

Left out for good: the content of pings and blocks (`state`, `latency`, ports), logging, the merging
of options, the event emitter (only the p2p plugin listens, and `PeerStore` handles its event in the
turn it is emitted in), the socket server (an external library around a constant answer), type
declarations. Of `core`, what no command calls: BIP38 prompts, snapshots, checks for updates, the
abstract start and restart commands and their prompt, and the editing of environment files. Of the
upgrade, the directories cache, log and temp, which are moved like the others, and the content of
the files within the data directory.

Divergences met that no run shows: the options of the command line reach the container but not the
p2p plugin (`core/src/commands/core/start.ts:54`); `ignoreMinimumNetworkReach` ("on start") is
honoured on every update; `minimumVersions` is checked nowhere on the path that accepts peers.
