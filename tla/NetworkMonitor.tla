----------------------------- MODULE NetworkMonitor ------------------------------
(***********************************************************************************)
(* network-monitor.ts on top of PeerStore: start(), the self-rescheduling          *)
(* updateNetworkStatus() with discoverPeers(), cleansePeers() and the fallback to  *)
(* the seeds, and the hosts of the network that answer or do not.                  *)
(*                                                                                 *)
(* A call of updateNetworkStatus is a record call[u] whose stage names the await   *)
(* it is suspended at. Several calls overlap only when the application that embeds *)
(* the relay calls the public methods itself (ExternalCalls).                      *)
(***********************************************************************************)
EXTENDS PeerStore

CONSTANTS
    MinimumNetworkReach,        \* option of defaults.ts
    IgnoreMinimumNetworkReach,  \* options of the relay
    SkipDiscovery,
    NetworkStart,
    Updates,                    \* identities of concurrent updateNetworkStatus calls
    ExternalCalls,              \* the application calls the public methods itself
    SlowPings,                  \* a ping may take longer than pingDelay
    Unreliable,                 \* a host that is up may fail to answer
    MalformedLists,             \* a host may answer with a malformed list of peers
    MalformedSeeds              \* peers.json lists an entry that is no address, too

ASSUME MonitorAssumption ==
    /\ MinimumNetworkReach \in Nat
    /\ {IgnoreMinimumNetworkReach, SkipDiscovery, NetworkStart} \subseteq BOOLEAN
    /\ {ExternalCalls, SlowPings, Unreliable} \subseteq BOOLEAN
    /\ {MalformedLists, MalformedSeeds} \subseteq BOOLEAN

VARIABLES
    up,            \* the hosts that answer
    startStage,    \* where the call of start() is
    startWaits,    \* the verifications start() waits for
    call,          \* call[u]: an updateNetworkStatus call
    scheduled,     \* nextUpdateNetworkStatusScheduled
    timers,        \* scheduleUpdateNetworkStatus calls suspended at their delay
    coldStart      \* coldStart

monitorVars == <<up, startStage, startWaits, call, scheduled, timers, coldStart>>
vars == <<storeVars, monitorVars>>

StartStages == {"new", "seeding", "updating", "cooldown", "started", "failed"}
Stages == {"idle", "asking", "accepting", "failed", "cleansing", "seeding"}

Call == [stage : Stages, pingAll : BOOLEAN, own : Nat,
         waits : SUBSET Accept, run : Runs \cup {None}]

Idle == [stage |-> "idle", pingAll |-> FALSE, own |-> 0, waits |-> {}, run |-> None]

MonitorTypeOK ==
    /\ StoreTypeOK
    /\ up \subseteq Ips
    /\ startStage \in StartStages
    /\ startWaits \subseteq Accept
    /\ call \in [Updates -> Call]
    /\ scheduled \in BOOLEAN
    /\ timers \in Nat
    /\ coldStart \in BOOLEAN

---------------------------------------------------------------------------------
(* Helpers *)

HasMinimumPeers ==
    IgnoreMinimumNetworkReach \/ Cardinality(Stored) >= MinimumNetworkReach

\* The peers discoverPeers asks for their lists: at most eight, at random.
SampleSize == 8
Sample ==
    {ips \in SUBSET Stored :
        Cardinality(ips) = IF Cardinality(Stored) < SampleSize
                           THEN Cardinality(Stored) ELSE SampleSize}

\* Identities no cleansePeers call uses
FreeRuns ==
    {run \in Runs : /\ \A u \in Updates : call[u].run # run
                    /\ \A p \in pings : p.run # run}

\* The verifications the turn that is taken starts.
Started == accepting' \ accepting

\* scheduleUpdateNetworkStatus up to its delay
Schedule ==
    /\ scheduled' = TRUE
    /\ timers' = IF scheduled THEN timers ELSE timers + 1

\* updateNetworkStatus settles; start() awaits its initial run and goes on with next.
Settled(u, next) ==
    /\ call' = [call EXCEPT ![u] = Idle]
    /\ startStage' = IF startStage = "updating" /\ call[u].pingAll THEN next ELSE startStage

Return(u) == Settled(u, "cooldown")

\* Fault: the next update is scheduled before the seeds are populated.
ConcludeSchedulesFirst(u) ==
    /\ Schedule
    /\ \/ HasMinimumPeers /\ Return(u) /\ UNCHANGED storeVars
       \/ /\ ~HasMinimumPeers
          /\ PopulateSeedPeers
          /\ call' = [call EXCEPT ![u].stage = "seeding", ![u].waits = Started,
                                    ![u].run = None]
          /\ UNCHANGED startStage

\* Fault: the relay waits for the next update without falling back to the seeds.
ConcludeWithoutSeeds(u) ==
    /\ Schedule
    /\ Return(u)
    /\ UNCHANGED storeVars

\* An entry that is no address cannot be validated beside a stored peer: the test of
\* their subnets throws, unless that peer is a seed before it that was just forgotten.
SeedThrows == MalformedSeeds /\ Stored # {}

\* The end of updateNetworkStatus, after discovery and cleansing or their failure. A
\* seed that cannot be validated makes populateSeedPeers reject, outside of the try:
\* the other seeds go on, but this call rejects and schedules no next one.
Conclude(u) ==
    \/ /\ HasMinimumPeers
       /\ Schedule
       /\ Return(u)
       /\ UNCHANGED storeVars
    \/ /\ ~HasMinimumPeers
       /\ PopulateSeedPeers
       /\ \/ /\ call' = [call EXCEPT ![u].stage = "seeding", ![u].waits = Started,
                                       ![u].run = None]
             /\ UNCHANGED startStage
          \/ SeedThrows /\ Settled(u, "failed")
       /\ UNCHANGED <<scheduled, timers>>

\* updateNetworkStatus up to its first await: it returns at once when the relay is
\* in genesis-start or non-discovery mode, and asks peers for their lists otherwise.
UpdateNetworkStatus(u, initialRun) ==
    /\ call[u] = Idle
    /\ \/ /\ NetworkStart
          /\ coldStart' = TRUE
          /\ UNCHANGED <<call, storeVars>>
       \/ /\ ~NetworkStart /\ DisableDiscovery
          /\ UNCHANGED <<coldStart, call, storeVars>>
       \/ /\ ~NetworkStart /\ ~DisableDiscovery
          /\ \E asked \in Sample : AskPeers(asked)
          /\ call' = [call EXCEPT ![u] = [Idle EXCEPT !.stage = "asking",
                                                      !.pingAll = initialRun,
                                                      !.own = Cardinality(Stored)]]
          /\ UNCHANGED coldStart

---------------------------------------------------------------------------------
(* start() *)

\* The connectivity checks, whose failure is only logged, then populateSeedPeers. The
\* relay has a list of seeds: without one it would exit here, before anything else
\* happens (the forceExit of a plugin in Container).
Start ==
    /\ startStage = "new"
    /\ PopulateSeedPeers
    /\ \/ startStage' = "seeding" /\ startWaits' = Started
       \/ SeedThrows /\ startStage' = "failed" /\ UNCHANGED startWaits
    /\ UNCHANGED <<up, call, scheduled, timers, coldStart>>

SeedsPopulated ==
    /\ startStage = "seeding"
    /\ startWaits = {}
    /\ \/ /\ SkipDiscovery
          /\ startStage' = "cooldown"
          /\ UNCHANGED <<call, coldStart, storeVars>>
       \/ /\ ~SkipDiscovery
          /\ \E u \in Updates :
                /\ UpdateNetworkStatus(u, TRUE)
                /\ startStage' = IF call' = call THEN "cooldown" ELSE "updating"
    /\ UNCHANGED <<up, startWaits, scheduled, timers>>

CoolDownEnds ==
    /\ startStage = "cooldown"
    /\ startStage' = "started"
    /\ UNCHANGED <<storeVars, up, startWaits, call, scheduled, timers, coldStart>>

---------------------------------------------------------------------------------
(* updateNetworkStatus(), from await to await *)

\* The lists of the asked peers are in and name theirs; the own peers were counted
\* before they were asked. An entry that is not an address counts as one of theirs
\* and, beside a stored peer, makes the validation of that entry fail: the others go
\* on, but nothing waits for them.
PeersAnswer(u, theirs, valid) ==
    /\ call[u].stage = "asking"
    /\ call[u].own = 0 => theirs = {} /\ valid
    /\ valid \/ (MalformedLists /\ Stored # {})
    /\ IF \/ call[u].pingAll
          \/ ~HasMinimumPeers
          \/ 4 * call[u].own < 3 * Cardinality(theirs)
          \/ ~valid  \* with as many such entries as it takes
       THEN /\ AcceptPeers(theirs)
            /\ call' = [call EXCEPT ![u].stage = IF valid THEN "accepting" ELSE "failed",
                                    ![u].waits = IF valid THEN Started ELSE {}]
            /\ UNCHANGED <<startStage, scheduled, timers>>
       ELSE Conclude(u)
    /\ UNCHANGED <<up, startWaits, coldStart>>

\* A list with an entry that is no object at all: discoverPeers throws
AnswersMalformed(u) ==
    /\ call[u].stage = "asking"
    /\ call[u].own > 0 /\ MalformedLists
    /\ Conclude(u)
    /\ UNCHANGED <<up, startWaits, coldStart>>

DiscoveryFailed(u) ==
    /\ call[u].stage = "failed"
    /\ Conclude(u)
    /\ UNCHANGED <<up, startWaits, coldStart>>

\* Every verification has settled: cleansePeers looks the peers up and pings them
PeersAccepted(u) ==
    /\ call[u].stage = "accepting"
    /\ call[u].waits = {}
    /\ \E run \in FreeRuns :
          /\ CleansePeers(run, Stored, FALSE)
          /\ call' = [call EXCEPT ![u].stage = "cleansing", ![u].run = run]
    /\ UNCHANGED <<up, startStage, startWaits, scheduled, timers, coldStart>>

\* Fault: cleansePeers does not wait for its pings.
PeersCleansedAtOnce(u) ==
    /\ call[u].stage = "cleansing"
    /\ Conclude(u)
    /\ UNCHANGED <<up, startWaits, coldStart>>

\* The race of the pings and the delay is over: by the pings unless they are slow
PeersCleansed(u) ==
    /\ call[u].stage = "cleansing"
    /\ SlowPings \/ \A p \in pings : p.run # call[u].run
    /\ Conclude(u)
    /\ UNCHANGED <<up, startWaits, coldStart>>

SeedsAccepted(u) ==
    /\ call[u].stage = "seeding"
    /\ call[u].waits = {}
    /\ Schedule
    /\ Return(u)
    /\ UNCHANGED <<storeVars, up, startWaits, coldStart>>

\* Fault: the flag is not cleared after the delay.
TimerFiresFlagged(u) ==
    /\ timers > 0
    /\ timers' = timers - 1
    /\ UpdateNetworkStatus(u, FALSE)
    /\ UNCHANGED <<up, startStage, startWaits, scheduled>>

\* Fault: the update runs whether or not a delay is over.
TimerFiresUnasked(u) ==
    /\ timers' = timers - 1
    /\ scheduled' = FALSE
    /\ UpdateNetworkStatus(u, FALSE)
    /\ UNCHANGED <<up, startStage, startWaits>>

\* The delay of scheduleUpdateNetworkStatus is over
TimerFires(u) ==
    /\ timers > 0
    /\ timers' = timers - 1
    /\ scheduled' = FALSE
    /\ UpdateNetworkStatus(u, FALSE)
    /\ UNCHANGED <<up, startStage, startWaits>>

---------------------------------------------------------------------------------
(* Suspended pings, sockets and hosts *)

\* A settled verification no longer keeps anyone waiting.
Settle(a) ==
    /\ startWaits' = startWaits \ {a}
    /\ call' = [u \in Updates |-> [call[u] EXCEPT !.waits = @ \ {a}]]
    /\ UNCHANGED <<up, startStage, scheduled, timers, coldStart>>

AcceptSettles(a) ==
    /\ \/ a.ip \in up /\ AcceptSucceeds(a)
       \/ (a.ip \notin up \/ Unreliable) /\ AcceptFails(a)
    /\ Settle(a)

PingSettles(p) ==
    /\ \/ p.ip \in up /\ PingSucceeds(p)
       \/ (p.ip \notin up \/ Unreliable) /\ PingFails(p)
    /\ UNCHANGED monitorVars

\* Fault: a peer is no longer listed once its last ping is two minutes old.
StoreAgesForgets(ip) ==
    /\ ip \in recent
    /\ recent' = recent \ {ip}
    /\ peers' = [peers EXCEPT ![ip] = None]
    /\ UNCHANGED <<pending, connections, accepting, pings, monitorVars>>

StoreAges(ip) ==
    /\ RecentlyPingedExpires(ip) \/ SocketTerminates(ip)
    /\ UNCHANGED monitorVars

HostChanges(ip) ==
    /\ up' = IF ip \in up THEN up \ {ip} ELSE up \cup {ip}
    /\ UNCHANGED <<storeVars, startStage, startWaits, call, scheduled, timers, coldStart>>

---------------------------------------------------------------------------------
(* Public methods the application may call: updateNetworkStatus, cleansePeers and  *)
(* refreshPeersAfterFork, completeColdStart                                        *)

ExternalUpdate(u) ==
    /\ ExternalCalls
    /\ UpdateNetworkStatus(u, FALSE)
    /\ UNCHANGED <<up, startStage, startWaits, scheduled, timers>>

ExternalCleanse(run, checked, forcePing) ==
    /\ ExternalCalls
    /\ run \in FreeRuns
    /\ CleansePeers(run, checked, forcePing)
    /\ UNCHANGED monitorVars

CompleteColdStart ==
    /\ ExternalCalls
    /\ coldStart' = FALSE
    /\ UNCHANGED <<storeVars, up, startStage, startWaits, call, scheduled, timers>>

---------------------------------------------------------------------------------

MonitorInit ==
    /\ StoreInit
    /\ up \in SUBSET Ips
    /\ startStage = "new"
    /\ startWaits = {}
    /\ call = [u \in Updates |-> Idle]
    /\ scheduled = FALSE
    /\ timers = 0
    /\ coldStart = FALSE

\* The next turn of updateNetworkStatus call u
UpdateStep(u) ==
    \/ \E theirs \in SUBSET Ips, valid \in BOOLEAN : PeersAnswer(u, theirs, valid)
    \/ AnswersMalformed(u)
    \/ DiscoveryFailed(u)
    \/ PeersAccepted(u)
    \/ PeersCleansed(u)
    \/ SeedsAccepted(u)

MonitorNext ==
    \/ Start \/ SeedsPopulated \/ CoolDownEnds
    \/ \E u \in Updates : UpdateStep(u) \/ TimerFires(u) \/ ExternalUpdate(u)
    \/ \E a \in accepting : AcceptSettles(a)
    \/ \E p \in pings : PingSettles(p)
    \/ \E ip \in Ips : StoreAges(ip) \/ HostChanges(ip)
    \/ \E run \in Runs, checked \in SUBSET Stored, forcePing \in BOOLEAN :
           ExternalCleanse(run, checked, forcePing)
    \/ CompleteColdStart

\* Promises settle and timers fire: every await of the code is bounded by a delay.
\* Nothing is assumed of the hosts, nor of the application beyond its call of start.
MonitorFairness ==
    /\ WF_vars(Start \/ SeedsPopulated \/ CoolDownEnds)
    /\ \A u \in Updates : WF_vars(UpdateStep(u))
    /\ WF_vars(\E u \in Updates : TimerFires(u))
    /\ \A ip \in Ips :
          /\ WF_vars(\E a \in accepting : a.ip = ip /\ AcceptSettles(a))
          /\ WF_vars(RecentlyPingedExpires(ip) /\ UNCHANGED monitorVars)
    /\ \A run \in Runs, ip \in Ips :
          WF_vars(\E p \in pings : p.run = run /\ p.ip = ip /\ PingSettles(p))

MonitorSafety == MonitorInit /\ [][MonitorNext]_vars

MonitorSpec == MonitorSafety /\ MonitorFairness

---------------------------------------------------------------------------------
(* Properties *)

\* The flag stands for exactly one suspended delay, however many calls end at once:
\* a flag left set would stop the updates for ever, two delays would double them.
TimerMatchesFlag == timers = IF scheduled THEN 1 ELSE 0

\* The relay's own loop never doubles: as long as the application does not call
\* updateNetworkStatus itself, start() before its first update, the one delay and
\* the one update take turns, whatever fails or outlives its delay on the way.
\* Each hands over to the next at a different place: start awaits the first update,
\* which schedules the second, which is not awaited by the delay it followed.
UpdatesTakeTurns ==
    /\ \A u, v \in Updates : call[u].stage # "idle" /\ call[v].stage # "idle" => u = v
    /\ timers # 0 \/ startStage \in {"new", "seeding"} =>
           \A u \in Updates : call[u].stage = "idle"
    /\ timers # 0 => startStage \notin {"new", "seeding"}

\* While only the relay's own loop runs and pings end within pingDelay, the object
\* a suspended ping of cleansePeers checks is the one that is listed: the eviction
\* by address never hits a peer that was verified after the ping was sent.
PingsCheckListedPeers == \A p \in pings : peers[p.ip] = p.peer

\* The loop goes on for ever: whatever answers, fails or is malformed, peers are
\* asked for their lists again and again (unless an option switches it off).
UpdatesRecur == []<>(\E u \in Updates : call[u].stage = "asking")

\* A listed peer whose host has died does not stay listed while the relay has too
\* few peers: some later update forgets or cleanses it, though not always the next
\* one, which passes over what was pinged two minutes ago. This needs lists of
\* peers that are well formed: a failed discovery skips the cleansing.
DeadPeersLeave ==
    \A ip \in Ips : ip \notin up ~> \/ ip \in up
                                    \/ peers[ip] = None
                                    \/ HasMinimumPeers

\* As long as the seeds are up, the relay comes back to its minimum of peers again
\* and again, whatever happens to the other hosts.
RecoversFromSeeds == <>[](Seeds \subseteq up) => []<>HasMinimumPeers
==================================================================================
