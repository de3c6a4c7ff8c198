-------------------------------- MODULE PeerStore --------------------------------
(***********************************************************************************)
(* The peer list of the relay: PeerStorage, the PeerProcessor that fills it, the   *)
(* PeerCommunicator.ping both verification and cleansing wait for, the table of    *)
(* connections of PeerConnector and the EventListener that empties the list.       *)
(*                                                                                 *)
(* One action is one turn of the event loop: everything the code does between two  *)
(* awaits. The callers are the most general ones: they may start any operation in  *)
(* any state. NetworkMonitor restricts them to what network-monitor.ts does.       *)
(***********************************************************************************)
EXTENDS Naturals, FiniteSets

CONSTANTS
    Ips,                 \* the addresses the relay can hear of
    Subnets,             \* the /24 networks
    SubnetOf,            \* SubnetOf[ip]: the /24 network of an address
    Seeds,               \* the addresses of peers.list
    Whitelisted,         \* the addresses that match the whitelist option
    MaxSameSubnetPeers,  \* option of defaults.ts
    DisableDiscovery,    \* option --disableDiscovery
    Objects,             \* identities of the Peer objects of one address
    Runs,                \* identities of concurrent cleansePeers calls
    None                 \* no object

ASSUME StoreAssumption ==
    /\ IsFiniteSet(Ips)
    /\ SubnetOf \in [Ips -> Subnets]
    /\ Seeds \subseteq Ips
    /\ Whitelisted \subseteq Ips
    /\ MaxSameSubnetPeers \in Nat
    /\ DisableDiscovery \in BOOLEAN
    /\ None \notin Objects

VARIABLES
    \* the maps of PeerStorage and PeerConnector, all keyed by address
    peers,        \* peers[ip]: the Peer object stored for ip, or None
    pending,      \* the addresses of peersPending
    connections,  \* the addresses the connector has a socket for
    recent,       \* the addresses whose stored peer answers recentlyPinged()
    \* calls suspended at their await
    accepting,    \* acceptNewPeer: the address and the new Peer object it pings
    pings         \* pings of cleansePeers: the call, the address and the object

storeVars == <<peers, pending, connections, recent, accepting, pings>>

Accept == [ip : Ips, peer : Objects]
Ping   == [run : Runs, ip : Ips, peer : Objects]

StoreTypeOK ==
    /\ peers \in [Ips -> Objects \cup {None}]
    /\ pending \subseteq Ips
    /\ connections \subseteq Ips
    /\ recent \subseteq Ips
    /\ accepting \subseteq Accept
    /\ pings \subseteq Ping

---------------------------------------------------------------------------------
(* Helpers *)

Stored == {ip \in Ips : peers[ip] # None}

SameSubnetPeers(ip) == {q \in Stored : SubnetOf[q] = SubnetOf[ip]}

\* An identity no suspended call and no map entry of the address refers to. The
\* guard that one exists bounds the model, never the code: see the README.
Unused(ip) ==
    {o \in Objects : /\ o # peers[ip]
                     /\ [ip |-> ip, peer |-> o] \notin accepting
                     /\ \A p \in pings : p.ip = ip => p.peer # o}

\* Fault: no object is created for the address.
NewPeerMissing(ip) == None

NewPeer(ip) == CHOOSE o \in Unused(ip) : TRUE

\* Fault: addresses under verification are verified again.
ValidateUnlessStored(ip, seed) ==
    /\ ~DisableDiscovery
    /\ ip \in Whitelisted
    /\ seed \/ Cardinality(SameSubnetPeers(ip)) < MaxSameSubnetPeers

\* validatePeerIp
ValidatePeerIp(ip, seed) ==
    /\ DisableDiscovery => ip \in pending
    /\ ip \notin pending
    /\ ip \in Whitelisted
    /\ seed \/ Cardinality(SameSubnetPeers(ip)) < MaxSameSubnetPeers

\* Fault: setPendingPeer comes after the ping instead of before it.
VerifyUnmarked(ips) ==
    /\ \A ip \in ips : Unused(ip) # {}
    /\ accepting' = accepting \cup {[ip |-> ip, peer |-> NewPeer(ip)] : ip \in ips}
    /\ pending' = pending
    /\ connections' = connections \cup ips

\* The turn in which validateAndAcceptPeer runs up to its await for each of ips:
\* the pending entry is set and the ping of the new object has opened a socket.
Verify(ips) ==
    /\ \A ip \in ips : Unused(ip) # {}
    /\ accepting' = accepting \cup {[ip |-> ip, peer |-> NewPeer(ip)] : ip \in ips}
    /\ pending' = pending \cup ips
    /\ connections' = connections \cup ips

---------------------------------------------------------------------------------
(* Operations. A batch is processed in one turn: nothing is awaited between two of *)
(* its addresses, so each is judged by the list of peers the turn began with.      *)

\* Fault: acceptNewPeer does not look the address up among the peers.
AcceptableUnlessPending(batch) == {ip \in batch : ValidatePeerIp(ip, FALSE)}

Acceptable(batch) == {ip \in batch : ValidatePeerIp(ip, FALSE) /\ peers[ip] = None}

\* validateAndAcceptPeer for the addresses a list of peers names
AcceptPeers(batch) ==
    /\ Verify(Acceptable(batch))
    /\ UNCHANGED <<peers, recent, pings>>

\* populateSeedPeers: each seed is forgotten, then validated as a seed. That it may
\* reject, which depends on what else peers.list names, matters to those who await it:
\* see NetworkMonitor.
PopulateSeedPeers ==
    /\ Verify({ip \in Seeds : ValidatePeerIp(ip, TRUE)})
    /\ peers' = [ip \in Ips |-> IF ip \in Seeds THEN None ELSE peers[ip]]
    /\ recent' = recent \ Seeds
    /\ UNCHANGED pings

\* acceptNewPeer resumes: the ping was answered
AcceptSucceeds(a) ==
    /\ a \in accepting
    /\ accepting' = accepting \ {a}
    /\ peers' = [peers EXCEPT ![a.ip] = a.peer]
    /\ recent' = recent \cup {a.ip}
    /\ pending' = pending \ {a.ip}
    /\ UNCHANGED <<connections, pings>>

\* Fault: forgetPendingPeer is not in a finally block.
AcceptFailsPending(a) ==
    /\ a \in accepting
    /\ accepting' = accepting \ {a}
    /\ connections' = connections \ {a.ip}
    /\ UNCHANGED <<peers, pending, recent, pings>>

\* Fault: the socket of a peer that was not accepted is kept.
AcceptFailsConnected(a) ==
    /\ a \in accepting
    /\ accepting' = accepting \ {a}
    /\ pending' = pending \ {a.ip}
    /\ UNCHANGED <<peers, connections, recent, pings>>

\* acceptNewPeer resumes: the ping failed
AcceptFails(a) ==
    /\ a \in accepting
    /\ accepting' = accepting \ {a}
    /\ connections' = connections \ {a.ip}
    /\ pending' = pending \ {a.ip}
    /\ UNCHANGED <<peers, recent, pings>>

\* communicator.getPeers and hasCommonBlocks, for the peers that are asked: only the
\* socket is opened
AskPeers(ips) ==
    /\ ips \subseteq Stored
    /\ connections' = connections \cup ips
    /\ UNCHANGED <<peers, pending, recent, accepting, pings>>

\* Fault: the test of recentlyPinged is the wrong way round.
CleanseRecentPeers(run, checked, forcePing) ==
    LET pinged == IF forcePing THEN checked ELSE checked \cap recent
    IN  /\ checked \subseteq Stored
        /\ \A p \in pings : p.run # run
        /\ pings' = pings \cup {[run |-> run, ip |-> ip, peer |-> peers[ip]] : ip \in pinged}
        /\ connections' = connections \cup pinged
        /\ UNCHANGED <<peers, pending, recent, accepting>>

\* cleansePeers up to its await: the peers it looked up are pinged, but for those
\* pinged recently unless forcePing
CleansePeers(run, checked, forcePing) ==
    LET pinged == IF forcePing THEN checked ELSE checked \ recent
    IN  /\ checked \subseteq Stored
        /\ \A p \in pings : p.run # run
        /\ pings' = pings \cup {[run |-> run, ip |-> ip, peer |-> peers[ip]] : ip \in pinged}
        /\ connections' = connections \cup pinged
        /\ UNCHANGED <<peers, pending, recent, accepting>>

\* A ping of cleansePeers is answered: lastPinged of the pinged object is set
PingSucceeds(p) ==
    /\ p \in pings
    /\ pings' = pings \ {p}
    /\ recent' = IF peers[p.ip] = p.peer THEN recent \cup {p.ip} ELSE recent
    /\ UNCHANGED <<peers, pending, connections, accepting>>

\* The listener of internal.p2p.disconnectPeer forgets by address, not by object
DisconnectPeer(ip) ==
    /\ connections' = connections \ {ip}
    /\ peers' = [peers EXCEPT ![ip] = None]
    /\ recent' = recent \ {ip}

\* A ping of cleansePeers fails: the event is emitted and handled in the same turn
PingFails(p) ==
    /\ p \in pings
    /\ pings' = pings \ {p}
    /\ DisconnectPeer(p.ip)
    /\ UNCHANGED <<pending, accepting>>

\* hasCommonBlocks, for the embedding application: a peer that was stored when it
\* was asked, and may be stored or pending by now, answers with nothing, and reading
\* that answer throws
CommonBlocksFail(ip) ==
    /\ DisconnectPeer(ip)
    /\ UNCHANGED <<pending, accepting, pings>>

\* Two minutes after lastPinged
RecentlyPingedExpires(ip) ==
    /\ ip \in recent
    /\ recent' = recent \ {ip}
    /\ UNCHANGED <<peers, pending, connections, accepting, pings>>

\* terminate, called by the socket's ping, pong and error handlers
SocketTerminates(ip) ==
    /\ ip \in connections
    /\ connections' = connections \ {ip}
    /\ UNCHANGED <<peers, pending, recent, accepting, pings>>

---------------------------------------------------------------------------------

StoreInit ==
    /\ peers = [ip \in Ips |-> None]
    /\ pending = {}
    /\ connections = {}
    /\ recent = {}
    /\ accepting = {}
    /\ pings = {}

StoreNext ==
    \/ \E batch \in SUBSET Ips : AcceptPeers(batch)
    \/ PopulateSeedPeers
    \/ \E a \in accepting : AcceptSucceeds(a) \/ AcceptFails(a)
    \/ \E ips \in SUBSET Stored : AskPeers(ips)
    \/ \E run \in Runs, checked \in SUBSET Stored, forcePing \in BOOLEAN :
           CleansePeers(run, checked, forcePing)
    \/ \E p \in pings : PingSucceeds(p) \/ PingFails(p)
    \/ \E ip \in Ips : CommonBlocksFail(ip) \/ RecentlyPingedExpires(ip) \/ SocketTerminates(ip)

\* socketEmit gives up after two seconds of waiting for the socket and the timeout
\* of at most five seconds, so every suspended ping resumes.
AcceptResumes(ip) ==
    \E a \in accepting : a.ip = ip /\ (AcceptSucceeds(a) \/ AcceptFails(a))

StoreFairness ==
    /\ \A ip \in Ips : WF_storeVars(AcceptResumes(ip))
    /\ \A run \in Runs, ip \in Ips :
           WF_storeVars(\E p \in pings : /\ p.run = run
                                         /\ p.ip = ip
                                         /\ PingSucceeds(p) \/ PingFails(p))

StoreSafety == StoreInit /\ [][StoreNext]_storeVars

StoreSpec == StoreSafety /\ StoreFairness
---------------------------------------------------------------------------------
(* Properties *)

\* The addresses the options let the processor verify at all.
Admissible == IF DisableDiscovery THEN {} ELSE Whitelisted

\* An address is verified at most once at a time, whoever asks for it, and its
\* pending entry is there exactly as long as the verification: neither leaked by
\* a failed ping (the address could never be verified again) nor cleared early.
VerifiedOncePerAddress ==
    /\ \A a, b \in accepting : a.ip = b.ip => a = b
    /\ pending = {a.ip : a \in accepting}

\* No address is both a peer and pending: the getPeer test of acceptNewPeer, the
\* forgetPeer of populateSeedPeers and the two map updates that end acceptNewPeer
\* keep the two maps of PeerStorage apart, whatever is evicted in between.
PendingIsNotStored == pending \cap Stored = {}

\* The connector keeps a socket only for an address that is a peer or is being
\* verified: eviction, failed verification and reseeding leave none behind.
ConnectionsOwned == connections \subseteq Stored \cup pending

\* No sequence of lists, seeds, evictions and late answers puts an address the
\* whitelist leaves out into a map, or any address once discovery is disabled.
OnlyAdmissible == Stored \cup pending \subseteq Admissible

\* The object stored for an address is never replaced by another one in place:
\* it leaves the map before a new one is verified, so no holder of the old object
\* (a cleanse under way) updates a peer that is still listed under it.
PeersNeverReplaced ==
    [][\A ip \in Ips : peers[ip] # None /\ peers'[ip] # None => peers'[ip] = peers[ip]]_storeVars

\* The promise of the package about each address, its progress included.
Lifecycle == INSTANCE PeerLifecycle WITH
    status <- [ip \in Ips |-> IF peers[ip] # None THEN "accepted"
                              ELSE IF ip \in pending THEN "pending" ELSE "absent"]

ImplementsLifecycle == Lifecycle!Spec

\* defaults.ts on maxSameSubnetPeers: "The maximum authorized number of peers
\* sharing same ip /24 subnet". Seeds are exempt in the code and here.
SubnetLimit ==
    \A ip \in Ips : Cardinality(SameSubnetPeers(ip) \ Seeds) <= MaxSameSubnetPeers
==================================================================================
