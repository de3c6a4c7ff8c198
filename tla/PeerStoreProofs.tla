----------------------------- MODULE PeerStoreProofs -----------------------------
(***********************************************************************************)
(* Proofs about PeerStore for any set of addresses, any options and any callers.   *)
(***********************************************************************************)
EXTENDS PeerStore, TLAPS

\* The inductive invariant: the safety properties of the two maps support each
\* other. That no address is in both needs the pending entry to be exact, which
\* needs one verification per address, which needs the entry to be set.
StoreInv ==
    /\ StoreTypeOK
    /\ VerifiedOncePerAddress
    /\ PendingIsNotStored
    /\ ConnectionsOwned
    /\ OnlyAdmissible

\* An identity chosen for a new object is one of the address's unused ones.
LEMMA NewPeerUnused ==
    ASSUME NEW ip \in Ips, Unused(ip) # {}
    PROVE  NewPeer(ip) \in Unused(ip)
BY DEF NewPeer

LEMMA UnusedObjects ==
    ASSUME NEW ip \in Ips
    PROVE  Unused(ip) \subseteq Objects
BY DEF Unused

\* What a turn that starts verifications adds: typed entries for the addresses it
\* was given and no others.
LEMMA VerifyAdds ==
    ASSUME StoreTypeOK, NEW ips \in SUBSET Ips, Verify(ips)
    PROVE  /\ accepting' \subseteq Accept
           /\ accepting \subseteq accepting'
           /\ \A ip \in ips : \E a \in accepting' : a.ip = ip
           /\ \A a \in accepting' \ accepting : a.ip \in ips /\ a.peer = NewPeer(a.ip)
           /\ pending' = pending \cup ips
           /\ connections' = connections \cup ips
<1>1. \A ip \in ips : NewPeer(ip) \in Objects
  BY NewPeerUnused, UnusedObjects DEF Verify
<1>2. \A ip \in ips : \E a \in accepting' : a.ip = ip
  <2>1. TAKE ip \in ips
  <2>2. [ip |-> ip, peer |-> NewPeer(ip)] \in accepting'
    BY DEF Verify
  <2>3. WITNESS [ip |-> ip, peer |-> NewPeer(ip)] \in accepting'
  <2>4. QED
    OBVIOUS
<1>3. QED
  BY <1>1, <1>2 DEF Verify, StoreTypeOK, Accept

\* A turn that verifies addresses that are neither pending nor stored afterwards
\* keeps the invariant of the two maps.
LEMMA VerifyKeepsInv ==
    ASSUME StoreInv, NEW ips \in SUBSET Ips, Verify(ips),
           ips \cap pending = {}, ips \cap Stored' = {}, ips \subseteq Admissible,
           peers' \in [Ips -> Objects \cup {None}], Stored' \subseteq Stored,
           Stored \ Stored' \subseteq pending',
           recent' \subseteq Ips, pings' \subseteq Ping
    PROVE  StoreInv'
<1> USE DEF StoreInv
<1>0. /\ accepting' \subseteq Accept
      /\ accepting \subseteq accepting'
      /\ \A ip \in ips : \E a \in accepting' : a.ip = ip
      /\ \A a \in accepting' \ accepting : a.ip \in ips /\ a.peer = NewPeer(a.ip)
      /\ pending' = pending \cup ips
      /\ connections' = connections \cup ips
  BY VerifyAdds
<1>1. StoreTypeOK'
  BY <1>0 DEF StoreTypeOK
<1>2. VerifiedOncePerAddress'
  <2>1. ASSUME NEW a \in accepting', NEW b \in accepting', a.ip = b.ip
        PROVE  a = b
    <3>1. CASE a \in accepting /\ b \in accepting
      BY <2>1, <3>1, <1>0 DEF VerifiedOncePerAddress
    <3>2. CASE a \notin accepting /\ b \notin accepting
      BY <2>1, <3>2, <1>0 DEF Accept
    <3>3. CASE a \in accepting /\ b \notin accepting
      BY <2>1, <3>3, <1>0 DEF VerifiedOncePerAddress
    <3>4. CASE a \notin accepting /\ b \in accepting
      BY <2>1, <3>4, <1>0 DEF VerifiedOncePerAddress
    <3>5. QED
      BY <3>1, <3>2, <3>3, <3>4
  <2>2. \A ip \in pending' : \E a \in accepting' : a.ip = ip
    BY <1>0 DEF VerifiedOncePerAddress
  <2>3. \A a \in accepting' : a.ip \in pending'
    BY <1>0 DEF VerifiedOncePerAddress
  <2>4. QED
    BY <2>1, <2>2, <2>3 DEF VerifiedOncePerAddress
<1>3. PendingIsNotStored'
  BY <1>0 DEF PendingIsNotStored
<1>4. ConnectionsOwned'
  BY <1>0 DEF ConnectionsOwned
<1>5. OnlyAdmissible'
  BY <1>0 DEF OnlyAdmissible, Admissible
<1>6. QED
  BY <1>1, <1>2, <1>3, <1>4, <1>5

LEMMA InitInv == StoreInit => StoreInv
BY DEF StoreInit, StoreInv, StoreTypeOK, VerifiedOncePerAddress, PendingIsNotStored,
       ConnectionsOwned, OnlyAdmissible, Stored, Accept, Ping

LEMMA AcceptPeersInv ==
    ASSUME StoreInv, NEW batch \in SUBSET Ips, AcceptPeers(batch)
    PROVE  StoreInv'
<1>1. /\ Acceptable(batch) \in SUBSET Ips
      /\ Acceptable(batch) \cap pending = {}
      /\ Acceptable(batch) \cap Stored = {}
      /\ Acceptable(batch) \subseteq Admissible
  BY DEF Acceptable, ValidatePeerIp, Stored, Admissible
<1>2. Stored' = Stored
  BY DEF AcceptPeers, Stored
<1>3. QED
  BY <1>1, <1>2, VerifyKeepsInv DEF AcceptPeers, StoreInv, StoreTypeOK

LEMMA PopulateSeedPeersInv ==
    ASSUME StoreInv, PopulateSeedPeers
    PROVE  StoreInv'
<1> DEFINE reseeded == {ip \in Seeds : ValidatePeerIp(ip, TRUE)}
<1>1. /\ reseeded \in SUBSET Ips
      /\ reseeded \cap pending = {}
      /\ reseeded \subseteq Admissible
  BY StoreAssumption DEF ValidatePeerIp, Admissible
<1>2. /\ peers' \in [Ips -> Objects \cup {None}]
      /\ Stored' = Stored \ Seeds
  BY DEF PopulateSeedPeers, Stored, StoreInv, StoreTypeOK
<1>3. Stored \ Stored' \subseteq pending'
  \* a seed that was stored is admissible and not pending, so it is verified again
  <2>1. Stored \cap Seeds \subseteq reseeded
    BY DEF StoreInv, PendingIsNotStored, OnlyAdmissible, Admissible, ValidatePeerIp
  <2>2. QED
    BY <1>2, <2>1 DEF PopulateSeedPeers, Verify
<1>4. recent' \subseteq Ips /\ pings' \subseteq Ping /\ Verify(reseeded)
  BY DEF PopulateSeedPeers, StoreInv, StoreTypeOK
<1>5. QED
  BY <1>1, <1>2, <1>3, <1>4, VerifyKeepsInv

LEMMA AcceptSucceedsInv ==
    ASSUME StoreInv, NEW a \in accepting, AcceptSucceeds(a)
    PROVE  StoreInv'
<1> USE DEF StoreInv
<1>0. a \in Accept /\ a.ip \in Ips /\ a.peer \in Objects /\ a.ip \in pending
  BY DEF StoreTypeOK, Accept, VerifiedOncePerAddress
<1>1. StoreTypeOK'
  BY <1>0 DEF StoreTypeOK, AcceptSucceeds
<1>2. VerifiedOncePerAddress'
  BY <1>0 DEF VerifiedOncePerAddress, AcceptSucceeds
<1>3. Stored' = Stored \cup {a.ip}
  BY <1>0, StoreAssumption DEF Stored, AcceptSucceeds, StoreTypeOK
<1>4. PendingIsNotStored'
  BY <1>3 DEF PendingIsNotStored, AcceptSucceeds
<1>5. ConnectionsOwned'
  BY <1>3 DEF ConnectionsOwned, AcceptSucceeds
<1>6. OnlyAdmissible'
  BY <1>0, <1>3 DEF OnlyAdmissible, AcceptSucceeds, Admissible
<1>7. QED
  BY <1>1, <1>2, <1>4, <1>5, <1>6

LEMMA AcceptFailsInv ==
    ASSUME StoreInv, NEW a \in accepting, AcceptFails(a)
    PROVE  StoreInv'
<1> USE DEF StoreInv
<1>1. StoreTypeOK' /\ Stored' = Stored
  BY DEF StoreTypeOK, AcceptFails, Stored
<1>2. VerifiedOncePerAddress'
  BY DEF VerifiedOncePerAddress, AcceptFails
<1>3. PendingIsNotStored' /\ ConnectionsOwned' /\ OnlyAdmissible'
  BY <1>1 DEF PendingIsNotStored, ConnectionsOwned, OnlyAdmissible, AcceptFails, Admissible
<1>4. QED
  BY <1>1, <1>2, <1>3

\* What forgetting an address by internal.p2p.disconnectPeer does to the maps.
LEMMA DisconnectPeerInv ==
    ASSUME StoreInv, NEW ip \in Ips, DisconnectPeer(ip), UNCHANGED <<pending, accepting>>,
           pings' \subseteq pings
    PROVE  StoreInv'
<1> USE DEF StoreInv
<1>1. StoreTypeOK'
  BY DEF StoreTypeOK, DisconnectPeer
<1>2. Stored' = Stored \ {ip}
  BY DEF Stored, DisconnectPeer, StoreTypeOK
<1>3. VerifiedOncePerAddress'
  BY DEF VerifiedOncePerAddress
<1>4. PendingIsNotStored' /\ ConnectionsOwned' /\ OnlyAdmissible'
  BY <1>2 DEF PendingIsNotStored, ConnectionsOwned, OnlyAdmissible, DisconnectPeer, Admissible
<1>5. QED
  BY <1>1, <1>3, <1>4

\* The steps that touch neither the list nor the verifications: they only open
\* sockets to listed peers, drop sockets, or change pings and recency.
LEMMA OtherStepsInv ==
    ASSUME StoreInv, UNCHANGED <<peers, pending, accepting>>,
           connections' \subseteq connections \cup Stored,
           recent' \subseteq Ips, pings' \subseteq Ping
    PROVE  StoreInv'
<1> USE DEF StoreInv
<1>1. StoreTypeOK' /\ Stored' = Stored
  BY DEF StoreTypeOK, Stored
<1>2. VerifiedOncePerAddress'
  BY DEF VerifiedOncePerAddress
<1>3. PendingIsNotStored' /\ ConnectionsOwned' /\ OnlyAdmissible'
  BY <1>1 DEF PendingIsNotStored, ConnectionsOwned, OnlyAdmissible, Admissible
<1>4. QED
  BY <1>1, <1>2, <1>3

LEMMA StoreNextInv ==
    ASSUME StoreInv, StoreNext
    PROVE  StoreInv'
<1> USE DEF StoreInv
<1>1. ASSUME NEW batch \in SUBSET Ips, AcceptPeers(batch)
      PROVE  StoreInv'
  BY <1>1, AcceptPeersInv
<1>2. CASE PopulateSeedPeers
  BY <1>2, PopulateSeedPeersInv
<1>3. ASSUME NEW a \in accepting, AcceptSucceeds(a) \/ AcceptFails(a)
      PROVE  StoreInv'
  BY <1>3, AcceptSucceedsInv, AcceptFailsInv
<1>4. ASSUME NEW ips \in SUBSET Stored, AskPeers(ips)
      PROVE  StoreInv'
  BY <1>4, OtherStepsInv DEF AskPeers, StoreTypeOK
<1>5. ASSUME NEW run \in Runs, NEW checked \in SUBSET Stored, NEW forcePing \in BOOLEAN,
             CleansePeers(run, checked, forcePing)
      PROVE  StoreInv'
  <2>1. pings' \subseteq Ping
    BY <1>5 DEF CleansePeers, StoreTypeOK, Ping, Stored
  <2>2. connections' \subseteq connections \cup Stored
    BY <1>5 DEF CleansePeers
  <2>3. QED
    BY <1>5, <2>1, <2>2, OtherStepsInv DEF CleansePeers, StoreTypeOK
<1>6. ASSUME NEW p \in pings, PingSucceeds(p) \/ PingFails(p)
      PROVE  StoreInv'
  <2>1. p \in Ping /\ p.ip \in Ips
    BY DEF StoreTypeOK, Ping
  <2>2. CASE PingSucceeds(p)
    BY <2>1, <2>2, OtherStepsInv DEF PingSucceeds, StoreTypeOK
  <2>3. CASE PingFails(p)
    BY <2>1, <2>3, DisconnectPeerInv DEF PingFails
  <2>4. QED
    BY <1>6, <2>2, <2>3
<1>7. ASSUME NEW ip \in Ips,
             CommonBlocksFail(ip) \/ RecentlyPingedExpires(ip) \/ SocketTerminates(ip)
      PROVE  StoreInv'
  <2>1. CASE CommonBlocksFail(ip)
    BY <2>1, DisconnectPeerInv DEF CommonBlocksFail
  <2>2. CASE RecentlyPingedExpires(ip) \/ SocketTerminates(ip)
    BY <2>2, OtherStepsInv DEF RecentlyPingedExpires, SocketTerminates, StoreTypeOK
  <2>3. QED
    BY <1>7, <2>1, <2>2
<1>8. QED
  BY <1>1, <1>2, <1>3, <1>4, <1>5, <1>6, <1>7 DEF StoreNext

LEMMA StoreStepInv == StoreInv /\ [StoreNext]_storeVars => StoreInv'
<1> SUFFICES ASSUME StoreInv, [StoreNext]_storeVars
             PROVE  StoreInv'
  OBVIOUS
<1>1. CASE StoreNext
  BY <1>1, StoreNextInv
<1>2. CASE UNCHANGED storeVars
  BY <1>2 DEF storeVars, StoreInv, StoreTypeOK, VerifiedOncePerAddress, PendingIsNotStored,
              ConnectionsOwned, OnlyAdmissible, Stored, Admissible
<1>3. QED
  BY <1>1, <1>2

\* For every set of addresses, options and callers, the peer maps stay well formed:
\* the safety properties the run checks on three addresses, by one induction.
THEOREM StoreSafe ==
    StoreSafety => [](/\ StoreTypeOK
                      /\ VerifiedOncePerAddress
                      /\ PendingIsNotStored
                      /\ ConnectionsOwned
                      /\ OnlyAdmissible)
<1>1. StoreInit => StoreInv
  BY InitInv
<1>2. StoreInv /\ [StoreNext]_storeVars => StoreInv'
  BY StoreStepInv
<1>3. QED
  BY <1>1, <1>2, PTL DEF StoreSafety, StoreInv

---------------------------------------------------------------------------------
(* Objects are not replaced in place *)

\* The step that stores an object is the end of a verification, and an address
\* under verification is not stored; every other step keeps objects or drops them.
LEMMA StepReplacesNoPeer ==
    ASSUME StoreInv, StoreNext, NEW ip \in Ips, peers[ip] # None, peers'[ip] # None
    PROVE  peers'[ip] = peers[ip]
<1> USE DEF StoreInv
<1>1. ASSUME NEW batch \in SUBSET Ips, AcceptPeers(batch)
      PROVE  peers' = peers
  BY <1>1 DEF AcceptPeers
<1>2. CASE PopulateSeedPeers
  BY <1>2 DEF PopulateSeedPeers
<1>3. ASSUME NEW a \in accepting, AcceptSucceeds(a) \/ AcceptFails(a)
      PROVE  peers'[ip] = peers[ip]
  <2>1. a.ip # ip
    BY DEF VerifiedOncePerAddress, PendingIsNotStored, Stored
  <2>2. QED
    BY <1>3, <2>1 DEF AcceptSucceeds, AcceptFails, StoreTypeOK
<1>4. ASSUME NEW ips \in SUBSET Stored, AskPeers(ips)
      PROVE  peers' = peers
  BY <1>4 DEF AskPeers
<1>5. ASSUME NEW run \in Runs, NEW checked \in SUBSET Stored, NEW forcePing \in BOOLEAN,
             CleansePeers(run, checked, forcePing)
      PROVE  peers' = peers
  BY <1>5 DEF CleansePeers
<1>6. ASSUME NEW p \in pings, PingSucceeds(p) \/ PingFails(p)
      PROVE  peers'[ip] = peers[ip]
  BY <1>6 DEF PingSucceeds, PingFails, DisconnectPeer, StoreTypeOK
<1>7. ASSUME NEW q \in Ips,
             CommonBlocksFail(q) \/ RecentlyPingedExpires(q) \/ SocketTerminates(q)
      PROVE  peers'[ip] = peers[ip]
  BY <1>7 DEF CommonBlocksFail, DisconnectPeer, RecentlyPingedExpires, SocketTerminates,
              StoreTypeOK
<1>8. QED
  BY <1>1, <1>2, <1>3, <1>4, <1>5, <1>6, <1>7 DEF StoreNext

\* No operation and no late answer puts another Peer object in the place of a
\* listed one: acceptNewPeer, populateSeedPeers and the disconnect listener.
THEOREM PeersStay == StoreSafety => PeersNeverReplaced
<1>1. StoreInv /\ [StoreNext]_storeVars =>
          [\A ip \in Ips : peers[ip] # None /\ peers'[ip] # None
                               => peers'[ip] = peers[ip]]_storeVars
  BY StepReplacesNoPeer
<1>2. QED
  BY <1>1, InitInv, StoreStepInv, PTL DEF StoreSafety, PeersNeverReplaced

---------------------------------------------------------------------------------
(* PeerStore implements the safety part of PeerLifecycle *)

\* The status the refinement mapping gives an address.
StatusOf(ip) == IF peers[ip] # None THEN "accepted"
                ELSE IF ip \in pending THEN "pending" ELSE "absent"

\* A step that changes the status of some addresses to one value is a Move.
LEMMA StatusMoves ==
    ASSUME NEW ips \in SUBSET Ips, NEW to,
           \A ip \in Ips : StatusOf(ip)' = IF ip \in ips THEN to ELSE StatusOf(ip)
    PROVE  Lifecycle!Move(ips, to)
BY DEF Lifecycle!Move, StatusOf

\* Every step of the store is a step of the lifecycle of the addresses or leaves
\* the status of all of them alone.
LEMMA StoreStepRefines ==
    ASSUME StoreInv, StoreInv', StoreNext
    PROVE  Lifecycle!Next \/ UNCHANGED [ip \in Ips |-> StatusOf(ip)]
<1> USE DEF StoreInv
<1>1. ASSUME NEW batch \in SUBSET Ips, AcceptPeers(batch)
      PROVE  Lifecycle!Next
  <2>1. PICK new \in SUBSET Ips : new = Acceptable(batch)
    BY DEF Acceptable
  <2>2. pending' = pending \cup new /\ peers' = peers
    BY <1>1, <2>1 DEF AcceptPeers, Verify
  <2>3. \A ip \in new : StatusOf(ip) = "absent" /\ ip \in Admissible
    BY <2>1 DEF Acceptable, ValidatePeerIp, StatusOf, Admissible
  <2>4. Lifecycle!Move(new, "pending")
    BY <2>2, <2>3, StatusMoves DEF StatusOf
  <2>5. Lifecycle!Announce(new)
    BY <2>3, <2>4 DEF Lifecycle!Announce, StatusOf
  <2>6. QED
    BY <2>5 DEF Lifecycle!Next
<1>2. CASE PopulateSeedPeers
  <2>1. Seeds \cap Admissible \in SUBSET Ips
    BY StoreAssumption
  <2>2. \A ip \in Ips : StatusOf(ip)' =
            IF ip \in Seeds \cap Admissible THEN "pending" ELSE StatusOf(ip)
    <3>1. TAKE ip \in Ips
    <3>2. peers'[ip] = IF ip \in Seeds THEN None ELSE peers[ip]
      BY <1>2 DEF PopulateSeedPeers
    <3>3. pending' = pending \cup {s \in Seeds : ValidatePeerIp(s, TRUE)}
      BY <1>2 DEF PopulateSeedPeers, Verify
    <3>4. ip \in pending \/ ip \in Stored => ip \in Admissible
      BY DEF OnlyAdmissible
    <3>5. CASE ip \in Seeds \cap Admissible
      BY <3>2, <3>3, <3>5 DEF ValidatePeerIp, Admissible, StatusOf
    <3>6. CASE ip \in Seeds /\ ip \notin Admissible
      BY <3>2, <3>3, <3>4, <3>6 DEF ValidatePeerIp, Admissible, StatusOf, Stored
    <3>7. CASE ip \notin Seeds
      BY <3>2, <3>3, <3>7 DEF StatusOf
    <3>8. QED
      BY <3>5, <3>6, <3>7
  <2>3. Lifecycle!Reseed
    BY <2>1, <2>2, StatusMoves DEF Lifecycle!Reseed
  <2>4. QED
    BY <2>3 DEF Lifecycle!Next
<1>3. ASSUME NEW a \in accepting, AcceptSucceeds(a) \/ AcceptFails(a)
      PROVE  Lifecycle!Next
  <2>1. /\ a.ip \in Ips /\ a.ip \in pending /\ peers[a.ip] = None
        /\ a.peer \in Objects /\ a.peer # None
    BY StoreAssumption DEF StoreTypeOK, Accept, VerifiedOncePerAddress, PendingIsNotStored, Stored
  <2>2. StatusOf(a.ip) = "pending"
    BY <2>1 DEF StatusOf
  <2>3. CASE AcceptSucceeds(a)
    <3>1. Lifecycle!Move({a.ip}, "accepted")
      BY <2>1, <2>3, StatusMoves DEF AcceptSucceeds, StatusOf, StoreTypeOK
    <3>2. Lifecycle!Verify(a.ip)
      BY <2>1, <2>2, <3>1 DEF Lifecycle!Verify, StatusOf
    <3>3. QED
      BY <2>1, <3>2 DEF Lifecycle!Next
  <2>4. CASE AcceptFails(a)
    <3>1. Lifecycle!Move({a.ip}, "absent")
      BY <2>1, <2>4, StatusMoves DEF AcceptFails, StatusOf
    <3>2. Lifecycle!Reject(a.ip)
      BY <2>1, <2>2, <3>1 DEF Lifecycle!Reject, StatusOf
    <3>3. QED
      BY <2>1, <3>2 DEF Lifecycle!Next
  <2>5. QED
    BY <1>3, <2>3, <2>4
<1>4. ASSUME NEW ip \in Ips, peers' = [peers EXCEPT ![ip] = None], pending' = pending
      PROVE  Lifecycle!Next \/ UNCHANGED [q \in Ips |-> StatusOf(q)]
  <2>1. CASE peers[ip] = None
    BY <1>4, <2>1 DEF StatusOf, StoreTypeOK
  <2>2. CASE peers[ip] # None
    <3>1. StatusOf(ip) = "accepted" /\ ip \notin pending
      BY <2>2 DEF StatusOf, PendingIsNotStored, Stored
    <3>2. Lifecycle!Move({ip}, "absent")
      BY <1>4, <3>1, StatusMoves DEF StatusOf, StoreTypeOK
    <3>3. Lifecycle!Drop(ip)
      BY <3>1, <3>2 DEF Lifecycle!Drop, StatusOf
    <3>4. QED
      BY <3>3 DEF Lifecycle!Next
  <2>3. QED
    BY <2>1, <2>2
<1>5. ASSUME UNCHANGED <<peers, pending>>
      PROVE  UNCHANGED [ip \in Ips |-> StatusOf(ip)]
  BY <1>5 DEF StatusOf
<1>6. ASSUME NEW p \in pings, PingFails(p)
      PROVE  Lifecycle!Next \/ UNCHANGED [ip \in Ips |-> StatusOf(ip)]
  BY <1>4, <1>6 DEF PingFails, DisconnectPeer, StoreTypeOK, Ping
<1>7. ASSUME NEW ip \in Ips, CommonBlocksFail(ip)
      PROVE  Lifecycle!Next \/ UNCHANGED [q \in Ips |-> StatusOf(q)]
  BY <1>4, <1>7 DEF CommonBlocksFail, DisconnectPeer
<1>8. CASE \/ \E ips \in SUBSET Stored : AskPeers(ips)
           \/ \E run \in Runs, checked \in SUBSET Stored, forcePing \in BOOLEAN :
                  CleansePeers(run, checked, forcePing)
           \/ \E p \in pings : PingSucceeds(p)
           \/ \E ip \in Ips : RecentlyPingedExpires(ip) \/ SocketTerminates(ip)
  BY <1>5, <1>8 DEF AskPeers, CleansePeers, PingSucceeds, RecentlyPingedExpires, SocketTerminates
<1>9. QED
  BY <1>1, <1>2, <1>3, <1>6, <1>7, <1>8 DEF StoreNext

\* For every set of addresses and callers, what happens to an address is one of
\* the moves of its lifecycle (the progress part is model-checked).
THEOREM StoreImplementsLifecycle == StoreSafety => Lifecycle!Safety
<1>1. StoreInit => Lifecycle!Init
  BY DEF StoreInit, Lifecycle!Init
<1>2. StoreInv /\ StoreInv' /\ [StoreNext]_storeVars =>
          [Lifecycle!Next]_([ip \in Ips |-> StatusOf(ip)])
  <2> SUFFICES ASSUME StoreInv, StoreInv', [StoreNext]_storeVars
               PROVE  [Lifecycle!Next]_([ip \in Ips |-> StatusOf(ip)])
    OBVIOUS
  <2>1. CASE StoreNext
    BY <2>1, StoreStepRefines
  <2>2. CASE UNCHANGED storeVars
    BY <2>2 DEF storeVars, StatusOf
  <2>3. QED
    BY <2>1, <2>2
<1>3. QED
  BY <1>1, <1>2, InitInv, StoreStepInv, PTL DEF StoreSafety, Lifecycle!Safety, StatusOf
==================================================================================
