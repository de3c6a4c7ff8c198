------------------------------ MODULE PeerLifecycle ------------------------------
(***********************************************************************************)
(* What the p2p package promises about ONE address, whatever the callers of the    *)
(* peer processor, the cleansing of the peer list and the answers of the network   *)
(* do: an address becomes a peer only by being verified while it is pending, only  *)
(* a seed goes back from peer to pending, and nothing stays pending for ever.      *)
(* PeerStore implements this module.                                               *)
(***********************************************************************************)
CONSTANTS
    Ips,         \* the addresses the relay can hear of
    Seeds,       \* the addresses of peers.list, among Ips
    Admissible   \* the addresses the options let the processor verify, among Ips

VARIABLE status  \* status[ip]: "absent", "pending" or "accepted"

Init == status = [ip \in Ips |-> "absent"]

Move(ips, to) == status' = [ip \in Ips |-> IF ip \in ips THEN to ELSE status[ip]]

\* Unknown addresses start to be verified: one list of peers, in one turn.
Announce(ips) ==
    /\ ips \subseteq {ip \in Admissible : status[ip] = "absent"}
    /\ Move(ips, "pending")

\* Every seed is verified afresh, the ones that were peers included.
Reseed == Move(Seeds \cap Admissible, "pending")

Verify(ip) == status[ip] = "pending" /\ Move({ip}, "accepted")

Reject(ip) == status[ip] = "pending" /\ Move({ip}, "absent")

Drop(ip) == status[ip] = "accepted" /\ Move({ip}, "absent")

Next ==
    \/ \E ips \in SUBSET Ips : Announce(ips)
    \/ Reseed
    \/ \E ip \in Ips : Verify(ip) \/ Reject(ip) \/ Drop(ip)

LifecycleFairness == \A ip \in Ips : WF_status(Verify(ip) \/ Reject(ip))

Safety == Init /\ [][Next]_status

Spec == Safety /\ LifecycleFairness
==================================================================================
