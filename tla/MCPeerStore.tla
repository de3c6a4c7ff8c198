------------------------------- MODULE MCPeerStore -------------------------------
(* Small instances of PeerStore: a seed, a discovered address and an address the   *)
(* whitelist leaves out, all in one /24 network.                                   *)
EXTENDS PeerStore

CONSTANTS seed, found, stranger, net, otherNet

MCIps         == {seed, found, stranger}
MCSubnets     == {net, otherNet}
MCSubnetOf    == [ip \in MCIps |-> net]
MCSeeds       == {seed}
MCWhitelisted == {seed, found}
MCObjects     == 1..4
==================================================================================
