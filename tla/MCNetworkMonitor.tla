----------------------------- MODULE MCNetworkMonitor ----------------------------
(* Small instances of NetworkMonitor: a seed and two addresses heard of from peers. *)
EXTENDS NetworkMonitor, TLC

CONSTANTS seed, found, other, net

MCIps      == {seed, found, other}
MCSubnetOf == [ip \in MCIps |-> net]

\* Where calls overlap, what they race for is the entry of one address.
MCOne         == {seed}
MCOneSubnetOf == [ip \in MCOne |-> net]

\* The identities of concurrent calls are interchangeable.
MCSymmetry == Permutations(Updates) \cup Permutations(Runs)
==================================================================================
