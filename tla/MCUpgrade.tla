----------------------------- MODULE MCUpgrade -----------------------------
(* Two seeds, of which the user lists one, both or one twice, and sources    *)
(* that list another, one twice or none; one missing original.               *)
EXTENDS Upgrade

CONSTANTS p, q

MCPeers == {p, q}
MCUserLists == {<<>>, <<p>>, <<p, p>>}
MCFetched == {<<q, q>>, <<q, p>>, <<>>}
=============================================================================
