------------------------------ MODULE MCRateLimiter ------------------------------
(* Two limited endpoints under a global limit that they exceed together.           *)
EXTENDS RateLimiter, TLC

CONSTANTS host, trusted, all, getPeers, postBlock

MCPoints        == all :> 3 @@ getPeers :> 1 @@ postBlock :> 2
MCDuration      == all :> 1 @@ getPeers :> 1 @@ postBlock :> 2
MCBlockDuration == all :> 3 @@ getPeers :> 0 @@ postBlock :> 0
==================================================================================
