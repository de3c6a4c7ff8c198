------------------------------- MODULE RateLimiter -------------------------------
(***********************************************************************************)
(* rate-limiter.ts: points consumed by an address, for all its messages and for    *)
(* the messages of a limited endpoint, and the status network-monitor.ts reports.  *)
(* The limiters count one second per Tick. A request is a call of                  *)
(* getRateLimitStatus; its awaits interleave with other requests, but only         *)
(* microtasks run between them, so time does not pass while one is under way.      *)
(***********************************************************************************)
EXTENDS Naturals, FiniteSets

CONSTANTS
    Addresses,
    Whitelist,       \* the addresses of options.whitelist and options.remoteAccess
    Endpoints,       \* the endpoints with a limiter of their own
    Global,          \* the limiter of all messages
    Points,          \* Points[l]: rateLimit of limiter l
    Duration,        \* Duration[l]: the seconds of its window
    BlockDuration,   \* BlockDuration[l]: the seconds of a ban, 0 if it is not set
    Requests,        \* identities of calls under way
    MaxConsumed,     \* bound: consumed points are counted up to here
    None

Limiters == {Global} \cup Endpoints

ASSUME RateLimiterAssumption ==
    /\ Whitelist \subseteq Addresses
    /\ Global \notin Endpoints /\ None \notin Addresses \cup Limiters
    /\ {Points, Duration} \subseteq [Limiters -> Nat \ {0}]
    /\ BlockDuration \in [Limiters -> Nat]
    /\ MaxConsumed \in Nat
    /\ IsFiniteSet(Requests)
    /\ \A l \in Limiters : Points[l] + 1 < MaxConsumed

VARIABLES
    consumed,   \* consumed[l][ip]: the points ip has consumed in its window of l
    expires,    \* expires[l][ip]: the seconds until the window is forgotten, 0: none
    request,    \* request[r]: the call r, where it is and what it has found out
    served,     \* history: messages of ip let through in its window of l
    banned      \* history: the seconds of the ban ip has earned

vars == <<consumed, expires, request, served, banned>>

NoRequest == [at |-> "idle", ip |-> None, endpoint |-> None, blocked |-> FALSE, exceeded |-> FALSE]

Request == [at : {"idle", "global", "endpoint", "done"}, ip : Addresses \cup {None},
            endpoint : Endpoints \cup {None}, blocked : BOOLEAN, exceeded : BOOLEAN]

RateLimiterTypeOK ==
    /\ consumed \in [Limiters -> [Addresses -> 0..MaxConsumed]]
    /\ expires \in [Limiters -> [Addresses -> Nat]]
    /\ \A l \in Limiters, ip \in Addresses : expires[l][ip] = 0 <=> consumed[l][ip] = 0
    /\ request \in [Requests -> Request]
    /\ served \in [Limiters -> [Addresses -> 0..MaxConsumed]]
    /\ banned \in [Addresses -> Nat]

---------------------------------------------------------------------------------
(* One limiter of rate-limiter-flexible, wrapped with the whitelist *)

Exceeds(l, ip) == ip \notin Whitelist /\ consumed[l][ip] >= Points[l]

\* Fault: every point too many starts the ban again.
WindowRenewed(l, ip) ==
    CASE consumed[l][ip] = 0 -> Duration[l]
      [] consumed[l][ip] >= Points[l] /\ BlockDuration[l] > 0 -> BlockDuration[l]
      [] OTHER -> expires[l][ip]

\* Fault: the ban is not configured.
WindowOnly(l, ip) == IF consumed[l][ip] = 0 THEN Duration[l] ELSE expires[l][ip]

\* The first point opens the window, the first one too many starts a ban.
Window(l, ip) ==
    CASE consumed[l][ip] = 0 -> Duration[l]
      [] consumed[l][ip] = Points[l] /\ BlockDuration[l] > 0 -> BlockDuration[l]
      [] OTHER -> expires[l][ip]

\* Fault: a message too many is not counted any more, but its window is kept.
ConsumeCapped(l, ip) ==
    IF ip \in Whitelist THEN UNCHANGED <<consumed, expires>>
    ELSE /\ consumed' = [consumed EXCEPT ![l][ip] = (@ + 1) % Points[l]]
         /\ expires' = [expires EXCEPT ![l][ip] = Window(l, ip)]

Consume(l, ip) ==
    IF ip \in Whitelist THEN UNCHANGED <<consumed, expires>>
    ELSE /\ consumed' = [consumed EXCEPT ![l][ip] = IF @ < MaxConsumed THEN @ + 1 ELSE @]
         /\ expires' = [expires EXCEPT ![l][ip] = Window(l, ip)]

\* isBlocked: true from the last point on; get() finds nothing without a window
IsBlocked(ip) == ip \notin Whitelist /\ consumed[Global][ip] >= Points[Global]

---------------------------------------------------------------------------------
(* getRateLimitStatus(ip, endpoint): isBlocked, then hasExceededRateLimit *)

\* Fault: the block is looked up when the message has been counted.
AnswerLooksUp(r, exceeded) ==
    LET ip == request[r].ip
    IN  request' = [request EXCEPT ![r].at = "done", ![r].exceeded = exceeded,
                                   ![r].blocked = /\ ip \notin Whitelist
                                                  /\ consumed'[Global][ip] >= Points[Global]]

Answer(r, exceeded) == request' = [request EXCEPT ![r].at = "done", ![r].exceeded = exceeded]

\* History: a message that every limiter let through
Serve(r) ==
    LET ip == request[r].ip
        through == {Global, request[r].endpoint} \cap Limiters
    IN  served' = [l \in Limiters |->
                      [served[l] EXCEPT ![ip] = IF l \in through /\ ip \notin Whitelist
                                                THEN @ + 1 ELSE @]]

Ask(r, ip, endpoint) ==
    /\ request[r].at = "idle"
    /\ request' = [request EXCEPT ![r] = [at |-> "global", ip |-> ip, endpoint |-> endpoint,
                                          blocked |-> IsBlocked(ip), exceeded |-> FALSE]]
    /\ UNCHANGED <<consumed, expires, served, banned>>

ConsumeGlobal(r) ==
    LET ip == request[r].ip
        exceeds == Exceeds(Global, ip)
    IN  /\ request[r].at = "global"
        /\ Consume(Global, ip)
        /\ banned' = [banned EXCEPT ![ip] =
                          IF exceeds /\ @ = 0 THEN BlockDuration[Global] ELSE @]
        /\ IF ~exceeds /\ request[r].endpoint # None
           THEN request' = [request EXCEPT ![r].at = "endpoint"] /\ UNCHANGED served
           ELSE Answer(r, exceeds) /\ IF exceeds THEN UNCHANGED served ELSE Serve(r)

\* Fault: the limiter of the endpoint is not awaited, its rejection is lost.
ConsumeEndpointUnawaited(r) ==
    /\ request[r].at = "endpoint"
    /\ Consume(request[r].endpoint, request[r].ip)
    /\ Answer(r, FALSE) /\ Serve(r)
    /\ UNCHANGED banned

\* The point of the global limiter stays consumed when the endpoint rejects.
ConsumeEndpoint(r) ==
    LET exceeds == Exceeds(request[r].endpoint, request[r].ip)
    IN  /\ request[r].at = "endpoint"
        /\ Consume(request[r].endpoint, request[r].ip)
        /\ Answer(r, exceeds) /\ IF exceeds THEN UNCHANGED served ELSE Serve(r)
        /\ UNCHANGED banned

Return(r) ==
    /\ request[r].at = "done"
    /\ request' = [request EXCEPT ![r] = NoRequest]
    /\ UNCHANGED <<consumed, expires, served, banned>>

TurnOver == \A r \in Requests : request[r].at = "idle"

\* A second passes: windows and bans that are over are forgotten.
Tick ==
    LET Later(f) == [ip \in Addresses |-> IF f[ip] = 0 THEN 0 ELSE f[ip] - 1]
        Kept(f, l) == [ip \in Addresses |-> IF expires[l][ip] <= 1 THEN 0 ELSE f[ip]]
    IN  /\ TurnOver
        /\ expires' = [l \in Limiters |-> Later(expires[l])]
        /\ consumed' = [l \in Limiters |-> Kept(consumed[l], l)]
        /\ served' = [l \in Limiters |-> Kept(served[l], l)]
        /\ banned' = Later(banned)
        /\ UNCHANGED request

---------------------------------------------------------------------------------

RateLimiterInit ==
    /\ consumed = [l \in Limiters |-> [ip \in Addresses |-> 0]]
    /\ expires = consumed
    /\ request = [r \in Requests |-> NoRequest]
    /\ served = consumed
    /\ banned = [ip \in Addresses |-> 0]

RateLimiterNext ==
    \/ \E r \in Requests :
          \/ \E ip \in Addresses, endpoint \in Endpoints \cup {None} : Ask(r, ip, endpoint)
          \/ ConsumeGlobal(r) \/ ConsumeEndpoint(r) \/ Return(r)
    \/ Tick

\* Calls end and time passes, whatever is asked meanwhile.
RateLimiterSpec ==
    /\ RateLimiterInit /\ [][RateLimiterNext]_vars
    /\ SF_vars(Tick)
    /\ \A r \in Requests : WF_vars(ConsumeGlobal(r) \/ ConsumeEndpoint(r) \/ Return(r))

---------------------------------------------------------------------------------
(* Properties *)

\* However the awaits of concurrent calls interleave, no more messages of an address
\* are let through in a window than its limiter allows, for all messages as for
\* those of one endpoint.
LimitsHold == \A l \in Limiters, ip \in Addresses : served[l][ip] <= Points[l]

\* An address that has exceeded the global limit passes it again only when its ban
\* of blockDuration seconds is over, not at the end of the window of a second.
BansHold ==
    [][\A r \in Requests :
          LET ip == request[r].ip
          IN  request[r].at = "global" /\ request'[r].at # "global" /\ ~request'[r].exceeded
                  => banned[ip] = 0]_vars

\* isBlocked is already true for an address that has spent its last point without
\* exceeding anything; in one status the two answers never contradict each other:
\* a message of an address reported as blocked is also over the limit.
BlockedIsExceeded == \A r \in Requests :
    request[r].at = "done" /\ request[r].blocked => request[r].exceeded

\* A banned address is let in again although it keeps sending, which does not prolong
\* the ban, as long as the calls leave the event loop a turn for its timers.
BansEnd ==
    []<>TurnOver => \A ip \in Addresses : banned[ip] > 0 ~> expires[Global][ip] = 0
==================================================================================
