---------------------------- MODULE RateLimiterProofs ----------------------------
(***********************************************************************************)
(* Proofs about RateLimiter for any addresses, endpoints, limits, durations and    *)
(* number of requests under way.                                                   *)
(***********************************************************************************)
EXTENDS RateLimiter, FiniteSetTheorems, TLAPS

\* The requests of an address that the global limiter let through, and that wait for
\* the limiter of their endpoint
Waiting(ip) == {r \in Requests : request[r].at = "endpoint" /\ request[r].ip = ip}

\* A request under way has an address, and one at an endpoint has an endpoint.
RequestsNamed ==
    \A r \in Requests :
        /\ request[r].at # "idle" => request[r].ip \in Addresses
        /\ request[r].at = "endpoint" => request[r].endpoint \in Endpoints

\* Each message let through, and for the global limiter each that still waits, has
\* consumed a point of its own below the limit.
PointsCover ==
    \A ip \in Addresses :
        /\ \A l \in Limiters : served[l][ip] <= Points[l] /\ served[l][ip] <= consumed[l][ip]
        /\ ip \notin Whitelist =>
               LET passed == served[Global][ip] + Cardinality(Waiting(ip))
               IN  passed <= Points[Global] /\ passed <= consumed[Global][ip]

\* An address of the whitelist consumes nothing.
WhitelistSpared == \A l \in Limiters, ip \in Whitelist : consumed[l][ip] = 0

\* The ban an address has earned is the window of its entry.
BanIsWindow ==
    \A ip \in Addresses :
        banned[ip] = IF BlockDuration[Global] > 0 /\ consumed[Global][ip] > Points[Global]
                     THEN expires[Global][ip] ELSE 0

\* No time passes while a request is under way: what is blocked stays exceeded.
BlockedStays ==
    \A r \in Requests : request[r].blocked =>
        /\ request[r].at = "global" => Exceeds(Global, request[r].ip)
        /\ request[r].at # "endpoint"
        /\ request[r].at = "done" => request[r].exceeded

RateLimiterInv ==
    /\ RateLimiterTypeOK /\ RequestsNamed /\ PointsCover /\ WhitelistSpared
    /\ BanIsWindow /\ BlockedStays

\* One point more for one address at one limiter, below the bound on counting, and
\* the window that belongs to it; nothing for an address of the whitelist.
LEMMA ConsumeEffect ==
    ASSUME RateLimiterTypeOK, NEW l \in Limiters, NEW ip \in Addresses, Consume(l, ip)
    PROVE  /\ consumed' \in [Limiters -> [Addresses -> 0..MaxConsumed]]
           /\ expires' \in [Limiters -> [Addresses -> Nat]]
           /\ \A k \in Limiters, q \in Addresses :
                  k # l \/ q # ip \/ ip \in Whitelist =>
                      consumed'[k][q] = consumed[k][q] /\ expires'[k][q] = expires[k][q]
           /\ ip \notin Whitelist =>
                  /\ consumed'[l][ip] = IF consumed[l][ip] < MaxConsumed
                                        THEN consumed[l][ip] + 1 ELSE consumed[l][ip]
                  /\ expires'[l][ip] = Window(l, ip)
<1>1. Window(l, ip) \in Nat
  BY RateLimiterAssumption DEF RateLimiterTypeOK, Window, Limiters
<1>2. CASE ip \in Whitelist
  BY <1>2 DEF Consume, RateLimiterTypeOK
<1>3. CASE ip \notin Whitelist
  <2>1. /\ consumed' = [consumed EXCEPT ![l][ip] = IF @ < MaxConsumed THEN @ + 1 ELSE @]
        /\ expires' = [expires EXCEPT ![l][ip] = Window(l, ip)]
    BY <1>3 DEF Consume
  <2>2. MaxConsumed \in Nat
    BY RateLimiterAssumption
  <2> HIDE DEF Window
  <2>3. QED
    BY <1>1, <1>3, <2>1, <2>2 DEF RateLimiterTypeOK
<1>4. QED
  BY <1>2, <1>3

\* A window is open just when there are points in it.
LEMMA ConsumeOpensWindow ==
    ASSUME RateLimiterTypeOK, NEW l \in Limiters, NEW ip \in Addresses, Consume(l, ip)
    PROVE  \A k \in Limiters, q \in Addresses : expires'[k][q] = 0 <=> consumed'[k][q] = 0
<1>1. ip \notin Whitelist => expires'[l][ip] # 0 /\ consumed'[l][ip] # 0
  <2>1. /\ Duration[l] \in Nat \ {0} /\ Points[l] \in Nat \ {0} /\ BlockDuration[l] \in Nat
        /\ MaxConsumed \in Nat \ {0}
    BY RateLimiterAssumption DEF Limiters
  <2>2. /\ consumed[l][ip] \in Nat /\ expires[l][ip] \in Nat
        /\ expires[l][ip] = 0 <=> consumed[l][ip] = 0
    BY <2>1 DEF RateLimiterTypeOK
  <2>3. Window(l, ip) # 0
    BY <2>1, <2>2 DEF Window
  <2>4. QED
    BY <2>1, <2>2, <2>3, ConsumeEffect
<1>2. QED
  BY <1>1, ConsumeEffect DEF RateLimiterTypeOK

\* A point of the global limiter keeps ban and window in step.
LEMMA ConsumeKeepsBan ==
    ASSUME RateLimiterInv, NEW ip \in Addresses, Consume(Global, ip),
           banned' = [banned EXCEPT ![ip] =
                          IF Exceeds(Global, ip) /\ @ = 0 THEN BlockDuration[Global] ELSE @]
    PROVE  BanIsWindow' /\ banned' \in [Addresses -> Nat]
<1>1. Global \in Limiters /\ BlockDuration[Global] \in Nat /\ Points[Global] \in Nat \ {0}
      /\ MaxConsumed \in Nat /\ Points[Global] + 1 < MaxConsumed
  BY RateLimiterAssumption DEF Limiters
<1>2. banned' \in [Addresses -> Nat]
  BY <1>1 DEF RateLimiterInv, RateLimiterTypeOK
<1>3. ASSUME NEW q \in Addresses, q # ip \/ ip \in Whitelist
      PROVE  banned'[q] = banned[q]
  BY <1>1, <1>3 DEF RateLimiterInv, RateLimiterTypeOK, Exceeds
<1>4. ASSUME NEW q \in Addresses
      PROVE  banned'[q] = IF BlockDuration[Global] > 0 /\ consumed'[Global][q] > Points[Global]
                          THEN expires'[Global][q] ELSE 0
  <2>1. CASE q # ip \/ ip \in Whitelist
    BY <1>1, <1>3, <2>1, ConsumeEffect DEF RateLimiterInv, BanIsWindow
  <2>2. CASE q = ip /\ ip \notin Whitelist
    <3>1. consumed[Global][ip] \in Nat /\ expires[Global][ip] \in Nat
          /\ (expires[Global][ip] = 0 <=> consumed[Global][ip] = 0)
      BY <1>1 DEF RateLimiterInv, RateLimiterTypeOK
    <3>2. banned'[ip] = IF consumed[Global][ip] >= Points[Global] /\ banned[ip] = 0
                        THEN BlockDuration[Global] ELSE banned[ip]
      BY <2>2 DEF RateLimiterInv, RateLimiterTypeOK, Exceeds
    <3>3. /\ consumed'[Global][ip] = IF consumed[Global][ip] < MaxConsumed
                                    THEN consumed[Global][ip] + 1 ELSE consumed[Global][ip]
          /\ expires'[Global][ip] = Window(Global, ip)
      BY <1>1, <2>2, ConsumeEffect DEF RateLimiterInv
    <3>4. banned[ip] = IF BlockDuration[Global] > 0 /\ consumed[Global][ip] > Points[Global]
                       THEN expires[Global][ip] ELSE 0
      BY DEF RateLimiterInv, BanIsWindow
    <3>5. QED
      BY <1>1, <2>2, <3>1, <3>2, <3>3, <3>4 DEF Window
  <2>3. QED
    BY <2>1, <2>2
<1>5. QED
  BY <1>2, <1>4 DEF BanIsWindow

LEMMA WaitingFinite ==
    ASSUME NEW ip \in Addresses
    PROVE  IsFiniteSet(Waiting(ip)) /\ Cardinality(Waiting(ip)) \in Nat
BY RateLimiterAssumption, FS_Subset, FS_CardinalityType DEF Waiting

\* A request that was not waiting joins, or one that was leaves.
LEMMA WaitingJoins ==
    ASSUME NEW r \in Requests, NEW ip \in Addresses, request \in [Requests -> Request],
           request[r].ip = ip, request[r].at # "endpoint",
           request' = [request EXCEPT ![r].at = "endpoint"]
    PROVE  /\ Cardinality(Waiting(ip)') = Cardinality(Waiting(ip)) + 1
           /\ \A q \in Addresses \ {ip} : Waiting(q)' = Waiting(q)
<1>1. Waiting(ip)' = Waiting(ip) \cup {r} /\ r \notin Waiting(ip)
  BY DEF Waiting, Request
<1>2. Cardinality(Waiting(ip)') = Cardinality(Waiting(ip)) + 1
  <2>1. IsFiniteSet(Waiting(ip))
    BY WaitingFinite
  <2>2. Cardinality(Waiting(ip) \cup {r}) = Cardinality(Waiting(ip)) + 1
    BY <1>1, <2>1, FS_AddElement, Zenon
  <2>3. QED
    BY <1>1, <2>2, Zenon
<1>3. QED
  BY <1>2 DEF Waiting, Request

LEMMA WaitingLeaves ==
    ASSUME NEW r \in Requests, NEW ip \in Addresses, request \in [Requests -> Request],
           request[r].ip = ip, request[r].at = "endpoint",
           request' \in [Requests -> Request], request'[r].at # "endpoint",
           \A s \in Requests \ {r} : request'[s] = request[s]
    PROVE  /\ Cardinality(Waiting(ip)') = Cardinality(Waiting(ip)) - 1
           /\ \A q \in Addresses \ {ip} : Waiting(q)' = Waiting(q)
<1>1. Waiting(ip)' = Waiting(ip) \ {r} /\ r \in Waiting(ip)
  BY DEF Waiting, Request
<1>2. Cardinality(Waiting(ip)') = Cardinality(Waiting(ip)) - 1
  <2>1. IsFiniteSet(Waiting(ip))
    BY WaitingFinite
  <2>2. Cardinality(Waiting(ip) \ {r}) = Cardinality(Waiting(ip)) - 1
    BY <1>1, <2>1, FS_RemoveElement, Zenon
  <2>3. QED
    BY <1>1, <2>2, Zenon
<1>3. QED
  BY <1>2 DEF Waiting, Request

LEMMA WaitingStays ==
    ASSUME \A r \in Requests :
               \/ request'[r] = request[r]
               \/ request[r].at # "endpoint" /\ request'[r].at # "endpoint"
    PROVE  \A ip \in Addresses : Waiting(ip)' = Waiting(ip)
BY DEF Waiting

\* What is consumed never falls, and below the limit it rises.
LEMMA ConsumeGrows ==
    ASSUME RateLimiterTypeOK, NEW l \in Limiters, NEW ip \in Addresses, Consume(l, ip)
    PROVE  /\ \A k \in Limiters, q \in Addresses : consumed'[k][q] >= consumed[k][q]
           /\ ~Exceeds(l, ip) /\ ip \notin Whitelist =>
                  /\ consumed[l][ip] + 1 <= Points[l]
                  /\ consumed'[l][ip] = consumed[l][ip] + 1
<1>1. MaxConsumed \in Nat /\ Points[l] \in Nat /\ Points[l] + 1 < MaxConsumed
  BY RateLimiterAssumption DEF Limiters
<1>2. \A k \in Limiters, q \in Addresses : consumed[k][q] \in Nat
  BY <1>1 DEF RateLimiterTypeOK
<1>3. QED
  BY <1>1, <1>2, ConsumeEffect DEF Exceeds

\* A message let through counts once for the global limiter and once for the one of
\* its endpoint.
LEMMA ServeCounts ==
    ASSUME RateLimiterTypeOK, NEW r \in Requests, request[r].ip \in Addresses, Serve(r)
    PROVE  \A l \in Limiters, q \in Addresses :
               served'[l][q] = IF /\ q = request[r].ip /\ q \notin Whitelist
                                  /\ l \in {Global, request[r].endpoint}
                               THEN served[l][q] + 1 ELSE served[l][q]
BY DEF Serve, RateLimiterTypeOK

LEMMA ServeIsTyped ==
    ASSUME RateLimiterTypeOK, NEW r \in Requests, Serve(r),
           \A l \in Limiters, q \in Addresses : served'[l][q] \in Nat /\ served'[l][q] <= Points[l]
    PROVE  served' \in [Limiters -> [Addresses -> 0..MaxConsumed]]
<1>1. \A l \in Limiters : Points[l] \in Nat /\ Points[l] + 1 < MaxConsumed
  BY RateLimiterAssumption DEF Limiters
<1>2. ASSUME NEW l \in Limiters PROVE served'[l] \in [Addresses -> 0..MaxConsumed]
  <2>1. \E f : served'[l] = [served[l] EXCEPT ![request[r].ip] = f]
    BY DEF Serve
  <2>2. \A q \in Addresses : served'[l][q] \in 0..MaxConsumed
    BY <1>1, RateLimiterAssumption
  <2>3. QED
    BY <2>1, <2>2 DEF RateLimiterTypeOK
<1>3. QED
  BY <1>2 DEF Serve

LEMMA AnswerIsRequest ==
    ASSUME NEW q \in Request, NEW exceeded \in BOOLEAN
    PROVE  /\ [q EXCEPT !.at = "done", !.exceeded = exceeded] \in Request
           /\ [q EXCEPT !.at = "endpoint"] \in Request
BY DEF Request

\* The effect of an answer on the calls
LEMMA AnswerEffect ==
    ASSUME RateLimiterTypeOK, NEW r \in Requests, NEW exceeded \in BOOLEAN, Answer(r, exceeded)
    PROVE  /\ request' \in [Requests -> Request]
           /\ \A s \in Requests \ {r} : request'[s] = request[s]
           /\ request'[r].at = "done" /\ request'[r].exceeded = exceeded
           /\ request'[r].ip = request[r].ip /\ request'[r].blocked = request[r].blocked
<1>1. request[r] \in Request /\ request \in [Requests -> Request]
  BY DEF RateLimiterTypeOK
<1> DEFINE answered == [request[r] EXCEPT !.at = "done", !.exceeded = exceeded]
<1>2. answered \in Request
  BY <1>1, AnswerIsRequest
<1>3. /\ answered.at = "done" /\ answered.exceeded = exceeded
      /\ answered.ip = request[r].ip /\ answered.blocked = request[r].blocked
  BY <1>1 DEF Request
<1>4. request' = [request EXCEPT ![r] = answered]
  BY DEF Answer
<1> HIDE DEF answered
<1>5. QED
  BY <1>1, <1>2, <1>3, <1>4

---------------------------------------------------------------------------------
(* Each operation keeps the invariant *)

LEMMA AskKeeps ==
    ASSUME RateLimiterInv, NEW r \in Requests, NEW ip \in Addresses,
           NEW endpoint \in Endpoints \cup {None}, Ask(r, ip, endpoint)
    PROVE  RateLimiterInv'
<1> USE DEF RateLimiterInv
<1>1. PICK blocked \in BOOLEAN : blocked = IsBlocked(ip)
  BY Zenon DEF IsBlocked
<1>2. /\ request[r].at = "idle"
      /\ request' = [request EXCEPT ![r] = [at |-> "global", ip |-> ip, endpoint |-> endpoint,
                                            blocked |-> blocked, exceeded |-> FALSE]]
  BY <1>1, Zenon DEF Ask
<1>3. UNCHANGED <<consumed, expires, served, banned>>
  BY DEF Ask
<1>4. RateLimiterTypeOK'
  <2>1. [at |-> "global", ip |-> ip, endpoint |-> endpoint,
         blocked |-> blocked, exceeded |-> FALSE] \in Request
    BY DEF Request
  <2>2. request' \in [Requests -> Request]
    BY <1>2, <2>1 DEF RateLimiterTypeOK
  <2>3. QED
    BY <1>3, <2>2 DEF RateLimiterTypeOK
<1>5. RequestsNamed'
  BY <1>2 DEF RequestsNamed, RateLimiterTypeOK
<1>6. \A q \in Addresses : Waiting(q)' = Waiting(q)
  BY <1>2, WaitingStays DEF RateLimiterTypeOK
<1>7. PointsCover'
  BY <1>3, <1>6 DEF PointsCover
<1>8. BanIsWindow'
  BY <1>3 DEF BanIsWindow
<1>9. BlockedStays'
  <2>1. \A q \in Addresses : Exceeds(Global, q)' = Exceeds(Global, q)
    BY <1>3 DEF Exceeds
  <2>2. blocked => Exceeds(Global, ip)
    BY <1>1 DEF IsBlocked, Exceeds
  <2>3. QED
    BY <1>2, <1>3, <2>1, <2>2 DEF BlockedStays, RateLimiterTypeOK, Exceeds
<1>10. WhitelistSpared'
  BY <1>3 DEF WhitelistSpared
<1>11. QED
  BY <1>4, <1>5, <1>7, <1>8, <1>9, <1>10

\* An answer keeps the calls named, and those that are blocked exceeded.
LEMMA AnswerKeepsCalls ==
    ASSUME RateLimiterInv, NEW r \in Requests, NEW exceeded \in BOOLEAN, Answer(r, exceeded),
           request[r].at \in {"global", "endpoint"}, request[r].blocked => exceeded,
           consumed' \in [Limiters -> [Addresses -> 0..MaxConsumed]],
           \A k \in Limiters, q \in Addresses : consumed'[k][q] >= consumed[k][q]
    PROVE  RequestsNamed' /\ BlockedStays'
<1> USE DEF RateLimiterInv
<1>1. RequestsNamed'
  BY AnswerEffect DEF RequestsNamed
<1>2. ASSUME NEW q \in Addresses, Exceeds(Global, q) PROVE Exceeds(Global, q)'
  <2>1. Global \in Limiters /\ Points[Global] \in Nat
    BY RateLimiterAssumption DEF Limiters
  <2>2. /\ consumed[Global][q] \in Nat /\ consumed'[Global][q] \in Nat
        /\ consumed'[Global][q] >= consumed[Global][q]
    BY <2>1, RateLimiterAssumption DEF RateLimiterTypeOK
  <2>3. QED
    BY <1>2, <2>1, <2>2 DEF Exceeds
<1>3. BlockedStays'
  BY <1>2, AnswerEffect DEF BlockedStays, RequestsNamed
<1>4. QED
  BY <1>1, <1>3

\* An address of the whitelist still consumes nothing.
LEMMA ConsumeSparesWhitelist ==
    ASSUME RateLimiterInv, NEW l \in Limiters, NEW ip \in Addresses, Consume(l, ip)
    PROVE  WhitelistSpared'
<1>1. Whitelist \subseteq Addresses
  BY RateLimiterAssumption
<1>2. \A k \in Limiters, q \in Whitelist : consumed'[k][q] = consumed[k][q]
  BY <1>1, ConsumeEffect DEF RateLimiterInv
<1>3. QED
  BY <1>2 DEF RateLimiterInv, WhitelistSpared

LEMMA ConsumeGlobalKeeps ==
    ASSUME RateLimiterInv, NEW r \in Requests, ConsumeGlobal(r)
    PROVE  RateLimiterInv'
<1> USE DEF RateLimiterInv
<1>0. PICK ip \in Addresses : ip = request[r].ip
  BY DEF ConsumeGlobal, RequestsNamed
<1> DEFINE next == [request EXCEPT ![r].at = "endpoint"]
<1>1. /\ request[r].at = "global" /\ request[r] \in Request
      /\ Global \in Limiters /\ Points[Global] \in Nat
  BY RateLimiterAssumption DEF ConsumeGlobal, RateLimiterTypeOK, Limiters
<1>2. PICK exceeds \in BOOLEAN : exceeds = Exceeds(Global, ip)
  BY Zenon DEF Exceeds
<1>3. /\ Consume(Global, ip)
      /\ banned' = [banned EXCEPT ![ip] =
                        IF Exceeds(Global, ip) /\ @ = 0 THEN BlockDuration[Global] ELSE @]
      /\ \/ /\ ~exceeds /\ request[r].endpoint # None
            /\ request' = next /\ UNCHANGED served
         \/ /\ exceeds \/ request[r].endpoint = None
            /\ Answer(r, exceeds) /\ IF exceeds THEN UNCHANGED served ELSE Serve(r)
  BY <1>0, <1>2, Zenon DEF ConsumeGlobal
<1> HIDE DEF next
<1>4. BanIsWindow' /\ banned' \in [Addresses -> Nat]
  BY <1>1, <1>3, ConsumeKeepsBan
<1>5. /\ consumed' \in [Limiters -> [Addresses -> 0..MaxConsumed]]
      /\ expires' \in [Limiters -> [Addresses -> Nat]]
      /\ \A k \in Limiters, q \in Addresses : expires'[k][q] = 0 <=> consumed'[k][q] = 0
  BY <1>1, <1>3, ConsumeEffect, ConsumeOpensWindow
<1>6. \A k \in Limiters, q \in Addresses : consumed'[k][q] >= consumed[k][q]
  BY <1>1, <1>3, ConsumeGrows
<1>7. ~exceeds /\ ip \notin Whitelist =>
          /\ consumed[Global][ip] + 1 <= Points[Global]
          /\ consumed'[Global][ip] = consumed[Global][ip] + 1
  BY <1>1, <1>2, <1>3, ConsumeGrows
<1>8. request[r].blocked => exceeds
  BY <1>0, <1>1, <1>2 DEF BlockedStays
<1>9. \A k \in Limiters, q \in Addresses :
          /\ consumed[k][q] \in Nat /\ consumed'[k][q] \in Nat
          /\ served[k][q] \in Nat /\ Points[k] \in Nat \ {0}
  BY <1>5, RateLimiterAssumption DEF RateLimiterTypeOK
<1>10. \A q \in Addresses : Cardinality(Waiting(q)) \in Nat
  BY WaitingFinite
<1>11. CASE ~exceeds /\ request[r].endpoint # None /\ request' = next /\ UNCHANGED served
  <2>1. request' \in [Requests -> Request]
    BY <1>1, <1>11, AnswerIsRequest DEF RateLimiterTypeOK, next
  <2>2. RequestsNamed'
    BY <1>1, <1>11 DEF next, RequestsNamed, RateLimiterTypeOK, Request
  <2>3. /\ Cardinality(Waiting(ip)') = Cardinality(Waiting(ip)) + 1
        /\ \A q \in Addresses \ {ip} : Waiting(q)' = Waiting(q)
    <3>1. request' = [request EXCEPT ![r].at = "endpoint"]
      BY <1>11 DEF next
    <3>2. QED
      BY <1>0, <1>1, <3>1, WaitingJoins DEF RateLimiterTypeOK
  <2>4. PointsCover'
    <3>1. ASSUME NEW q \in Addresses
          PROVE  \A l \in Limiters : served'[l][q] <= Points[l] /\ served'[l][q] <= consumed'[l][q]
      BY <1>6, <1>9, <1>11 DEF PointsCover
    <3>2. ASSUME NEW q \in Addresses, q \notin Whitelist
          PROVE  LET passed == served'[Global][q] + Cardinality(Waiting(q)')
                 IN  passed <= Points[Global] /\ passed <= consumed'[Global][q]
      <4>1. LET passed == served[Global][q] + Cardinality(Waiting(q))
            IN  passed <= Points[Global] /\ passed <= consumed[Global][q]
        BY <3>2 DEF PointsCover
      <4>2. consumed'[Global][q] >= consumed[Global][q] /\ served'[Global][q] = served[Global][q]
        BY <1>1, <1>6, <1>11
      <4>3. CASE q = ip
        BY <1>1, <1>7, <1>9, <1>10, <1>11, <2>3, <3>2, <4>1, <4>2, <4>3
      <4>4. CASE q # ip
        BY <1>1, <1>9, <1>10, <2>3, <4>1, <4>2, <4>4
      <4>5. QED
        BY <4>3, <4>4
    <3>3. QED
      BY <3>1, <3>2 DEF PointsCover
  <2>5. BlockedStays'
    <3>1. \A q \in Addresses : Exceeds(Global, q) => Exceeds(Global, q)'
      BY <1>1, <1>6, <1>9 DEF Exceeds
    <3>2. ~request[r].blocked
      BY <1>8, <1>11
    <3>3. \A s \in Requests \ {r} : request'[s] = request[s]
      BY <1>11 DEF next, RateLimiterTypeOK
    <3>4. request'[r].blocked = request[r].blocked
      BY <1>1, <1>11 DEF next, RateLimiterTypeOK, Request
    <3>5. QED
      BY <3>1, <3>2, <3>3, <3>4 DEF BlockedStays, RequestsNamed
  <2>6. QED
    BY <1>1, <1>3, <1>4, <1>5, <1>11, <2>1, <2>2, <2>4, <2>5, ConsumeSparesWhitelist
    DEF RateLimiterTypeOK
<1>12. CASE Answer(r, exceeds) /\ IF exceeds THEN UNCHANGED served ELSE Serve(r)
            /\ (exceeds \/ request[r].endpoint = None)
  <2>1. RequestsNamed' /\ BlockedStays'
    BY <1>1, <1>5, <1>6, <1>8, <1>12, AnswerKeepsCalls
  <2>2. \A q \in Addresses : Waiting(q)' = Waiting(q)
    BY <1>1, <1>12, AnswerEffect, WaitingStays
  <2>3. \A l \in Limiters, q \in Addresses :
            served'[l][q] = IF q = ip /\ q \notin Whitelist /\ ~exceeds /\ l = Global
                            THEN served[l][q] + 1 ELSE served[l][q]
    <3>1. CASE exceeds
      BY <1>12, <3>1
    <3>2. CASE ~exceeds
      <4>1. \A l \in Limiters : l \in {Global, request[r].endpoint} <=> l = Global
        BY <1>12, <3>2, RateLimiterAssumption
      <4>2. QED
        BY <1>0, <1>1, <1>12, <3>2, <4>1, ServeCounts
    <3>3. QED
      BY <3>1, <3>2
  <2>4. PointsCover'
    <3>1. ASSUME NEW q \in Addresses, q \in Whitelist \/ exceeds \/ q # ip
          PROVE  \A l \in Limiters : served'[l][q] = served[l][q]
      BY <2>3, <3>1
    <3>2. ASSUME NEW q \in Addresses, NEW l \in Limiters
          PROVE  /\ served'[l][q] <= Points[l] /\ served'[l][q] <= consumed'[l][q]
      <4>1. /\ served[l][q] <= Points[l] /\ served[l][q] <= consumed[l][q]
        BY DEF PointsCover
      <4>2. consumed'[l][q] >= consumed[l][q]
        BY <1>6
      <4>3. CASE q = ip /\ q \notin Whitelist /\ ~exceeds /\ l = Global
        BY <1>7, <1>9, <2>3, <4>1, <4>2, <4>3
      <4>4. CASE ~(q = ip /\ q \notin Whitelist /\ ~exceeds /\ l = Global)
        <5>1. served'[l][q] = served[l][q]
          BY <2>3, <4>4
        <5>2. QED
          BY <1>9, <4>1, <4>2, <5>1
      <4>5. QED
        BY <4>3, <4>4
    <3>3. ASSUME NEW q \in Addresses, q \notin Whitelist
          PROVE  LET passed == served'[Global][q] + Cardinality(Waiting(q)')
                 IN  passed <= Points[Global] /\ passed <= consumed'[Global][q]
      <4>1. LET passed == served[Global][q] + Cardinality(Waiting(q))
            IN  passed <= Points[Global] /\ passed <= consumed[Global][q]
        BY <3>3 DEF PointsCover
      <4>2. consumed'[Global][q] >= consumed[Global][q]
        BY <1>1, <1>6
      <4>3. Waiting(q)' = Waiting(q)
        BY <2>2
      <4>4. CASE q = ip /\ ~exceeds
        BY <1>1, <1>7, <1>9, <1>10, <2>3, <3>3, <4>1, <4>3, <4>4
      <4>5. CASE ~(q = ip /\ ~exceeds)
        <5>1. served'[Global][q] = served[Global][q]
          BY <1>1, <3>1, <4>5
        <5>2. QED
          BY <1>1, <1>9, <1>10, <4>1, <4>2, <4>3, <5>1
      <4>6. QED
        BY <4>4, <4>5
    <3>4. QED
      BY <3>2, <3>3 DEF PointsCover
  <2>5. served' \in [Limiters -> [Addresses -> 0..MaxConsumed]]
    <3>1. CASE exceeds
      BY <1>12, <3>1 DEF RateLimiterTypeOK
    <3>2. CASE ~exceeds
      <4>1. \A l \in Limiters, q \in Addresses : served'[l][q] \in Nat /\ served'[l][q] <= Points[l]
        BY <1>9, <2>3, <2>4 DEF PointsCover
      <4>2. QED
        BY <1>12, <3>2, <4>1, ServeIsTyped
    <3>3. QED
      BY <3>1, <3>2
  <2>6. request' \in [Requests -> Request]
    BY <1>12, AnswerEffect
  <2>7. QED
    BY <1>1, <1>3, <1>4, <1>5, <2>1, <2>4, <2>5, <2>6, ConsumeSparesWhitelist
    DEF RateLimiterTypeOK
<1>13. QED
  BY <1>3, <1>11, <1>12

LEMMA ConsumeEndpointKeeps ==
    ASSUME RateLimiterInv, NEW r \in Requests, ConsumeEndpoint(r)
    PROVE  RateLimiterInv'
<1> USE DEF RateLimiterInv
<1>0. PICK ip \in Addresses, endpoint \in Endpoints :
          ip = request[r].ip /\ endpoint = request[r].endpoint
  BY DEF ConsumeEndpoint, RequestsNamed
<1>1. /\ request[r].at = "endpoint" /\ request \in [Requests -> Request]
      /\ {Global, endpoint} \subseteq Limiters /\ endpoint # Global
  BY RateLimiterAssumption DEF ConsumeEndpoint, RateLimiterTypeOK, Limiters
<1>2. PICK exceeds \in BOOLEAN : exceeds = Exceeds(endpoint, ip)
  BY Zenon DEF Exceeds
<1>3. /\ Consume(endpoint, ip) /\ UNCHANGED banned
      /\ Answer(r, exceeds) /\ IF exceeds THEN UNCHANGED served ELSE Serve(r)
  BY <1>0, <1>2, Zenon DEF ConsumeEndpoint
<1>4. /\ consumed' \in [Limiters -> [Addresses -> 0..MaxConsumed]]
      /\ expires' \in [Limiters -> [Addresses -> Nat]]
      /\ \A k \in Limiters, q \in Addresses : expires'[k][q] = 0 <=> consumed'[k][q] = 0
  BY <1>1, <1>3, ConsumeEffect, ConsumeOpensWindow
<1>5. \A k \in Limiters, q \in Addresses : consumed'[k][q] >= consumed[k][q]
  BY <1>1, <1>3, ConsumeGrows
<1>6. \A q \in Addresses : consumed'[Global][q] = consumed[Global][q]
                           /\ expires'[Global][q] = expires[Global][q]
  BY <1>1, <1>3, ConsumeEffect
<1>7. ~exceeds /\ ip \notin Whitelist =>
          /\ consumed[endpoint][ip] + 1 <= Points[endpoint]
          /\ consumed'[endpoint][ip] = consumed[endpoint][ip] + 1
  BY <1>1, <1>2, <1>3, ConsumeGrows
<1>8. \A k \in Limiters, q \in Addresses :
          /\ consumed[k][q] \in Nat /\ consumed'[k][q] \in Nat
          /\ served[k][q] \in Nat /\ Points[k] \in Nat \ {0}
  BY <1>4, RateLimiterAssumption DEF RateLimiterTypeOK
<1>9. BanIsWindow'
  BY <1>3, <1>6 DEF BanIsWindow
<1>10. RequestsNamed' /\ BlockedStays'
  <2>1. ~request[r].blocked
    BY <1>1 DEF BlockedStays
  <2>2. QED
    BY <1>1, <1>3, <1>4, <1>5, <2>1, AnswerKeepsCalls
<1>11. /\ request' \in [Requests -> Request]
       /\ \A s \in Requests \ {r} : request'[s] = request[s]
       /\ request'[r].at = "done"
  BY <1>3, AnswerEffect
<1>12. /\ Cardinality(Waiting(ip)') = Cardinality(Waiting(ip)) - 1
       /\ \A q \in Addresses \ {ip} : Waiting(q)' = Waiting(q)
  BY <1>0, <1>1, <1>11, WaitingLeaves
<1>13. \A q \in Addresses : Cardinality(Waiting(q)) \in Nat /\ Cardinality(Waiting(q)') \in Nat
  <2>1. TAKE q \in Addresses
  <2>2. IsFiniteSet(Waiting(q)') /\ Cardinality(Waiting(q)') \in Nat
    BY RateLimiterAssumption, FS_Subset, FS_CardinalityType DEF Waiting
  <2>3. QED
    BY <2>2, WaitingFinite
<1>14. \A l \in Limiters, q \in Addresses :
          served'[l][q] = IF q = ip /\ q \notin Whitelist /\ ~exceeds /\ l \in {Global, endpoint}
                          THEN served[l][q] + 1 ELSE served[l][q]
  <2>1. CASE exceeds
    BY <1>3, <2>1
  <2>2. CASE ~exceeds
    BY <1>0, <1>3, <2>2, ServeCounts
  <2>3. QED
    BY <2>1, <2>2
<1>15. PointsCover'
  <2>1. ASSUME NEW q \in Addresses, NEW l \in Limiters \ {Global}
        PROVE  /\ served'[l][q] <= Points[l] /\ served'[l][q] <= consumed'[l][q]
    <3>1. /\ served[l][q] <= Points[l] /\ served[l][q] <= consumed[l][q]
          /\ consumed'[l][q] >= consumed[l][q]
      BY <1>5 DEF PointsCover
    <3>2. CASE q = ip /\ q \notin Whitelist /\ ~exceeds /\ l = endpoint
      BY <1>7, <1>8, <1>14, <3>1, <3>2
    <3>3. CASE ~(q = ip /\ q \notin Whitelist /\ ~exceeds /\ l = endpoint)
      <4>1. served'[l][q] = served[l][q]
        BY <1>14, <3>3
      <4>2. QED
        BY <1>8, <3>1, <4>1
    <3>4. QED
      BY <3>2, <3>3
  <2>2. ASSUME NEW q \in Addresses, q \notin Whitelist
        PROVE  LET passed == served'[Global][q] + Cardinality(Waiting(q)')
               IN  passed <= Points[Global] /\ passed <= consumed'[Global][q]
    <3>1. LET passed == served[Global][q] + Cardinality(Waiting(q))
          IN  passed <= Points[Global] /\ passed <= consumed[Global][q]
      BY <2>2 DEF PointsCover
    <3>2. consumed'[Global][q] = consumed[Global][q]
      BY <1>6
    <3>3. CASE q = ip
      <4>1. served'[Global][q] \in {served[Global][q], served[Global][q] + 1}
        BY <1>1, <1>14
      <4>2. QED
        BY <1>1, <1>8, <1>12, <1>13, <3>1, <3>2, <3>3, <4>1
    <3>4. CASE q # ip
      BY <1>1, <1>8, <1>12, <1>14, <3>1, <3>2, <3>4
    <3>5. QED
      BY <3>3, <3>4
  <2>3. ASSUME NEW q \in Addresses
        PROVE  /\ served'[Global][q] <= Points[Global] /\ served'[Global][q] <= consumed'[Global][q]
    <3>1. CASE q \in Whitelist
      <4>1. served'[Global][q] = served[Global][q] /\ consumed'[Global][q] = consumed[Global][q]
            /\ served[Global][q] <= Points[Global] /\ served[Global][q] <= consumed[Global][q]
        BY <1>1, <1>6, <1>14, <3>1 DEF PointsCover
      <4>2. QED
        BY <1>1, <1>8, <4>1
    <3>2. CASE q \notin Whitelist
      <4>1. served'[Global][q] \in Nat
        BY <1>1, <1>8, <1>14
      <4>2. QED
        BY <1>1, <1>8, <1>13, <2>2, <3>2, <4>1
    <3>3. QED
      BY <3>1, <3>2
  <2>4. ASSUME NEW q \in Addresses, NEW l \in Limiters
        PROVE  /\ served'[l][q] <= Points[l] /\ served'[l][q] <= consumed'[l][q]
    BY <2>1, <2>3
  <2>5. QED
    BY <2>2, <2>4 DEF PointsCover
<1>16. served' \in [Limiters -> [Addresses -> 0..MaxConsumed]]
  <2>1. CASE exceeds
    BY <1>3, <2>1 DEF RateLimiterTypeOK
  <2>2. CASE ~exceeds
    <3>1. \A l \in Limiters, q \in Addresses : served'[l][q] \in Nat /\ served'[l][q] <= Points[l]
      BY <1>8, <1>14, <1>15 DEF PointsCover
    <3>2. QED
      BY <1>3, <2>2, <3>1, ServeIsTyped
  <2>3. QED
    BY <2>1, <2>2
<1>17. RateLimiterTypeOK'
  BY <1>3, <1>4, <1>11, <1>16 DEF RateLimiterTypeOK
<1>18. WhitelistSpared'
  BY <1>1, <1>3, ConsumeSparesWhitelist
<1>19. QED
  BY <1>9, <1>10, <1>15, <1>17, <1>18

LEMMA ReturnKeeps ==
    ASSUME RateLimiterInv, NEW r \in Requests, Return(r)
    PROVE  RateLimiterInv'
<1> USE DEF RateLimiterInv
<1>1. /\ request[r].at = "done" /\ request' = [request EXCEPT ![r] = NoRequest]
      /\ UNCHANGED <<consumed, expires, served, banned>>
  BY DEF Return
<1>2. NoRequest \in Request /\ NoRequest.at = "idle" /\ ~NoRequest.blocked
  BY DEF NoRequest, Request
<1>3. RateLimiterTypeOK'
  BY <1>1, <1>2 DEF RateLimiterTypeOK
<1>4. RequestsNamed'
  BY <1>1, <1>2 DEF RequestsNamed, RateLimiterTypeOK
<1>5. \A q \in Addresses : Waiting(q)' = Waiting(q)
  BY <1>1, <1>2, WaitingStays DEF RateLimiterTypeOK
<1>6. PointsCover' /\ BanIsWindow'
  BY <1>1, <1>5 DEF PointsCover, BanIsWindow
<1>7. BlockedStays'
  <2>1. \A q \in Addresses : Exceeds(Global, q)' = Exceeds(Global, q)
    BY <1>1 DEF Exceeds
  <2>2. \A s \in Requests \ {r} : request'[s] = request[s]
    BY <1>1
  <2>3. request'[r] = NoRequest
    BY <1>1 DEF RateLimiterTypeOK
  <2>4. ~request'[r].blocked
    BY <1>2, <2>3
  <2>5. QED
    BY <2>1, <2>2, <2>4 DEF BlockedStays, RequestsNamed
<1>8. WhitelistSpared'
  BY <1>1 DEF WhitelistSpared
<1>9. QED
  BY <1>3, <1>4, <1>6, <1>7, <1>8

\* When a second passes no call is under way, and an entry and what was let through
\* on its account are forgotten together.
LEMMA TickKeeps ==
    ASSUME RateLimiterInv, Tick
    PROVE  RateLimiterInv'
<1> USE DEF RateLimiterInv
<1>1. /\ \A r \in Requests : request[r].at = "idle"
      /\ request' = request
  BY DEF Tick, TurnOver
<1>2. ASSUME NEW l \in Limiters, NEW q \in Addresses
      PROVE  /\ expires'[l][q] = IF expires[l][q] = 0 THEN 0 ELSE expires[l][q] - 1
             /\ consumed'[l][q] = IF expires[l][q] <= 1 THEN 0 ELSE consumed[l][q]
             /\ served'[l][q] = IF expires[l][q] <= 1 THEN 0 ELSE served[l][q]
             /\ banned'[q] = IF banned[q] = 0 THEN 0 ELSE banned[q] - 1
  BY DEF Tick
<1>3. /\ consumed' = [l \in Limiters |-> [q \in Addresses |-> consumed'[l][q]]]
      /\ expires' = [l \in Limiters |-> [q \in Addresses |-> expires'[l][q]]]
      /\ served' = [l \in Limiters |-> [q \in Addresses |-> served'[l][q]]]
      /\ banned' = [q \in Addresses |-> banned'[q]]
  BY DEF Tick
<1>4. \A l \in Limiters, q \in Addresses :
          /\ consumed[l][q] \in 0..MaxConsumed /\ expires[l][q] \in Nat
          /\ served[l][q] \in 0..MaxConsumed /\ banned[q] \in Nat
          /\ expires[l][q] = 0 <=> consumed[l][q] = 0
  BY DEF RateLimiterTypeOK
<1>5. MaxConsumed \in Nat /\ Global \in Limiters
      /\ \A l \in Limiters : Points[l] \in Nat \ {0} /\ BlockDuration[l] \in Nat
  BY RateLimiterAssumption DEF Limiters
<1>6. RateLimiterTypeOK'
  <2>1. ASSUME NEW l \in Limiters, NEW q \in Addresses
        PROVE  /\ consumed'[l][q] \in 0..MaxConsumed /\ expires'[l][q] \in Nat
               /\ served'[l][q] \in 0..MaxConsumed /\ banned'[q] \in Nat
               /\ expires'[l][q] = 0 <=> consumed'[l][q] = 0
    BY <1>2, <1>4, <1>5
  <2>2. \A q \in Addresses : banned'[q] \in Nat
    BY <1>5, <2>1
  <2>3. consumed' \in [Limiters -> [Addresses -> 0..MaxConsumed]]
        /\ served' \in [Limiters -> [Addresses -> 0..MaxConsumed]]
        /\ expires' \in [Limiters -> [Addresses -> Nat]]
    BY <1>3, <2>1, Zenon
  <2>4. banned' \in [Addresses -> Nat]
    BY <1>3, <2>2, Zenon
  <2>5. QED
    BY <1>1, <2>1, <2>3, <2>4 DEF RateLimiterTypeOK
<1>7. RequestsNamed'
  BY <1>1 DEF RequestsNamed
<1>8. PointsCover'
  <2>1. ASSUME NEW q \in Addresses, NEW l \in Limiters
        PROVE  /\ served'[l][q] <= Points[l] /\ served'[l][q] <= consumed'[l][q]
               /\ served'[l][q] \in Nat
    BY <1>2, <1>4, <1>5 DEF PointsCover
  <2>2. \A q \in Addresses : Cardinality(Waiting(q)') = 0
    <3>1. TAKE q \in Addresses
    <3>2. Waiting(q)' = {}
      BY <1>1 DEF Waiting
    <3>3. QED
      BY <3>2, FS_EmptySet
  <2>3. QED
    BY <1>5, <2>1, <2>2 DEF PointsCover
<1>9. BanIsWindow'
  <2>1. ASSUME NEW q \in Addresses
        PROVE  banned'[q] = IF BlockDuration[Global] > 0 /\ consumed'[Global][q] > Points[Global]
                            THEN expires'[Global][q] ELSE 0
    <3>1. banned[q] = IF BlockDuration[Global] > 0 /\ consumed[Global][q] > Points[Global]
                      THEN expires[Global][q] ELSE 0
      BY DEF BanIsWindow
    <3>2. QED
      BY <1>2, <1>4, <1>5, <3>1
  <2>2. QED
    BY <2>1 DEF BanIsWindow
<1>10. BlockedStays'
  BY <1>1 DEF BlockedStays
<1>11. WhitelistSpared'
  <2>1. Whitelist \subseteq Addresses
    BY RateLimiterAssumption
  <2>2. ASSUME NEW l \in Limiters, NEW q \in Whitelist PROVE consumed'[l][q] = 0
    BY <1>2, <2>1 DEF WhitelistSpared
  <2>3. QED
    BY <2>2 DEF WhitelistSpared
<1>12. QED
  BY <1>6, <1>7, <1>8, <1>9, <1>10, <1>11

---------------------------------------------------------------------------------
(* The theorems *)

LEMMA InitSafe == RateLimiterInit => RateLimiterInv
<1> SUFFICES ASSUME RateLimiterInit PROVE RateLimiterInv
  OBVIOUS
<1>1. NoRequest \in Request /\ NoRequest.at = "idle" /\ ~NoRequest.blocked
  BY DEF NoRequest, Request
<1>2. /\ MaxConsumed \in Nat /\ Global \in Limiters
      /\ \A l \in Limiters : Points[l] \in Nat \ {0}
  BY RateLimiterAssumption DEF Limiters
<1>3. RateLimiterTypeOK
  BY <1>1, <1>2 DEF RateLimiterInit, RateLimiterTypeOK
<1>4. \A q \in Addresses : Cardinality(Waiting(q)) = 0
  <2>1. TAKE q \in Addresses
  <2>2. Waiting(q) = {}
    BY <1>1 DEF Waiting, RateLimiterInit
  <2>3. QED
    BY <2>2, FS_EmptySet
<1>5. PointsCover
  BY <1>2, <1>4 DEF RateLimiterInit, PointsCover
<1>6. BanIsWindow
  BY <1>2 DEF RateLimiterInit, BanIsWindow
<1>7. RequestsNamed /\ BlockedStays /\ WhitelistSpared
  BY <1>1, RateLimiterAssumption DEF RateLimiterInit, RequestsNamed, BlockedStays, WhitelistSpared
<1>8. QED
  BY <1>3, <1>5, <1>6, <1>7 DEF RateLimiterInv

LEMMA StepSafe == RateLimiterInv /\ [RateLimiterNext]_vars => RateLimiterInv'
<1> SUFFICES ASSUME RateLimiterInv, [RateLimiterNext]_vars PROVE RateLimiterInv'
  OBVIOUS
<1>1. CASE UNCHANGED vars
  BY <1>1 DEF vars, RateLimiterInv, RateLimiterTypeOK, RequestsNamed, PointsCover,
              BanIsWindow, BlockedStays, WhitelistSpared, Exceeds, Waiting
<1>2. QED
  BY <1>1, AskKeeps, ConsumeGlobalKeeps, ConsumeEndpointKeeps, ReturnKeeps, TickKeeps
  DEF RateLimiterNext

LEMMA InvAlways == RateLimiterSpec => []RateLimiterInv
BY InitSafe, StepSafe, PTL DEF RateLimiterSpec

LEMMA InvImplies == RateLimiterInv => RateLimiterTypeOK /\ LimitsHold /\ BlockedIsExceeded
BY DEF RateLimiterInv, PointsCover, LimitsHold, BlockedStays, BlockedIsExceeded

\* For any limits and however many calls interleave: no address gets more messages
\* through in a window than a limiter allows, and no status contradicts itself.
THEOREM RateLimiterSafe == RateLimiterSpec => [](RateLimiterTypeOK /\ LimitsHold /\ BlockedIsExceeded)
BY InvAlways, InvImplies, PTL

\* A call gets past the global limiter only when no ban of its address is left.
LEMMA PassingHasNoBan ==
    ASSUME RateLimiterInv, RateLimiterNext, NEW r \in Requests,
           request[r].at = "global", request'[r].at # "global", ~request'[r].exceeded
    PROVE  banned[request[r].ip] = 0
<1> USE DEF RateLimiterInv
<1>1. ConsumeGlobal(r)
  <2>1. ~Tick
    BY DEF Tick
  <2>2. PICK s \in Requests :
            \/ \E ip \in Addresses, endpoint \in Endpoints \cup {None} : Ask(s, ip, endpoint)
            \/ ConsumeGlobal(s) \/ ConsumeEndpoint(s) \/ Return(s)
    BY <2>1 DEF RateLimiterNext
  <2>3. CASE s = r
    BY <2>2, <2>3 DEF Ask, ConsumeEndpoint, Return
  <2>4. CASE s # r
    BY <2>2, <2>4 DEF Ask, ConsumeGlobal, ConsumeEndpoint, Return, Answer, RateLimiterTypeOK
  <2>5. QED
    BY <2>3, <2>4
<1>2. PICK ip \in Addresses : ip = request[r].ip
  BY <1>1 DEF ConsumeGlobal, RequestsNamed
<1>3. ~Exceeds(Global, ip)
  <2>1. PICK exceeds \in BOOLEAN : exceeds = Exceeds(Global, ip)
    BY Zenon DEF Exceeds
  <2>2. ~exceeds \/ Answer(r, exceeds)
    BY <1>1, <1>2, <2>1, Zenon DEF ConsumeGlobal
  <2>3. QED
    BY <2>1, <2>2, AnswerEffect
<1>4. Global \in Limiters /\ Points[Global] \in Nat /\ consumed[Global][ip] \in Nat
  BY RateLimiterAssumption DEF Limiters, RateLimiterTypeOK
<1>5. CASE ip \in Whitelist
  BY <1>2, <1>4, <1>5, RateLimiterAssumption DEF BanIsWindow, WhitelistSpared
<1>6. CASE ip \notin Whitelist
  BY <1>2, <1>3, <1>4, <1>6 DEF BanIsWindow, Exceeds
<1>7. QED
  BY <1>5, <1>6

\* A banned address, whoever asks for it and however often, passes the global limiter
\* again only when all seconds of its ban are over.
THEOREM BansAlwaysHold == RateLimiterSpec => BansHold
<1> DEFINE Passes == \A r \in Requests :
               LET ip == request[r].ip
               IN  request[r].at = "global" /\ request'[r].at # "global" /\ ~request'[r].exceeded
                       => banned[ip] = 0
<1>1. RateLimiterInv /\ [RateLimiterNext]_vars => [Passes]_vars
  <2> SUFFICES ASSUME RateLimiterInv, RateLimiterNext PROVE Passes
    OBVIOUS
  <2>1. QED
    BY PassingHasNoBan
<1> HIDE DEF Passes
<1>2. RateLimiterSpec => [][Passes]_vars
  BY <1>1, InvAlways, PTL DEF RateLimiterSpec
<1>3. QED
  BY <1>2 DEF BansHold, Passes
==================================================================================
