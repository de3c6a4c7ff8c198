--------------------------------- MODULE Services --------------------------------
(***********************************************************************************)
(* The database connections and the wallet api in one process: registered in the   *)
(* order of the configuration, deregistered in the reverse order on SIGINT, with   *)
(* requests of the api running queries meanwhile. What the container does is in    *)
(* module Container; here it is the order in which it calls the plugins.           *)
(***********************************************************************************)
EXTENDS ApiServer

VARIABLES
    stage,      \* "setup", "ready", "stopping", or "stuck" when the tear down has rejected
    next,       \* the plugin that is registered or deregistered next, by its position
    request     \* request[c]: the request that uses client c

vars == <<databaseVars, exitCode, apiVars, stage, next, request>>

Api == Len(Drivers) + 1
Routes == [information |-> "mysql", search |-> "mssql"]
NoRequest == [route |-> None, at |-> "idle"]

ServicesTypeOK ==
    /\ DatabasesTypeOK /\ ApiTypeOK
    /\ stage \in {"setup", "ready", "stopping", "stuck"}
    /\ next \in 0..Api + 1
    /\ request \in [Clients -> {NoRequest} \cup
                      [route : DOMAIN Routes, at : {"auth", "data", "count"}]]
    \* a call of hapi that waits has begun, and is not over
    /\ \A s \in ServerSet : awaits[s] \in DOMAIN Walks => at[awaits[s]] \in DOMAIN Walks[awaits[s]]

---------------------------------------------------------------------------------
(* register and deregister of the plugins *)

RegisterDriver ==
    /\ stage = "setup" /\ Running
    /\ next \in DOMAIN Drivers
    /\ CreateConnection(Drivers[next])
    /\ next' = next + 1
    /\ UNCHANGED <<apiVars, stage, request>>

\* The api is registered when start() has resolved. It is optional: when start() has
\* rejected, the container is ready without it, whatever servers it left under way.
RegisterApi ==
    /\ stage = "setup" /\ Running
    /\ next = Api
    /\ \/ starting = 0 /\ starting' = 1 /\ UNCHANGED <<stage, next>>
       \/ starting = None /\ stage' = "ready" /\ next' = Api - 1 /\ UNCHANGED starting
       \/ /\ starting # None /\ starting > Len(Servers)
          /\ stage' = "ready"
          /\ UNCHANGED <<next, starting>>
    /\ UNCHANGED <<databaseVars, exitCode, phase, registered, failed, resolved, mounted, awaits, at,
                   late, request>>

AppRestarts ==
    /\ stage # "setup" /\ Running
    /\ starting # None
    /\ Calls("restart")
    /\ UNCHANGED <<databaseVars, exitCode, phase, registered, failed, resolved, mounted, awaits,
                   starting, late, stage, next, request>>

Interrupt ==
    /\ Running
    /\ \/ stage = "ready" /\ stage' = "stopping" /\ UNCHANGED exitCode
       \/ stage = "setup" /\ exitCode' = 0 /\ UNCHANGED stage
    /\ UNCHANGED <<databaseVars, apiVars, next, request>>

\* deregister of the api awaits stop(); when it rejects, so does the tear down.
DeregisterApi ==
    /\ stage = "stopping" /\ Running
    /\ next = Api
    /\ \/ Calls("stop") /\ UNCHANGED <<stage, next>>
       \/ at["stop"] = None /\ stage' = "stuck" /\ UNCHANGED <<at, next>>
       \/ Over("stop") /\ next' = Api - 1 /\ UNCHANGED <<at, stage>>
    /\ UNCHANGED <<databaseVars, exitCode, phase, registered, failed, resolved, mounted, awaits,
                   starting, late, request>>

DeregisterDriver ==
    /\ stage = "stopping" /\ Running
    /\ next \in DOMAIN Drivers
    /\ Disconnect(Drivers[next])
    /\ next' = next - 1
    /\ UNCHANGED <<apiVars, exitCode, stage, request>>

Exit ==
    /\ stage = "stopping" /\ Running
    /\ next = 0
    /\ exitCode' = 0
    /\ UNCHANGED <<databaseVars, apiVars, stage, next, request>>

---------------------------------------------------------------------------------
(* Requests: the controller awaits two queries in a row, any error is answered 500 *)

\* A server that listens compares the password of a request.
Receive(c, s, route) ==
    /\ Running
    /\ request[c] = NoRequest
    /\ phase[s] = "started" /\ Handling(s)
    /\ request' = [request EXCEPT ![c] = [route |-> route, at |-> "auth"]]
    /\ UNCHANGED <<databaseVars, exitCode, apiVars, stage, next>>

\* A request goes on when its server stops: hapi waits for it, but not for ever. The
\* handler of its route sends the first query; a wrong password is answered 401.
Authenticated(c) ==
    /\ Running
    /\ request[c].at = "auth"
    /\ \/ request' = [request EXCEPT ![c].at = "data"] /\ Any(c, Routes[request[c].route], resolved)
       \/ request' = [request EXCEPT ![c] = NoRequest] /\ UNCHANGED <<databaseVars, exitCode>>
    /\ UNCHANGED <<apiVars, stage, next>>

QueryCount(c) ==
    /\ Running
    /\ request[c].at = "data" /\ query[c].at = "answered"
    /\ request' = [request EXCEPT ![c].at = "count"]
    /\ Any(c, Routes[request[c].route], resolved)
    /\ UNCHANGED <<apiVars, stage, next>>

\* The page and the count, or the error of a query; then the client may come again.
Answer(c) ==
    /\ Running
    /\ \/ request[c].at = "count" /\ query[c].at = "answered"
       \/ query[c].at \in {"failed", "unregistered"}
    /\ request' = [request EXCEPT ![c] = NoRequest]
    /\ query' = [query EXCEPT ![c] = Idle]
    /\ UNCHANGED <<db, connections, executors, ended, exitCode, apiVars, stage, next>>

---------------------------------------------------------------------------------

ServicesInit == DatabasesInit /\ ApiInit /\ stage = "setup" /\ next = 1
                /\ request = [c \in Clients |-> NoRequest]

Progress ==
    \/ RegisterDriver \/ RegisterApi \/ DeregisterApi \/ DeregisterDriver \/ Exit
    \/ ApiNext /\ UNCHANGED <<stage, next, request>>

ServicesNext ==
    \/ Progress
    \/ DatabasesNext /\ UNCHANGED <<apiVars, stage, next, request>>
    \/ AppRestarts \/ Interrupt
    \/ \E c \in Clients :
          \/ Authenticated(c) \/ QueryCount(c) \/ Answer(c)
          \/ \E s \in ServerSet, route \in DOMAIN Routes : Receive(c, s, route)

\* What the process waits for comes, well or badly: registrations and the calls of hapi.
\* Nobody has to interrupt it or to send requests.
ServicesSpec == ServicesInit /\ [][ServicesNext]_vars /\ WF_vars(Progress)

---------------------------------------------------------------------------------
(* Properties *)

\* When restart() has resolved, all servers listen until stop() is called, although they
\* are mounted behind its back and hapi refuses its calls in the wrong phase or while
\* plugins register: a restart that could not start a server is rejected.
RestartedListen ==
    Over("restart") /\ at["stop"] = 0 => \A s \in ServerSet : phase[s] = "started"

\* No request meets a connection that was never made or has no executor, whichever
\* server comes up first and whatever restarts it.
QueriesFindConnection == \A c \in Clients : query[c].at # "unregistered"

\* The databases are disconnected behind the api: when the first connection ends, no
\* server listens any more, but one that was mounted, or restarted, after stop() had
\* passed it, or that start() left behind when it was rejected.
EndedBehindServers == \A s \in ServerSet :
    ended # {} /\ phase[s] = "started" => s \in late \/ starting = None

\* A tear down ends the process, or is rejected by a server that cannot be stopped;
\* it never waits for ever, also while restart() stops and starts the same servers.
TearDownEnds == stage = "stopping" ~> ~Running \/ stage = "stuck"
==================================================================================
