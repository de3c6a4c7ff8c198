-------------------------------- MODULE ApiServer --------------------------------
(***********************************************************************************)
(* server.ts of wallet-api: the HTTP and the HTTPS server of hapi, created by      *)
(* start(), which does not await the registration of their plugins, and mounted at *)
(* the end of it. stop() and restart() are sequences of calls of hapi, which       *)
(* refuses to start or stop a server that is between two phases.                   *)
(***********************************************************************************)
EXTENDS Databases

CONSTANTS
    Servers,         \* the enabled ones of "http" and "https", in this order
    Registrations,   \* the awaits of registerPlugins, in order
    MayFail          \* what may go wrong: a subset of ApiFaults

ServerSet == {Servers[i] : i \in DOMAIN Servers}
ApiFaults == {"create", "register", "listen"}

ASSUME ApiServerAssumption ==
    /\ Servers \in Seq({"http", "https"})
    /\ \A i, j \in DOMAIN Servers : Servers[i] = Servers[j] => i = j
    /\ Registrations \in Seq({"extensions", "basic", "handlers", "session", "plugins"})
    /\ MayFail \subseteq ApiFaults
    /\ None \notin {"mount", "stop", "restart"}
    /\ \A found \in SUBSET DriverSet : found # None

VARIABLES
    phase,        \* phase[s]: the phase of hapi's server s
    registered,   \* registered[s]: how many registrations of s are over
    failed,       \* the servers with a registration that failed, the last they make
    resolved,     \* the drivers the module of the handlers has found, None before it is loaded
    mounted,      \* the servers mountServer was called for
    awaits,       \* awaits[s]: the call that waits for the phase of s to change
    starting,     \* the server start() creates next, 0 before it, None when rejected
    at,           \* at[w]: the step stop() or restart() is at, likewise
    late          \* history: the servers that were started after stop() was called

apiVars == <<phase, registered, failed, resolved, mounted, awaits, starting, at, late>>

\* The calls of hapi that stop() and restart() make one after the other
Walks == [w \in {"stop", "restart"} |->
    IF w = "stop"
    THEN [i \in DOMAIN Servers |-> [server |-> Servers[i], to |-> "stopping"]]
    ELSE [i \in 1..2 * Len(Servers) |->
             [server |-> Servers[(i + 1) \div 2], to |-> IF i % 2 = 1 THEN "stopping" ELSE "starting"]]]

ApiTypeOK ==
    /\ phase \in [ServerSet -> {"none", "stopped", "starting", "started", "stopping", "invalid"}]
    /\ registered \in [ServerSet -> 0..Len(Registrations)]
    /\ {failed, mounted, late} \subseteq SUBSET ServerSet
    /\ resolved = None \/ resolved \subseteq DriverSet
    /\ awaits \in [ServerSet -> {None, "mount", "stop", "restart"}]
    /\ starting \in 0..Len(Servers) + 1 \cup {None}
    /\ at \in [DOMAIN Walks -> Nat \cup {None}]

---------------------------------------------------------------------------------
(* start(), createServer() and registerPlugins() *)

\* The module of the handlers is loaded when the registration that names it comes next,
\* after n are over. It resolves its connections once, for both servers.
Requires(n) ==
    resolved' = IF /\ resolved = None
                   /\ n < Len(Registrations) /\ Registrations[n + 1] = "handlers"
                THEN connections ELSE resolved

\* The server is created and its plugins are left to register. A certificate that
\* cannot be read rejects start(), with the servers before it under way.
CreateServer ==
    /\ Running
    /\ starting \in DOMAIN Servers
    /\ \/ /\ starting' = starting + 1
          /\ phase' = [phase EXCEPT ![Servers[starting]] = "stopped"]
          /\ Requires(0)
       \/ "create" \in MayFail /\ starting' = None /\ UNCHANGED <<phase, resolved>>
    /\ UNCHANGED <<databaseVars, exitCode, registered, failed, mounted, awaits, at, late>>

\* A registration that fails rejects a promise nobody looks at.
Register(s) ==
    /\ Running
    /\ phase[s] # "none" /\ s \notin failed
    /\ registered[s] < Len(Registrations)
    /\ \/ /\ registered' = [registered EXCEPT ![s] = @ + 1]
          /\ Requires(registered[s] + 1)
          /\ UNCHANGED failed
       \/ "register" \in MayFail /\ failed' = failed \cup {s} /\ UNCHANGED <<registered, resolved>>
    /\ UNCHANGED <<databaseVars, exitCode, phase, mounted, awaits, starting, at, late>>

\* A controller needs the language and the session of the request as well as its route:
\* without them it is answered 500 before any query.
Handling(s) == {"handlers", "session"} \subseteq {Registrations[i] : i \in 1..registered[s]}

---------------------------------------------------------------------------------
(* server.start() and server.stop() of hapi *)

\* hapi refuses to start a server that has a registration under way. The next one
\* follows at once, so that they are all over, or one has failed.
Registered(s) == registered[s] = Len(Registrations) \/ s \in failed

May(s, to) ==
    \/ to = "starting" /\ phase[s] = "stopped" /\ Registered(s)
    \/ to = "stopping" /\ phase[s] \in {"stopped", "started", "invalid"}

Change(s, to, caller) ==
    /\ phase' = [phase EXCEPT ![s] = to]
    /\ awaits' = [awaits EXCEPT ![s] = caller]
    /\ late' = IF to = "starting" /\ at["stop"] # 0 THEN late \cup {s} ELSE late

\* mountServer(): hapi takes a started server for started, a refusal ends the process.
Mount(s) ==
    /\ Running
    /\ phase[s] # "none" /\ registered[s] = Len(Registrations) /\ s \notin mounted
    /\ mounted' = mounted \cup {s}
    /\ \/ May(s, "starting") /\ Change(s, "starting", "mount") /\ UNCHANGED <<databaseVars, exitCode>>
       \/ phase[s] = "started" /\ UNCHANGED <<phase, awaits, late, databaseVars, exitCode>>
       \/ ~May(s, "starting") /\ phase[s] # "started" /\ ForceExit /\ UNCHANGED <<phase, awaits, late>>
    /\ UNCHANGED <<registered, failed, resolved, starting, at>>

\* The call of stop() or restart() by somebody else
Calls(w) == at[w] = 0 /\ at' = [at EXCEPT ![w] = 1]

Over(w) == at[w] # None /\ at[w] > Len(Walks[w])

\* Fault: a server that is stopping already is stopped again.
WalkUnchecked(w) ==
    /\ Running
    /\ at[w] \in DOMAIN Walks[w]
    /\ \A s \in ServerSet : awaits[s] # w
    /\ Change(Walks[w][at[w]].server, Walks[w][at[w]].to, w)
    /\ UNCHANGED <<databaseVars, exitCode, registered, failed, resolved, mounted, starting, at>>

\* Fault: server.stop() is not awaited.
WalkUnawaited(w) ==
    /\ Running
    /\ at[w] \in DOMAIN Walks[w]
    /\ at' = [at EXCEPT ![w] = @ + 1]
    /\ UNCHANGED <<databaseVars, exitCode, registered, failed, resolved, mounted, starting, phase,
                   awaits, late>>

\* Fault: server.stop() is called and the walk goes on.
WalkOn(w) ==
    /\ Running
    /\ at[w] \in DOMAIN Walks[w]
    /\ May(Walks[w][at[w]].server, Walks[w][at[w]].to)
    /\ Change(Walks[w][at[w]].server, Walks[w][at[w]].to, w)
    /\ at' = [at EXCEPT ![w] = @ + 1]
    /\ UNCHANGED <<databaseVars, exitCode, registered, failed, resolved, mounted, starting>>

\* stop() or restart() makes its next call; one that is refused rejects it.
Walk(w) ==
    /\ Running
    /\ at[w] \in DOMAIN Walks[w]
    /\ \A s \in ServerSet : awaits[s] # w
    /\ LET s == Walks[w][at[w]].server
           to == Walks[w][at[w]].to
       IN  IF May(s, to) THEN Change(s, to, w) /\ UNCHANGED at
           ELSE /\ at' = [at EXCEPT ![w] = IF phase[s] = "none" \/ (phase[s] = "started" /\ to = "starting")
                                           THEN @ + 1 ELSE None]
                /\ UNCHANGED <<phase, awaits, late>>
    /\ UNCHANGED <<databaseVars, exitCode, registered, failed, resolved, mounted, starting>>

\* The phase of s changes, and the call that awaited it goes on. A server that cannot
\* listen ends the process when it is mounted, and rejects restart().
Settled(s) ==
    LET caller == awaits[s]
        ToPhase(p) == phase' = [phase EXCEPT ![s] = p] /\ awaits' = [awaits EXCEPT ![s] = None]
    IN  /\ Running
        /\ caller # None
        /\ \/ /\ ToPhase(IF phase[s] = "starting" THEN "started" ELSE "stopped")
              /\ at' = IF caller = "mount" THEN at ELSE [at EXCEPT ![caller] = @ + 1]
              /\ UNCHANGED <<databaseVars, exitCode>>
           \/ /\ phase[s] = "starting" /\ "listen" \in MayFail
              /\ ToPhase("invalid")
              /\ \/ caller = "mount" /\ ForceExit /\ UNCHANGED at
                 \/ caller # "mount" /\ at' = [at EXCEPT ![caller] = None] /\ UNCHANGED <<databaseVars, exitCode>>
        /\ UNCHANGED <<registered, failed, resolved, mounted, starting, late>>

---------------------------------------------------------------------------------

ApiInit ==
    /\ phase = [s \in ServerSet |-> "none"]
    /\ registered = [s \in ServerSet |-> 0]
    /\ awaits = [s \in ServerSet |-> None]
    /\ starting = 0
    /\ at = [w \in DOMAIN Walks |-> 0]
    /\ mounted = {} /\ failed = {} /\ late = {}
    /\ resolved = None

ApiNext ==
    \/ CreateServer
    \/ \E s \in ServerSet : Register(s) \/ Mount(s) \/ Settled(s)
    \/ \E w \in DOMAIN Walks : Walk(w)
==================================================================================
