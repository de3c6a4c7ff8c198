----------------------------- MODULE ServicesProofs ------------------------------
(***********************************************************************************)
(* Proofs about Services: any drivers, servers, registrations and clients, and     *)
(* whatever may go wrong.                                                          *)
(***********************************************************************************)
EXTENDS Services, SequenceTheorems, TLAPS

\* The type of what the servers do, but for what their handlers have found
ServersTyped ==
    /\ phase \in [ServerSet -> {"none", "stopped", "starting", "started", "stopping", "invalid"}]
    /\ registered \in [ServerSet -> 0..Len(Registrations)]
    /\ {failed, mounted, late} \subseteq SUBSET ServerSet
    /\ awaits \in [ServerSet -> {None, "mount", "stop", "restart"}]
    /\ starting \in 0..Len(Servers) + 1 \cup {None}
    /\ at \in [DOMAIN Walks -> Nat \cup {None}]

\* The stages of the process. The databases are told to end when the api has been
\* deregistered, that is when stop() is over, or when it was never registered.
Stages ==
    /\ stage \in {"setup", "ready", "stopping", "stuck"}
    /\ next \in 0..Api + 1
    /\ stage = "setup" => next >= 1
    /\ stage # "setup" => next <= Api
    /\ starting = 0 => \A s \in ServerSet : phase[s] = "none"
    /\ starting # 0 => next = Api \/ stage # "setup"
    /\ stage # "setup" => starting = None \/ starting > Len(Servers)
    /\ at["stop"] # 0 => stage \in {"stopping", "stuck"}
    /\ stage = "ready" => next = Api \/ starting = None
    /\ stage = "stopping" /\ next < Api => starting = None \/ Over("stop")
    /\ ended # {} => stage = "stopping" /\ next < Api
    /\ at["restart"] # 0 => stage # "setup" /\ starting # None
    /\ \A i \in DOMAIN Servers :
          starting # None => (phase[Servers[i]] # "none" <=> i < starting)

\* A call of hapi that waits has begun, for the server its walk is at, and waits for
\* the phase the walk asked for.
Awaited == \A s \in ServerSet :
    /\ awaits[s] # None => phase[s] \in {"starting", "stopping"}
    /\ awaits[s] \in DOMAIN Walks =>
          /\ at[awaits[s]] \in DOMAIN Walks[awaits[s]]
          /\ Walks[awaits[s]][at[awaits[s]]] = [server |-> s, to |-> phase[s]]

\* A server that restart() has passed listens, unless stop() was called.
Restarted == \A i \in DOMAIN Servers :
    at["stop"] = 0 /\ at["restart"] # None /\ 2 * i < at["restart"] => phase[Servers[i]] = "started"

\* A server that stop() has passed is down, or was started after the call.
Passed == \A i \in DOMAIN Servers :
    at["stop"] # None /\ i < at["stop"] /\ phase[Servers[i]] \in {"starting", "started"}
        => Servers[i] \in late

ServersInv == ServersTyped /\ Stages /\ Awaited /\ Restarted /\ Passed

\* The connections that are made when the api starts, and the requests that use them
Connects ==
    /\ Running => /\ stage = "setup" => \A i \in DOMAIN Drivers :
                                          i < next => Drivers[i] \in connections \cap executors
                  /\ starting # 0 => DriverSet \subseteq connections \cap executors
    /\ starting = 0 => \A c \in Clients : request[c] = NoRequest

RequestsTyped == request \in [Clients -> {NoRequest} \cup
                                [route : DOMAIN Routes, at : {"auth", "data", "count"}]]

\* The module of the handlers is loaded before the registration that follows on it, and
\* has then found every connection.
Resolves ==
    /\ resolved \in {None, DriverSet}
    /\ \A s \in ServerSet : phase[s] = "none" => registered[s] = 0
    /\ \A s \in ServerSet, i \in DOMAIN Registrations :
          phase[s] # "none" /\ i <= registered[s] + 1 /\ Registrations[i] = "handlers"
              => resolved # None
    /\ \A c \in Clients : request[c] # NoRequest => resolved # None

QueriesInv ==
    ServersInv /\ DatabasesTypeOK /\ RequestsTyped /\ Connects /\ Resolves /\ QueriesFindConnection

\* The databases that the routes of the api query are in the configuration.
RoutesConfigured == \A route \in DOMAIN Routes : Routes[route] \in DriverSet

---------------------------------------------------------------------------------

LEMMA WalksAre ==
    /\ DOMAIN Walks = {"stop", "restart"}
    /\ \A w \in DOMAIN Walks :
          /\ Len(Walks[w]) \in Nat /\ DOMAIN Walks[w] = 1..Len(Walks[w])
          /\ \A i \in DOMAIN Walks[w] :
                /\ Walks[w][i].server \in ServerSet /\ Walks[w][i].to \in {"stopping", "starting"}
                /\ Walks[w][i] = [server |-> Walks[w][i].server, to |-> Walks[w][i].to]
    /\ Len(Walks["stop"]) = Len(Servers)
    /\ \A i \in 1..Len(Servers) : Walks["stop"][i] = [server |-> Servers[i], to |-> "stopping"]
    /\ Len(Walks["restart"]) = 2 * Len(Servers)
    /\ \A i \in 1..Len(Servers) :
          /\ Walks["restart"][2 * i - 1] = [server |-> Servers[i], to |-> "stopping"]
          /\ Walks["restart"][2 * i] = [server |-> Servers[i], to |-> "starting"]
<1>1. /\ DOMAIN Servers = 1..Len(Servers) /\ Len(Servers) \in Nat
      /\ \A i \in 1..Len(Servers) : Servers[i] \in ServerSet
  BY ApiServerAssumption, LenProperties DEF ServerSet
<1> DEFINE Steps == [server : ServerSet, to : {"stopping", "starting"}]
<1>2. /\ Walks["stop"] \in [1..Len(Servers) -> Steps]
      /\ \A i \in 1..Len(Servers) : Walks["stop"][i] = [server |-> Servers[i], to |-> "stopping"]
  BY <1>1 DEF Walks
<1>3. Walks["restart"] \in [1..2 * Len(Servers) -> Steps]
  <2>1. Walks["restart"] = [i \in 1..2 * Len(Servers) |->
             [server |-> Servers[(i + 1) \div 2],
              to |-> IF i % 2 = 1 THEN "stopping" ELSE "starting"]]
    BY DEF Walks
  <2>2. ASSUME NEW i \in 1..2 * Len(Servers)
        PROVE  (i + 1) \div 2 \in 1..Len(Servers)
    BY <1>1
  <2>3. QED
    BY <1>1, <2>1, <2>2
<1> HIDE DEF Steps
<1>4. Walks["stop"] \in Seq(Steps) /\ Walks["restart"] \in Seq(Steps)
  <2>1. \A n \in Nat : [1..n -> Steps] \subseteq Seq(Steps)
    BY SeqDef
  <2>2. 2 * Len(Servers) \in Nat
    BY <1>1
  <2>3. QED
    BY <1>1, <1>2, <1>3, <2>1, <2>2
<1>5. DOMAIN Walks = {"stop", "restart"}
  BY DEF Walks
<1>6. ASSUME NEW w \in DOMAIN Walks
      PROVE  /\ Len(Walks[w]) \in Nat /\ DOMAIN Walks[w] = 1..Len(Walks[w])
             /\ \A i \in DOMAIN Walks[w] : Walks[w][i] \in Steps
  BY <1>4, <1>5, LenProperties, ElementOfSeq
<1>7. Len(Walks["stop"]) = Len(Servers) /\ Len(Walks["restart"]) = 2 * Len(Servers)
  <2>1. 2 * Len(Servers) \in Nat
    BY <1>1
  <2>2. DOMAIN Walks["stop"] = 1..Len(Servers) /\ DOMAIN Walks["restart"] = 1..2 * Len(Servers)
    BY <1>2, <1>3
  <2>3. Len(Walks["stop"]) = Len(Servers)
    BY <1>1, <1>4, <2>2, LenProperties
  <2>4. Len(Walks["restart"]) = 2 * Len(Servers)
    BY <1>4, <2>1, <2>2, LenProperties
  <2>5. QED
    BY <2>3, <2>4
<1>8. ASSUME NEW i \in 1..Len(Servers)
      PROVE  /\ Walks["restart"][2 * i - 1] = [server |-> Servers[i], to |-> "stopping"]
             /\ Walks["restart"][2 * i] = [server |-> Servers[i], to |-> "starting"]
  <2>1. Walks["restart"] = [j \in 1..2 * Len(Servers) |->
             [server |-> Servers[(j + 1) \div 2],
              to |-> IF j % 2 = 1 THEN "stopping" ELSE "starting"]]
    BY DEF Walks
  <2>2. /\ 2 * i - 1 \in 1..2 * Len(Servers) /\ 2 * i \in 1..2 * Len(Servers)
        /\ (2 * i - 1 + 1) \div 2 = i /\ (2 * i + 1) \div 2 = i
        /\ (2 * i - 1) % 2 = 1 /\ (2 * i) % 2 = 0
    BY <1>1
  <2>3. QED
    BY <2>1, <2>2
<1>9. QED
  BY <1>2, <1>5, <1>6, <1>7, <1>8 DEF Steps

\* What the invariant says of the walks of stop() and restart()
LEMMA Walking ==
    ASSUME ServersInv, NEW w \in DOMAIN Walks
    PROVE  /\ at[w] \in Nat \/ at[w] = None
           /\ Len(Walks[w]) \in Nat
           /\ at[w] \in DOMAIN Walks[w] => at[w] \in Nat /\ at[w] >= 1 /\ at[w] <= Len(Walks[w])
BY WalksAre DEF ServersInv, ServersTyped

\* restart() finds all servers created.
LEMMA RestartFinds ==
    ASSUME ServersInv, at["restart"] # 0, NEW s \in ServerSet
    PROVE  phase[s] # "none"
<1>1. starting # None /\ starting > Len(Servers)
  BY DEF ServersInv, Stages
<1>2. PICK i \in DOMAIN Servers : Servers[i] = s
  BY DEF ServerSet
<1>3. i < starting
  BY <1>1, ApiServerAssumption, LenProperties DEF ServersInv, ServersTyped
<1>4. QED
  BY <1>1, <1>2, <1>3 DEF ServersInv, Stages

LEMMA ServersBegin == ServicesInit => ServersInv
<1> SUFFICES ASSUME ServicesInit PROVE ServersInv
  OBVIOUS
<1>1. Len(Drivers) \in Nat /\ Len(Servers) \in Nat /\ Len(Registrations) \in Nat
      /\ DOMAIN Servers = 1..Len(Servers)
  BY DatabasesAssumption, ApiServerAssumption, LenProperties
<1> USE DEF ServicesInit, DatabasesInit, ApiInit
<1>2. ServersTyped
  BY <1>1, ApiServerAssumption, WalksAre DEF ServersTyped
<1>3. Stages
  <2>1. \A i \in DOMAIN Servers : phase[Servers[i]] = "none" /\ ~(i < 0)
    BY <1>1 DEF ServerSet
  <2>2. at["stop"] = 0 /\ at["restart"] = 0
    BY WalksAre
  <2>3. QED
    BY <1>1, <2>1, <2>2 DEF Stages, Api
<1>4. Awaited
  BY WalksAre, ApiServerAssumption DEF Awaited
<1>5. Passed /\ Restarted
  BY <1>1, WalksAre DEF Passed, Restarted
<1>6. QED
  BY <1>2, <1>3, <1>4, <1>5 DEF ServersInv

\* Steps of the databases and of requests
LEMMA ServersStay ==
    ASSUME ServersInv, UNCHANGED <<apiVars, stage, next, ended>>
    PROVE  ServersInv'
<1>1. UNCHANGED <<phase, registered, failed, resolved, mounted, awaits, starting, at, late,
                stage, next, ended>>
  BY DEF apiVars
<1>2. ServersTyped' /\ Awaited' /\ Restarted' /\ Passed'
  BY <1>1 DEF ServersInv, ServersTyped, Awaited, Restarted, Passed
<1>3. Stages'
  BY <1>1 DEF ServersInv, Stages, Over
<1>4. QED
  BY <1>2, <1>3 DEF ServersInv

\* Steps of the container that leave the servers alone
LEMMA StagesChange ==
    ASSUME ServersInv, UNCHANGED apiVars, Stages'
    PROVE  ServersInv'
<1>1. UNCHANGED <<phase, registered, failed, resolved, mounted, awaits, starting, at, late>>
  BY DEF apiVars
<1>2. ServersTyped' /\ Awaited' /\ Restarted' /\ Passed'
  BY <1>1 DEF ServersInv, ServersTyped, Awaited, Restarted, Passed
<1>3. QED
  BY <1>2 DEF ServersInv

LEMMA RegisterDriverKeeps ==
    ASSUME ServersInv, RegisterDriver
    PROVE  ServersInv'
<1>1. /\ stage = "setup" /\ next \in DOMAIN Drivers /\ next' = next + 1
      /\ UNCHANGED <<apiVars, stage>> /\ CreateConnection(Drivers[next])
  BY DEF RegisterDriver
<1>2. ended' = ended
  BY <1>1 DEF CreateConnection, MysqlMake, MssqlMake, PostgresMake, Opens, ForceExit, databaseVars
<1>3. next \in Nat /\ next < Api /\ Len(Drivers) \in Nat /\ Api \in Nat
  BY <1>1, DatabasesAssumption, LenProperties DEF Api
<1>4. UNCHANGED <<phase, starting, at>>
  BY <1>1 DEF apiVars
<1>5. Stages'
  BY <1>1, <1>2, <1>3, <1>4 DEF ServersInv, Stages, Over
<1>6. QED
  BY <1>1, <1>5, StagesChange

LEMMA DeregisterDriverKeeps ==
    ASSUME ServersInv, DeregisterDriver
    PROVE  ServersInv'
<1>1. /\ stage = "stopping" /\ next \in DOMAIN Drivers /\ next' = next - 1
      /\ UNCHANGED <<apiVars, stage>>
  BY DEF DeregisterDriver
<1>2. next \in Nat /\ next < Api /\ next >= 1 /\ Api \in Nat
  BY <1>1, DatabasesAssumption, LenProperties DEF Api
<1>3. UNCHANGED <<phase, starting, at>>
  BY <1>1 DEF apiVars
<1>4. Stages'
  BY <1>1, <1>2, <1>3 DEF ServersInv, Stages, Over
<1>5. QED
  BY <1>1, <1>4, StagesChange

LEMMA InterruptKeeps ==
    ASSUME ServersInv, Interrupt
    PROVE  ServersInv'
<1>1. /\ (stage = "ready" /\ stage' = "stopping") \/ stage' = stage
      /\ UNCHANGED <<databaseVars, apiVars, next>>
  BY DEF Interrupt
<1>2. UNCHANGED <<phase, starting, at, ended>>
  BY <1>1 DEF apiVars, databaseVars
<1>3. Api \in Nat
  BY DatabasesAssumption, LenProperties DEF Api
<1>4. Stages'
  BY <1>1, <1>2, <1>3 DEF ServersInv, Stages, Over
<1>5. QED
  BY <1>1, <1>4, StagesChange

LEMMA RegisterApiKeeps ==
    ASSUME ServersInv, RegisterApi
    PROVE  ServersInv'
<1>1. /\ stage = "setup" /\ next = Api
      /\ UNCHANGED <<ended, phase, registered, failed, resolved, mounted, awaits, at, late>>
      /\ \/ starting = 0 /\ starting' = 1 /\ UNCHANGED <<stage, next>>
         \/ starting = None /\ stage' = "ready" /\ next' = Api - 1 /\ UNCHANGED starting
         \/ /\ starting # None /\ starting > Len(Servers)
            /\ stage' = "ready"
            /\ UNCHANGED <<next, starting>>
  BY DEF RegisterApi, databaseVars
<1>2. Api \in Nat \ {0} /\ Len(Servers) \in Nat
  BY DatabasesAssumption, ApiServerAssumption, LenProperties DEF Api
<1>3. at["stop"] = 0 /\ None # 0
  BY <1>1, DatabasesAssumption DEF ServersInv, Stages
<1>4. Stages'
  BY <1>1, <1>2, <1>3 DEF ServersInv, Stages, Over, ServersTyped
<1>5. ServersTyped' /\ Awaited' /\ Restarted' /\ Passed'
  BY <1>1, <1>2 DEF ServersInv, ServersTyped, Awaited, Restarted, Passed
<1>6. QED
  BY <1>4, <1>5 DEF ServersInv

\* The call of stop() or of restart()
LEMMA CallsKeeps ==
    ASSUME ServersInv, NEW w \in DOMAIN Walks, Calls(w), stage # "setup",
           w = "stop" => stage = "stopping" /\ next = Api, w = "restart" => starting # None,
           UNCHANGED <<phase, registered, failed, resolved, mounted, awaits, starting, late,
                       stage, next, ended>>
    PROVE  ServersInv'
<1>1. at[w] = 0 /\ at' = [at EXCEPT ![w] = 1] /\ at' \in [DOMAIN Walks -> Nat \cup {None}]
  BY DEF Calls, ServersInv, ServersTyped
<1>2. at'[w] = 1 /\ \A v \in DOMAIN Walks \ {w} : at'[v] = at[v]
  BY <1>1 DEF ServersInv, ServersTyped
<1>3. ServersTyped'
  BY <1>1 DEF ServersInv, ServersTyped
<1>4. Stages'
  <2>1. stage = "stopping" /\ next < Api => UNCHANGED at["stop"]
    <3>1. Api \in Nat /\ next \in Nat
      BY DatabasesAssumption, LenProperties DEF Api, ServersInv, Stages
    <3>2. CASE w = "stop"
      BY <3>1, <3>2
    <3>3. CASE w # "stop"
      BY <1>2, <3>3, WalksAre
    <3>4. QED
      BY <3>2, <3>3
  <2>2. at'["stop"] # 0 => stage \in {"stopping", "stuck"}
    BY <1>2, WalksAre DEF ServersInv, Stages
  <2>3. at'["restart"] # 0 => starting # None
    BY <1>2, WalksAre DEF ServersInv, Stages
  <2>4. QED
    BY <2>1, <2>2, <2>3 DEF ServersInv, Stages, Over
<1>5. Awaited'
  <2> SUFFICES ASSUME NEW s \in ServerSet, awaits[s] \in DOMAIN Walks
               PROVE  /\ at'[awaits[s]] = at[awaits[s]]
    BY WalksAre DEF ServersInv, Awaited
  <2>1. at[awaits[s]] # 0
    <3>1. at[awaits[s]] \in DOMAIN Walks[awaits[s]]
      BY DEF ServersInv, Awaited
    <3>2. QED
      BY <3>1, WalksAre
  <2>2. QED
    BY <1>1, <1>2, <2>1
<1>6. Restarted'
  <2>1. \A i \in DOMAIN Servers : ~(2 * i < 1)
    BY ApiServerAssumption, LenProperties
  <2>2. QED
    BY <1>2, <2>1, WalksAre DEF ServersInv, Restarted
<1>7. Passed'
  <2>1. at'["stop"] = at["stop"] \/ at'["stop"] = 1
    BY <1>2, WalksAre
  <2>2. \A i \in DOMAIN Servers : ~(i < 1)
    BY ApiServerAssumption, LenProperties
  <2>3. QED
    BY <2>1, <2>2 DEF ServersInv, Passed
<1>8. QED
  BY <1>3, <1>4, <1>5, <1>6, <1>7 DEF ServersInv

LEMMA DeregisterApiKeeps ==
    ASSUME ServersInv, DeregisterApi
    PROVE  ServersInv'
<1>1. /\ stage = "stopping" /\ next = Api
      /\ UNCHANGED <<ended, phase, registered, failed, resolved, mounted, awaits, starting, late>>
      /\ \/ Calls("stop") /\ UNCHANGED <<stage, next>>
         \/ stage' = "stuck" /\ UNCHANGED <<at, next>>
         \/ Over("stop") /\ next' = Api - 1 /\ UNCHANGED <<at, stage>>
  BY DEF DeregisterApi, databaseVars
<1>2. Api \in Nat \ {0}
  BY DatabasesAssumption, LenProperties DEF Api
<1>3. CASE Calls("stop") /\ UNCHANGED <<stage, next>>
  BY <1>1, <1>3, WalksAre, CallsKeeps
<1>4. CASE stage' = "stuck" /\ UNCHANGED <<at, next>>
  <2>1. Stages'
    BY <1>1, <1>2, <1>4 DEF ServersInv, Stages, Over
  <2>2. QED
    BY <1>1, <1>4, <2>1, StagesChange DEF apiVars
<1>5. CASE Over("stop") /\ next' = Api - 1 /\ UNCHANGED <<at, stage>>
  <2>1. Stages'
    BY <1>1, <1>2, <1>5 DEF ServersInv, Stages, Over
  <2>2. QED
    BY <1>1, <1>5, <2>1, StagesChange DEF apiVars
<1>6. QED
  BY <1>1, <1>3, <1>4, <1>5

LEMMA CreateServerKeeps ==
    ASSUME ServersInv, CreateServer, UNCHANGED <<stage, next>>
    PROVE  ServersInv'
<1>1. /\ starting \in DOMAIN Servers
      /\ \/ /\ starting' = starting + 1
            /\ phase' = [phase EXCEPT ![Servers[starting]] = "stopped"]
         \/ starting' = None /\ UNCHANGED phase
      /\ Servers[starting] \in ServerSet
      /\ UNCHANGED <<ended, registered, failed, mounted, awaits, at, late>>
  BY DEF CreateServer, databaseVars, ServerSet
<1>2. starting \in Nat /\ starting >= 1 /\ starting <= Len(Servers) /\ Len(Servers) \in Nat
  BY <1>1, ApiServerAssumption, LenProperties
<1>3. None \notin Nat
  BY DatabasesAssumption
<1>4. stage = "setup" /\ at["stop"] = 0 /\ at["restart"] = 0 /\ ended = {}
  BY <1>2, <1>3 DEF ServersInv, Stages
<1>5. ServersTyped'
  BY <1>1, <1>2 DEF ServersInv, ServersTyped
<1>6. \A s \in ServerSet : phase'[s] = phase[s] \/ phase'[s] = "stopped"
  BY <1>1 DEF ServersInv, ServersTyped
<1>7. Stages'
  <2>1. ASSUME NEW i \in DOMAIN Servers, starting' # None
        PROVE  phase'[Servers[i]] # "none" <=> i < starting'
    <3>1. /\ Servers[i] \in ServerSet /\ i \in Nat
          /\ starting' = starting + 1 /\ phase' = [phase EXCEPT ![Servers[starting]] = "stopped"]
      BY <1>1, <2>1, ApiServerAssumption, LenProperties DEF ServerSet
    <3>2. CASE i = starting
      BY <1>1, <1>2, <3>1, <3>2 DEF ServersInv, ServersTyped
    <3>3. CASE i # starting
      <4>1. Servers[i] # Servers[starting]
        BY <1>1, <3>3, ApiServerAssumption
      <4>2. phase'[Servers[i]] = phase[Servers[i]]
        BY <3>1, <4>1 DEF ServersInv, ServersTyped
      <4>3. phase[Servers[i]] # "none" <=> i < starting
        BY <1>2, <1>3 DEF ServersInv, Stages
      <4>4. QED
        BY <1>2, <3>1, <3>3, <4>2, <4>3
    <3>4. QED
      BY <3>2, <3>3
  <2>2. QED
    BY <1>1, <1>2, <1>3, <1>4, <2>1 DEF ServersInv, Stages, Over
<1>8. Awaited'
  <2>1. phase[Servers[starting]] = "none"
    BY <1>1, <1>2, <1>3 DEF ServersInv, Stages
  <2>2. ASSUME NEW s \in ServerSet, awaits[s] # None
        PROVE  phase'[s] = phase[s]
    BY <1>1, <2>1, <2>2 DEF ServersInv, ServersTyped, Awaited
  <2>3. ASSUME NEW s \in ServerSet, awaits[s] \in DOMAIN Walks
        PROVE  awaits[s] # None
    BY <2>3, ApiServerAssumption, WalksAre
  <2>4. QED
    BY <1>1, <2>2, <2>3 DEF ServersInv, Awaited
<1>9. Restarted'
  <2>1. \A i \in DOMAIN Servers : ~(2 * i < 0)
    BY ApiServerAssumption, LenProperties
  <2>2. QED
    BY <1>1, <1>4, <2>1 DEF Restarted
<1>10. Passed'
  <2>1. \A i \in DOMAIN Servers : ~(i < 0)
    BY ApiServerAssumption, LenProperties
  <2>2. QED
    BY <1>1, <1>4, <2>1 DEF Passed
<1>11. QED
  BY <1>5, <1>7, <1>8, <1>9, <1>10 DEF ServersInv

LEMMA RegisterKeeps ==
    ASSUME ServersInv, NEW s \in ServerSet, Register(s), UNCHANGED <<stage, next>>
    PROVE  ServersInv'
<1>1. /\ registered[s] < Len(Registrations)
      /\ \/ registered' = [registered EXCEPT ![s] = @ + 1] /\ UNCHANGED failed
         \/ failed' = failed \cup {s} /\ UNCHANGED registered
      /\ UNCHANGED <<ended, phase, mounted, awaits, starting, at, late>>
  BY DEF Register, databaseVars
<1>2. /\ registered' \in [ServerSet -> 0..Len(Registrations)] /\ failed' \subseteq ServerSet
  <2>1. registered \in [ServerSet -> 0..Len(Registrations)] /\ failed \subseteq ServerSet
    BY DEF ServersInv, ServersTyped
  <2>2. registered[s] + 1 \in 0..Len(Registrations)
    BY <1>1, <2>1, ApiServerAssumption, LenProperties
  <2>3. QED
    BY <1>1, <2>1, <2>2
<1>3. ServersTyped' /\ Awaited' /\ Restarted' /\ Passed'
  BY <1>1, <1>2 DEF ServersInv, ServersTyped, Awaited, Restarted, Passed
<1>4. Stages'
  BY <1>1 DEF ServersInv, Stages, Over
<1>5. QED
  BY <1>3, <1>4 DEF ServersInv

\* A server begins to start or to stop.
LEMMA ChangeKeeps ==
    ASSUME ServersInv, NEW s \in ServerSet, NEW to \in {"stopping", "starting"},
           NEW caller \in {"mount", "stop", "restart"},
           May(s, to), Change(s, to, caller), mounted' \subseteq ServerSet,
           UNCHANGED <<registered, failed, starting, at, stage, next, ended>>,
           caller = "mount" => to = "starting",
           caller \in DOMAIN Walks => /\ at[caller] \in DOMAIN Walks[caller]
                                      /\ Walks[caller][at[caller]] = [server |-> s, to |-> to]
    PROVE  ServersInv'
<1>1. /\ phase' = [phase EXCEPT ![s] = to] /\ awaits' = [awaits EXCEPT ![s] = caller]
      /\ late' = IF to = "starting" /\ at["stop"] # 0 THEN late \cup {s} ELSE late
      /\ phase[s] \in {"stopped", "started", "invalid"}
      /\ to = "starting" => phase[s] = "stopped"
  BY DEF Change, May
<1>2. /\ phase \in [ServerSet -> {"none", "stopped", "starting", "started", "stopping", "invalid"}]
      /\ awaits \in [ServerSet -> {None, "mount", "stop", "restart"}] /\ late \subseteq ServerSet
  BY DEF ServersInv, ServersTyped
<1>3. /\ phase'[s] = to /\ awaits'[s] = caller
      /\ \A t \in ServerSet \ {s} : phase'[t] = phase[t] /\ awaits'[t] = awaits[t]
  BY <1>1, <1>2
<1>4. ServersTyped'
  BY <1>1, <1>2 DEF ServersInv, ServersTyped
<1>5. Stages'
  <2>1. starting # 0
    BY <1>1 DEF ServersInv, Stages
  <2>2. \A i \in DOMAIN Servers : phase'[Servers[i]] # "none" <=> phase[Servers[i]] # "none"
    BY <1>1, <1>3 DEF ServerSet
  <2>3. QED
    BY <2>1, <2>2 DEF ServersInv, Stages, Over
<1>6. Awaited'
  <2> SUFFICES ASSUME NEW t \in ServerSet
               PROVE  /\ awaits'[t] # None => phase'[t] \in {"starting", "stopping"}
                      /\ awaits'[t] \in DOMAIN Walks =>
                            /\ at[awaits'[t]] \in DOMAIN Walks[awaits'[t]]
                            /\ Walks[awaits'[t]][at[awaits'[t]]] = [server |-> t, to |-> phase'[t]]
    BY DEF Awaited
  <2>1. CASE t = s
    BY <1>3, <2>1
  <2>2. CASE t # s
    BY <1>3, <2>2 DEF ServersInv, Awaited
  <2>3. QED
    BY <2>1, <2>2
<1>7. Restarted'
  <2> SUFFICES ASSUME NEW i \in DOMAIN Servers, at["stop"] = 0, at["restart"] # None,
                      2 * i < at["restart"]
               PROVE  phase'[Servers[i]] = "started"
    BY DEF Restarted
  <2>1. i \in 1..Len(Servers) /\ Servers[i] \in ServerSet /\ phase[Servers[i]] = "started"
    BY ApiServerAssumption, LenProperties DEF ServersInv, Restarted, ServerSet
  <2>2. Servers[i] # s
    <3> SUFFICES ASSUME Servers[i] = s PROVE FALSE
      OBVIOUS
    <3>1. to = "stopping" /\ caller # "stop"
      BY <1>1, <2>1, WalksAre
    <3>2. /\ at["restart"] \in 1..2 * Len(Servers)
          /\ Walks["restart"][at["restart"]] = [server |-> s, to |-> "stopping"]
      BY <3>1, WalksAre
    <3>3. PICK j \in 1..Len(Servers) : at["restart"] \in {2 * j - 1, 2 * j}
      <4>1. ASSUME NEW n \in Nat, NEW x \in 1..2 * n
            PROVE  \E j \in 1..n : x \in {2 * j - 1, 2 * j}
        <5>1. PICK q \in Int : q = (x + 1) \div 2
          OBVIOUS
        <5>2. 2 * q <= x + 1 /\ x + 1 < 2 * q + 2
          BY <5>1
        <5>3. q \in 1..n
          BY <5>2
        <5>4. x = 2 * q - 1 \/ x = 2 * q
          BY <5>2
        <5>5. QED
          BY <5>3, <5>4
      <4>2. QED
        BY <3>2, <4>1, ApiServerAssumption, LenProperties
    <3>4. at["restart"] = 2 * j - 1 /\ Servers[j] = s
      <4>1. at["restart"] # 2 * j
        <5>1. Walks["restart"][2 * j] = [server |-> Servers[j], to |-> "starting"]
          BY <3>3, WalksAre
        <5>2. QED
          BY <3>2, <5>1
      <4>2. Walks["restart"][2 * j - 1] = [server |-> Servers[j], to |-> "stopping"]
        BY <3>3, WalksAre
      <4>3. QED
        BY <3>2, <3>3, <4>1, <4>2
    <3>5. i = j
      BY <3>4, ApiServerAssumption, LenProperties
    <3>6. QED
      BY <2>1, <3>4, <3>5
  <2>3. QED
    BY <1>3, <2>1, <2>2
<1>8. Passed'
  <2> SUFFICES ASSUME NEW i \in DOMAIN Servers, at["stop"] # None, i < at["stop"],
                      phase'[Servers[i]] \in {"starting", "started"}
               PROVE  Servers[i] \in late'
    BY DEF Passed
  <2>1. Servers[i] \in ServerSet
    BY DEF ServerSet
  <2>2. CASE Servers[i] = s
    <3>1. to = "starting" /\ at["stop"] # 0
      BY <1>3, <2>2, ApiServerAssumption, LenProperties
    <3>2. QED
      BY <1>1, <2>2, <3>1
  <2>3. CASE Servers[i] # s
    <3>1. Servers[i] \in late
      BY <1>3, <2>1, <2>3 DEF ServersInv, Passed
    <3>2. QED
      BY <1>1, <3>1
  <2>4. QED
    BY <2>2, <2>3
<1>9. QED
  BY <1>4, <1>5, <1>6, <1>7, <1>8 DEF ServersInv

LEMMA MountKeeps ==
    ASSUME ServersInv, NEW s \in ServerSet, Mount(s), UNCHANGED <<stage, next>>
    PROVE  ServersInv'
<1>1. /\ mounted' = mounted \cup {s}
      /\ \/ May(s, "starting") /\ Change(s, "starting", "mount")
         \/ UNCHANGED <<phase, awaits, late>>
      /\ UNCHANGED <<registered, failed, resolved, starting, at, ended>>
  BY DEF Mount, ForceExit, databaseVars
<1>2. mounted' \subseteq ServerSet
  BY <1>1 DEF ServersInv, ServersTyped
<1>3. CASE May(s, "starting") /\ Change(s, "starting", "mount")
  BY <1>1, <1>2, <1>3, WalksAre, ChangeKeeps
<1>4. CASE UNCHANGED <<phase, awaits, late>>
  <2>1. ServersTyped' /\ Awaited' /\ Restarted' /\ Passed'
    BY <1>1, <1>2, <1>4 DEF ServersInv, ServersTyped, Awaited, Restarted, Passed
  <2>2. Stages'
    BY <1>1, <1>4 DEF ServersInv, Stages, Over
  <2>3. QED
    BY <2>1, <2>2 DEF ServersInv
<1>5. QED
  BY <1>1, <1>3, <1>4

\* A walk goes on, or is rejected: what stop() passes does not listen.
LEMMA AdvanceKeeps ==
    ASSUME ServersInv, NEW w \in DOMAIN Walks, at[w] \in DOMAIN Walks[w],
           NEW step \in {at[w] + 1, None}, at' = [at EXCEPT ![w] = step],
           \A s \in ServerSet : awaits'[s] # w,
           \A s \in ServerSet : /\ awaits'[s] \in {awaits[s], None}
                                /\ phase'[s] # phase[s] => awaits'[s] = None,
           \A s \in ServerSet : phase'[s] \in {"starting", "started"} =>
                                    phase[s] \in {"starting", "started"},
           w = "stop" /\ step # None =>
                phase'[Walks[w][at[w]].server] \notin {"starting", "started"},
           Walks[w][at[w]].to = "starting" /\ step # None =>
                phase'[Walks[w][at[w]].server] = "started",
           phase' \in [ServerSet -> {"none", "stopped", "starting", "started",
                                    "stopping", "invalid"}],
           awaits' \in [ServerSet -> {None, "mount", "stop", "restart"}],
           \A s \in ServerSet : /\ phase[s] = "none" <=> phase'[s] = "none"
                                /\ phase[s] = "started" => phase'[s] = "started",
           UNCHANGED <<registered, failed, mounted, starting, late, stage, next, ended>>
    PROVE  ServersInv'
<1>1. /\ at[w] \in Nat /\ at[w] >= 1 /\ at[w] <= Len(Walks[w]) /\ Len(Walks[w]) \in Nat
      /\ at \in [DOMAIN Walks -> Nat \cup {None}]
  BY Walking DEF ServersInv, ServersTyped
<1>2. None \notin Nat
  BY DatabasesAssumption
<1>3. /\ at' \in [DOMAIN Walks -> Nat \cup {None}]
      /\ at'[w] = step /\ step # 0 /\ \A v \in DOMAIN Walks \ {w} : at'[v] = at[v]
  BY <1>1, <1>2
<1>4. ServersTyped'
  BY <1>3 DEF ServersInv, ServersTyped
<1>5. /\ at'["restart"] # 0 => at["restart"] # 0
      /\ \A i \in DOMAIN Servers : Servers[i] \in ServerSet
  BY <1>1, <1>3, WalksAre DEF ServerSet
<1>6. Stages'
  <2>1. at'["stop"] # 0 => at["stop"] # 0
    BY <1>1, <1>3, WalksAre
  <2>2. Over("stop") => at'["stop"] = at["stop"]
    <3>1. CASE w = "stop"
      BY <1>1, <3>1 DEF Over
    <3>2. CASE w # "stop"
      BY <1>3, <3>2, WalksAre
    <3>3. QED
      BY <3>1, <3>2
  <2>3. QED
    BY <1>5, <2>1, <2>2 DEF ServersInv, Stages, Over
<1>7. Awaited'
  <2>1. ASSUME NEW s \in ServerSet, awaits'[s] # None
        PROVE  /\ awaits'[s] = awaits[s] /\ phase'[s] = phase[s]
               /\ phase[s] \in {"starting", "stopping"}
    BY <2>1 DEF ServersInv, Awaited
  <2>2. ASSUME NEW s \in ServerSet, awaits'[s] \in DOMAIN Walks
        PROVE  /\ at'[awaits'[s]] \in DOMAIN Walks[awaits'[s]]
               /\ Walks[awaits'[s]][at'[awaits'[s]]] = [server |-> s, to |-> phase'[s]]
    <3>1. awaits'[s] = awaits[s] /\ phase'[s] = phase[s] /\ awaits'[s] # w
      BY <2>1, <2>2, ApiServerAssumption, WalksAre
    <3>2. at'[awaits'[s]] = at[awaits[s]]
      BY <1>3, <2>2, <3>1
    <3>3. QED
      BY <2>2, <3>1, <3>2 DEF ServersInv, Awaited
  <2>3. QED
    BY <2>1, <2>2 DEF Awaited
<1>8. Restarted'
  <2> SUFFICES ASSUME NEW i \in DOMAIN Servers, at'["stop"] = 0, at'["restart"] # None,
                      2 * i < at'["restart"]
               PROVE  phase'[Servers[i]] = "started"
    BY DEF Restarted
  <2>1. i \in 1..Len(Servers) /\ at["stop"] = 0
    BY <1>3, ApiServerAssumption, LenProperties, WalksAre
  <2>2. CASE w = "restart"
    <3>1. step = at["restart"] + 1 /\ step # None
      BY <1>1, <1>2, <1>3, <2>2
    <3>2. CASE 2 * i = at["restart"]
      <4>1. Walks["restart"][2 * i] = [server |-> Servers[i], to |-> "starting"]
        BY <2>1, WalksAre
      <4>2. QED
        BY <2>2, <3>1, <3>2, <4>1
    <3>3. CASE 2 * i < at["restart"]
      BY <1>1, <1>2, <1>5, <2>1, <2>2, <3>3 DEF ServersInv, Restarted
    <3>4. 2 * i < at["restart"] + 1 /\ at["restart"] \in Nat /\ i \in Nat
      BY <1>1, <1>3, <2>1, <2>2, <3>1
    <3>5. 2 * i = at["restart"] \/ 2 * i < at["restart"]
      BY <3>4
    <3>6. QED
      BY <3>2, <3>3, <3>5
  <2>3. CASE w = "stop"
    BY <1>3, <2>3
  <2>4. QED
    BY <2>2, <2>3, WalksAre
<1>9. Passed'
  <2> SUFFICES ASSUME NEW i \in DOMAIN Servers, at'["stop"] # None, i < at'["stop"],
                      phase'[Servers[i]] \in {"starting", "started"}
               PROVE  Servers[i] \in late
    BY DEF Passed
  <2>1. Servers[i] \in ServerSet /\ i \in 1..Len(Servers)
    BY ApiServerAssumption, LenProperties DEF ServerSet
  <2>2. phase[Servers[i]] \in {"starting", "started"}
    BY <2>1
  <2>3. CASE w = "stop"
    <3>1. step = at["stop"] + 1
      BY <1>3, <2>3
    <3>2. Walks["stop"][at["stop"]].server = Servers[at["stop"]]
      <4>1. at["stop"] \in 1..Len(Servers)
        BY <1>1, <2>3, WalksAre
      <4>2. Walks["stop"][at["stop"]] = [server |-> Servers[at["stop"]], to |-> "stopping"]
        BY <4>1, WalksAre
      <4>3. QED
        BY <4>2
    <3>3. i # at["stop"]
      <4>1. step # None
        BY <1>1, <1>2, <2>3, <3>1
      <4>2. QED
        BY <2>3, <3>2, <4>1
    <3>4. i < at["stop"] /\ at["stop"] # None
      BY <1>1, <1>2, <1>3, <2>1, <2>3, <3>1, <3>3
    <3>5. QED
      BY <2>2, <3>4 DEF ServersInv, Passed
  <2>4. CASE w # "stop"
    BY <1>3, <2>2, <2>4, WalksAre DEF ServersInv, Passed
  <2>5. QED
    BY <2>3, <2>4
<1>10. QED
  BY <1>4, <1>6, <1>7, <1>8, <1>9 DEF ServersInv

LEMMA WalkKeeps ==
    ASSUME ServersInv, NEW w \in DOMAIN Walks, Walk(w), UNCHANGED <<stage, next>>
    PROVE  ServersInv'
<1> DEFINE s == Walks[w][at[w]].server
           to == Walks[w][at[w]].to
<1>1. /\ at[w] \in DOMAIN Walks[w] /\ \A t \in ServerSet : awaits[t] # w
      /\ \/ May(s, to) /\ Change(s, to, w) /\ UNCHANGED at
         \/ /\ ~May(s, to)
            /\ at' = [at EXCEPT ![w] = IF \/ phase[s] = "none"
                                          \/ phase[s] = "started" /\ to = "starting"
                                       THEN @ + 1 ELSE None]
            /\ UNCHANGED <<phase, awaits, late>>
      /\ UNCHANGED <<ended, registered, failed, resolved, mounted, starting>>
  BY DEF Walk, databaseVars
<1>2. /\ s \in ServerSet /\ to \in {"stopping", "starting"} /\ w \in {"mount", "stop", "restart"}
      /\ w = "stop" => to = "stopping"
  <2>1. s \in ServerSet /\ to \in {"stopping", "starting"} /\ w \in {"mount", "stop", "restart"}
    BY <1>1, WalksAre
  <2>2. ASSUME w = "stop"
        PROVE  to = "stopping"
    <3>1. at["stop"] \in 1..Len(Servers)
      BY <1>1, <2>2, WalksAre
    <3>2. Walks["stop"][at["stop"]] = [server |-> Servers[at["stop"]], to |-> "stopping"]
      BY <3>1, WalksAre
    <3>3. QED
      BY <2>2, <3>2
  <2>3. QED
    BY <2>1, <2>2
<1>3. at[w] \in Nat /\ at[w] # 0
  BY <1>1, Walking
<1>4. CASE May(s, to) /\ Change(s, to, w) /\ UNCHANGED at
  <2>1. Walks[w][at[w]] = [server |-> s, to |-> to] /\ w # "mount"
    BY <1>1, WalksAre
  <2>2. mounted' \subseteq ServerSet
    BY <1>1 DEF ServersInv, ServersTyped
  <2> HIDE DEF s, to
  <2>3. QED
    BY <1>1, <1>2, <1>4, <2>1, <2>2, ChangeKeeps
<1>5. CASE ~May(s, to) /\ UNCHANGED <<phase, awaits, late>>
           /\ at' = [at EXCEPT ![w] = IF \/ phase[s] = "none"
                                         \/ phase[s] = "started" /\ to = "starting"
                                      THEN @ + 1 ELSE None]
  <2> DEFINE step == IF phase[s] = "none" \/ (phase[s] = "started" /\ to = "starting")
                     THEN at[w] + 1 ELSE None
  <2>1. step \in {at[w] + 1, None} /\ at' = [at EXCEPT ![w] = step]
    BY <1>5
  <2>2. w = "stop" /\ step # None => phase[s] \notin {"starting", "started"}
    BY <1>2
  <2>3. /\ phase' \in [ServerSet -> {"none", "stopped", "starting", "started",
                                     "stopping", "invalid"}]
        /\ awaits' \in [ServerSet -> {None, "mount", "stop", "restart"}]
    BY <1>5 DEF ServersInv, ServersTyped
  <2>4. to = "starting" /\ step # None => phase[s] = "started"
    <3>1. to = "starting" => w = "restart"
      BY <1>1, <1>2, WalksAre
    <3>2. w = "restart" => phase[s] # "none"
      BY <1>2, <1>3, RestartFinds
    <3>3. QED
      BY <3>1, <3>2
  <2> HIDE DEF step
  <2>5. QED
    BY <1>1, <1>5, <2>1, <2>2, <2>3, <2>4, AdvanceKeeps
<1>6. QED
  BY <1>1, <1>4, <1>5

LEMMA SettledKeeps ==
    ASSUME ServersInv, NEW s \in ServerSet, Settled(s), UNCHANGED <<stage, next>>
    PROVE  ServersInv'
<1> DEFINE caller == awaits[s]
           p == IF phase[s] = "starting" THEN "started" ELSE "stopped"
           To(q) == phase' = [phase EXCEPT ![s] = q] /\ awaits' = [awaits EXCEPT ![s] = None]
<1>1. /\ caller # None
      /\ UNCHANGED <<ended, registered, failed, resolved, mounted, starting, late>>
      /\ \/ To(p) /\ at' = IF caller = "mount" THEN at ELSE [at EXCEPT ![caller] = @ + 1]
         \/ /\ phase[s] = "starting" /\ To("invalid")
            /\ \/ caller = "mount" /\ UNCHANGED at
               \/ caller # "mount" /\ at' = [at EXCEPT ![caller] = None]
  BY DEF Settled, ForceExit, databaseVars
<1>2. /\ phase \in [ServerSet -> {"none", "stopped", "starting", "started", "stopping", "invalid"}]
      /\ awaits \in [ServerSet -> {None, "mount", "stop", "restart"}]
      /\ phase[s] \in {"starting", "stopping"}
  BY <1>1 DEF ServersInv, ServersTyped, Awaited
<1>3. ASSUME NEW q \in {"started", "stopped", "invalid"}, To(q)
      PROVE  /\ phase'[s] = q /\ awaits'[s] = None
             /\ \A t \in ServerSet \ {s} : phase'[t] = phase[t] /\ awaits'[t] = awaits[t]
             /\ phase' \in [ServerSet -> {"none", "stopped", "starting", "started",
                                          "stopping", "invalid"}]
             /\ awaits' \in [ServerSet -> {None, "mount", "stop", "restart"}]
  BY <1>2, <1>3
<1>4. PICK q \in {"started", "stopped", "invalid"} :
            To(q) /\ (q = "started" => phase[s] = "starting")
  BY <1>1
<1>5. /\ phase'[s] = q /\ awaits'[s] = None
      /\ \A t \in ServerSet \ {s} : phase'[t] = phase[t] /\ awaits'[t] = awaits[t]
      /\ phase' \in [ServerSet -> {"none", "stopped", "starting", "started", "stopping", "invalid"}]
      /\ awaits' \in [ServerSet -> {None, "mount", "stop", "restart"}]
  BY <1>3, <1>4
<1>6. CASE caller = "mount"
  <2>1. UNCHANGED <<at, ended, registered, failed, resolved, mounted, starting, late>>
    BY <1>1, <1>6
  <2>2. \A i \in DOMAIN Servers : /\ phase'[Servers[i]] \in {"starting", "started"} =>
                                          phase[Servers[i]] \in {"starting", "started"}
                                  /\ phase[Servers[i]] = "none" <=> phase'[Servers[i]] = "none"
                                  /\ phase[Servers[i]] = "started" => phase'[Servers[i]] = "started"
    BY <1>2, <1>4, <1>5 DEF ServerSet
  <2>3. ServersTyped' /\ Stages' /\ Restarted' /\ Passed'
    <3>1. ServersTyped'
      BY <1>5, <2>1 DEF ServersInv, ServersTyped
    <3>2. Stages'
      <4>1. starting = 0 => \A t \in ServerSet : phase'[t] = "none"
        BY <1>2 DEF ServersInv, Stages
      <4>2. QED
        BY <2>1, <2>2, <4>1 DEF ServersInv, Stages, Over
    <3>3. Restarted' /\ Passed'
      BY <2>1, <2>2 DEF ServersInv, Restarted, Passed
    <3>4. QED
      BY <3>1, <3>2, <3>3
  <2>4. Awaited'
    BY <1>5, <2>1, WalksAre, ApiServerAssumption DEF ServersInv, Awaited
  <2>5. QED
    BY <2>3, <2>4 DEF ServersInv
<1>7. CASE caller # "mount"
  <2>1. /\ caller \in DOMAIN Walks /\ at[caller] \in DOMAIN Walks[caller]
        /\ Walks[caller][at[caller]] = [server |-> s, to |-> phase[s]]
        /\ Walks[caller][at[caller]].server = s /\ Walks[caller][at[caller]].to = phase[s]
    <3>1. caller \in DOMAIN Walks
      BY <1>1, <1>2, <1>7, WalksAre
    <3>2. /\ at[caller] \in DOMAIN Walks[caller]
          /\ Walks[caller][at[caller]] = [server |-> s, to |-> phase[s]]
      BY <3>1 DEF ServersInv, Awaited
    <3>3. QED
      BY <3>1, <3>2
  <2>2. \A t \in ServerSet : awaits[t] = caller => t = s
    <3> SUFFICES ASSUME NEW t \in ServerSet, awaits[t] = caller PROVE t = s
      OBVIOUS
    <3>1. Walks[caller][at[caller]] = [server |-> t, to |-> phase[t]]
      BY <2>1 DEF ServersInv, Awaited
    <3>2. QED
      BY <2>1, <3>1
  <2>3. caller = "stop" => phase[s] = "stopping"
    <3> SUFFICES ASSUME caller = "stop" PROVE phase[s] = "stopping"
      OBVIOUS
    <3>1. at["stop"] \in 1..Len(Servers)
      BY <2>1, WalksAre
    <3>2. Walks["stop"][at["stop"]] = [server |-> Servers[at["stop"]], to |-> "stopping"]
      BY <3>1, WalksAre
    <3>3. QED
      BY <2>1, <3>2
  <2>4. PICK step \in {at[caller] + 1, None} : at' = [at EXCEPT ![caller] = step]
    BY <1>1, <1>7
  <2>5. \A t \in ServerSet : awaits'[t] # caller
    BY <1>1, <1>5, <2>2
  <2>6. phase[s] = "starting" /\ step # None => phase'[s] = "started"
    <3>1. None # at[caller] + 1
      BY <2>1, WalksAre, DatabasesAssumption
    <3>2. at'[caller] = step
      BY <2>1, <2>4 DEF ServersInv, ServersTyped
    <3>3. at'[caller] = at[caller] + 1 \/ at'[caller] = None
      BY <2>4, <3>2
    <3>4. QED
      BY <1>1, <1>2, <1>5, <1>7, <2>1, <3>1, <3>2 DEF ServersInv, ServersTyped
  <2>7. \A t \in ServerSet : /\ awaits'[t] \in {awaits[t], None}
                             /\ phase'[t] # phase[t] => awaits'[t] = None
                             /\ phase'[t] \in {"starting", "started"} =>
                                    phase[t] \in {"starting", "started"}
                             /\ phase[t] = "none" <=> phase'[t] = "none"
                             /\ phase[t] = "started" => phase'[t] = "started"
    BY <1>2, <1>4, <1>5
  <2>8. caller = "stop" => phase'[s] \notin {"starting", "started"}
    BY <1>4, <1>5, <2>3
  <2> HIDE DEF caller
  <2>9. caller = "stop" /\ step # None =>
            phase'[Walks[caller][at[caller]].server] \notin {"starting", "started"}
    BY <2>1, <2>8
  <2>10. Walks[caller][at[caller]].to = "starting" /\ step # None =>
             phase'[Walks[caller][at[caller]].server] = "started"
    BY <2>1, <2>6
  <2>11. UNCHANGED <<registered, failed, mounted, starting, late, stage, next, ended>>
    BY <1>1
  <2>12. caller \in DOMAIN Walks /\ at[caller] \in DOMAIN Walks[caller]
    BY <2>1
  <2> HIDE DEF To, p
  <2>13. QED
    BY <1>5, <2>4, <2>5, <2>7, <2>9, <2>11, <2>12, <2>10, AdvanceKeeps
<1>8. QED
  BY <1>6, <1>7

LEMMA ServersStep == ServersInv /\ [ServicesNext]_vars => ServersInv'
<1> SUFFICES ASSUME ServersInv, [ServicesNext]_vars
             PROVE  ServersInv'
  OBVIOUS
<1>1. CASE UNCHANGED <<databaseVars, apiVars, stage, next>>
  BY <1>1, ServersStay DEF databaseVars
<1>2. CASE RegisterDriver \/ RegisterApi \/ DeregisterApi \/ DeregisterDriver \/ Interrupt
  BY <1>2, RegisterDriverKeeps, RegisterApiKeeps, DeregisterApiKeeps, DeregisterDriverKeeps,
     InterruptKeeps
<1>3. CASE ApiNext /\ UNCHANGED <<stage, next, request>>
  BY <1>3, CreateServerKeeps, RegisterKeeps, MountKeeps, SettledKeeps, WalkKeeps DEF ApiNext
<1>4. CASE DatabasesNext /\ UNCHANGED <<apiVars, stage, next, request>>
  <2>1. ended' = ended
    BY <1>4 DEF DatabasesNext, Connected, ConnectionLost, QuerySettles, ForceExit, databaseVars
  <2>2. QED
    BY <1>4, <2>1, ServersStay
<1>5. CASE AppRestarts
  <2>1. /\ Calls("restart") /\ stage # "setup"
        /\ UNCHANGED <<ended, phase, registered, failed, resolved, mounted, awaits, starting, late,
                       stage, next>>
        /\ starting # None
    BY <1>5 DEF AppRestarts, databaseVars
  <2>2. QED
    BY <2>1, CallsKeeps, WalksAre
<1>6. CASE \E c \in Clients : \/ Authenticated(c) \/ QueryCount(c) \/ Answer(c)
                              \/ \E s \in ServerSet, route \in DOMAIN Routes : Receive(c, s, route)
  <2>1. UNCHANGED <<apiVars, stage, next, ended>>
    BY <1>6 DEF Authenticated, QueryCount, Answer, Receive, Any, databaseVars
  <2>2. QED
    BY <2>1, ServersStay
<1>7. CASE Exit \/ UNCHANGED vars
  BY <1>1, <1>7 DEF Exit, vars
<1>8. QED
  BY <1>2, <1>3, <1>4, <1>5, <1>6, <1>7 DEF ServicesNext, Progress

\* Whatever may go wrong and however mounts and the calls of stop() and restart()
\* interleave: a restart() that has resolved leaves every server listening, and the
\* databases end behind the servers that stop() had to stop.
THEOREM ServersSafe == ServicesSpec => [](RestartedListen /\ EndedBehindServers)
<1>1. ServersInv => RestartedListen
  <2> SUFFICES ASSUME ServersInv, Over("restart"), at["stop"] = 0, NEW s \in ServerSet
               PROVE  phase[s] = "started"
    BY DEF RestartedListen
  <2>1. at["restart"] # None /\ at["restart"] > 2 * Len(Servers) /\ at["restart"] \in Nat
    BY WalksAre, Walking DEF Over
  <2>2. PICK i \in DOMAIN Servers : Servers[i] = s
    BY DEF ServerSet
  <2>3. 2 * i < at["restart"]
    BY <2>1, ApiServerAssumption, LenProperties
  <2>4. QED
    BY <2>1, <2>2, <2>3 DEF ServersInv, Restarted
<1>2. ServersInv => EndedBehindServers
  <2> SUFFICES ASSUME ServersInv, NEW s \in ServerSet, ended # {}, phase[s] = "started",
                      starting # None
               PROVE  s \in late
    BY DEF EndedBehindServers
  <2>1. at["stop"] # None /\ at["stop"] > Len(Servers) /\ at["stop"] \in Nat
    BY WalksAre, Walking DEF ServersInv, Stages, Over
  <2>2. PICK i \in DOMAIN Servers : Servers[i] = s
    BY DEF ServerSet
  <2>3. i < at["stop"]
    BY <2>1, ApiServerAssumption, LenProperties
  <2>4. QED
    BY <2>1, <2>2, <2>3 DEF ServersInv, Passed
<1>3. QED
  BY <1>1, <1>2, ServersBegin, ServersStep, PTL DEF ServicesSpec

---------------------------------------------------------------------------------
(* The connections and their queries *)

LEMMA QueriesBegin == ServicesInit => QueriesInv
<1> SUFFICES ASSUME ServicesInit PROVE QueriesInv
  OBVIOUS
<1> USE DEF ServicesInit, DatabasesInit, ApiInit
<1>1. DatabasesTypeOK /\ RequestsTyped /\ QueriesFindConnection
  BY DEF DatabasesTypeOK, RequestsTyped, QueriesFindConnection, Idle
<1>2. Connects /\ Resolves
  BY DatabasesAssumption, LenProperties DEF Connects, Resolves
<1>3. QED
  BY <1>1, <1>2, ServersBegin DEF QueriesInv

\* What the handlers have found stays
LEMMA ResolvesStays ==
    ASSUME Resolves, UNCHANGED <<registered, resolved, request>>,
           \A s \in ServerSet : phase'[s] = "none" <=> phase[s] = "none"
    PROVE  Resolves'
BY DEF Resolves

\* The module of the handlers finds all connections.
LEMMA RequiresFinds ==
    ASSUME QueriesInv, Running, starting # 0, NEW n \in Nat, Requires(n)
    PROVE  /\ resolved' \in {None, DriverSet}
           /\ resolved # None => resolved' # None
           /\ n + 1 \in DOMAIN Registrations /\ Registrations[n + 1] = "handlers"
                => resolved' # None
<1>1. resolved' \in {resolved, connections} /\ (resolved # None => resolved' = resolved)
  BY DEF Requires
<1>2. connections = DriverSet /\ connections # None
  BY ApiServerAssumption DEF QueriesInv, DatabasesTypeOK, Connects
<1>3. n + 1 \in DOMAIN Registrations => n < Len(Registrations)
  BY ApiServerAssumption, LenProperties
<1>4. QED
  BY <1>1, <1>2, <1>3 DEF Requires, QueriesInv, Resolves

\* A step that leaves queries and requests alone and takes no connection away
LEMMA ConnectionsStay ==
    ASSUME QueriesInv, ServersInv', UNCHANGED <<query, request>>, DatabasesTypeOK', Resolves',
           Running' => /\ connections \subseteq connections' /\ executors \subseteq executors'
                       /\ starting # 0 \/ (UNCHANGED <<stage, next>> /\ starting' = 0),
           starting # 0 => starting' # 0, Running' => Running
    PROVE  QueriesInv'
<1>1. RequestsTyped' /\ QueriesFindConnection'
  BY DEF QueriesInv, RequestsTyped, QueriesFindConnection
<1>2. Connects'
  <2>1. CASE starting = 0
    BY <2>1 DEF QueriesInv, Connects
  <2>2. CASE starting # 0
    BY <2>2 DEF QueriesInv, Connects, DriverSet
  <2>3. QED
    BY <2>1, <2>2
<1>3. QED
  BY <1>1, <1>2 DEF QueriesInv

\* A step that moves on queries or requests and leaves the connections alone
LEMMA QueriesMove ==
    ASSUME QueriesInv, ServersInv', DatabasesTypeOK', RequestsTyped', QueriesFindConnection',
           Resolves', UNCHANGED <<connections, executors, exitCode, stage, next, starting>>,
           starting = 0 => UNCHANGED request
    PROVE  QueriesInv'
BY DEF QueriesInv, Connects, Running

LEMMA StartedThen ==
    ASSUME ServersInv
    PROVE  /\ stage # "setup" => starting # 0
           /\ \A s \in ServerSet : phase[s] # "none" => starting # 0
BY DatabasesAssumption, ApiServerAssumption, LenProperties DEF ServersInv, Stages

\* Steps of the api and of the container that leave the databases alone
LEMMA ApiStays ==
    ASSUME QueriesInv, ServersInv', UNCHANGED <<databaseVars, request>>, exitCode' \in {None, 0, 1},
           Resolves',
           Running' => Running, starting # 0 => starting' # 0,
           starting # 0 \/ (UNCHANGED <<stage, next>> /\ starting' = 0)
    PROVE  QueriesInv'
<1>1. DatabasesTypeOK'
  BY DEF QueriesInv, DatabasesTypeOK, databaseVars
<1>2. QED
  BY <1>1, ConnectionsStay DEF databaseVars

LEMMA RegisterDriverConnects ==
    ASSUME QueriesInv, ServersInv', RegisterDriver
    PROVE  QueriesInv'
<1> DEFINE d == Drivers[next]
<1>1. /\ stage = "setup" /\ Running /\ next \in DOMAIN Drivers /\ next' = next + 1
      /\ UNCHANGED <<apiVars, stage, request, ended, query>>
      /\ d \in DriverSet
      /\ \/ /\ exitCode' = 1 /\ UNCHANGED <<db, connections, executors>>
         \/ /\ \E state \in {"connecting", "open"} : db' = [db EXCEPT ![d] = state]
            /\ connections' = connections \cup {d} /\ executors' = executors \cup {d}
            /\ UNCHANGED exitCode
  BY DEF RegisterDriver, CreateConnection, MysqlMake, MssqlMake, PostgresMake, Opens, ForceExit,
         databaseVars, DriverSet
<1> HIDE DEF d
<1>2. DatabasesTypeOK'
  BY <1>1 DEF QueriesInv, DatabasesTypeOK
<1>3. RequestsTyped' /\ QueriesFindConnection'
  BY <1>1 DEF QueriesInv, RequestsTyped, QueriesFindConnection
<1>4. Resolves'
  BY <1>1, ResolvesStays DEF QueriesInv, apiVars
<1>5. Connects'
  <2>1. starting' = starting
    BY <1>1 DEF apiVars
  <2>2. CASE exitCode' = 1
    BY <1>1, <2>1, <2>2, DatabasesAssumption DEF QueriesInv, Connects, Running
  <2>3. CASE /\ connections' = connections \cup {d} /\ executors' = executors \cup {d}
             /\ UNCHANGED exitCode
    <3>1. \A i \in DOMAIN Drivers : i < next + 1 => i < next \/ Drivers[i] = d
      BY <1>1, DatabasesAssumption, LenProperties DEF d
    <3>2. QED
      BY <1>1, <2>1, <2>3, <3>1 DEF QueriesInv, Connects, Running
  <2>4. QED
    BY <1>1, <2>2, <2>3
<1>6. QED
  BY <1>2, <1>3, <1>5, <1>4 DEF QueriesInv

LEMMA RegisterApiConnects ==
    ASSUME QueriesInv, ServersInv', RegisterApi
    PROVE  QueriesInv'
<1>1. /\ stage = "setup" /\ Running /\ next = Api /\ UNCHANGED <<databaseVars, exitCode, request>>
      /\ starting' # 0 /\ (starting = 0 \/ starting' = starting)
  BY DatabasesAssumption, ApiServerAssumption, LenProperties DEF RegisterApi
<1>2. DriverSet \subseteq connections \cap executors
  <2>1. \A i \in DOMAIN Drivers : i < Api
    BY DatabasesAssumption, LenProperties DEF Api
  <2>2. QED
    BY <1>1, <2>1 DEF QueriesInv, Connects, DriverSet
<1>3. DatabasesTypeOK' /\ RequestsTyped' /\ QueriesFindConnection'
  BY <1>1 DEF QueriesInv, DatabasesTypeOK, RequestsTyped, QueriesFindConnection, databaseVars
<1>4. Connects'
  BY <1>1, <1>2 DEF Connects, databaseVars, DriverSet
<1>5. Resolves'
  BY <1>1, ResolvesStays DEF QueriesInv, RegisterApi
<1>6. QED
  BY <1>3, <1>4, <1>5 DEF QueriesInv

\* The queries of clients
Asked == [driver : DriverSet, at : {"running", "answered", "failed", "unregistered"}]

LEMMA AskedWhenRunning ==
    ASSUME QueriesInv, NEW c \in Clients, query[c].at = "running"
    PROVE  query[c] \in Asked
BY DEF QueriesInv, DatabasesTypeOK, Idle, Asked

LEMMA DatabasesMove ==
    ASSUME QueriesInv, ServersInv', DatabasesNext, UNCHANGED <<apiVars, stage, next, request>>
    PROVE  QueriesInv'
<1>1. UNCHANGED <<starting, stage, next, request>> /\ Resolves'
  BY ResolvesStays DEF apiVars, QueriesInv
<1>2. CASE ForceExit
  <2>1. DatabasesTypeOK'
    BY <1>2 DEF QueriesInv, DatabasesTypeOK, ForceExit, databaseVars
  <2>2. ~Running'
    BY <1>2, DatabasesAssumption DEF ForceExit, Running
  <2>3. QED
    BY <1>1, <1>2, <2>1, <2>2, ConnectionsStay DEF ForceExit, databaseVars
<1>3. ASSUME NEW d \in DriverSet, db' = [db EXCEPT ![d] = "open"],
             UNCHANGED <<connections, executors, ended, query, exitCode>>
      PROVE  QueriesInv'
  <2>1. DatabasesTypeOK'
    BY <1>3 DEF QueriesInv, DatabasesTypeOK
  <2>2. QED
    BY <1>1, <1>3, <2>1, ConnectionsStay DEF Running
<1>4. ASSUME NEW c \in Clients, QuerySettles(c)
      PROVE  QueriesInv'
  <2>1. PICK to \in {"failed", "answered"} : query' = [query EXCEPT ![c].at = to]
    BY <1>4 DEF QuerySettles
  <2>2. query[c].at = "running" /\ UNCHANGED <<db, connections, executors, ended, exitCode>>
    BY <1>4 DEF QuerySettles
  <2>3. [query[c] EXCEPT !.at = to] \in Asked /\ [query[c] EXCEPT !.at = to].at = to
    BY <2>2, AskedWhenRunning DEF Asked
  <2>4. query' \in [Clients -> {Idle} \cup Asked] /\ query'[c].at = to
        /\ \A e \in Clients \ {c} : query'[e] = query[e]
    BY <2>1, <2>3 DEF QueriesInv, DatabasesTypeOK, Asked
  <2>5. DatabasesTypeOK' /\ QueriesFindConnection'
    BY <2>2, <2>4 DEF QueriesInv, DatabasesTypeOK, QueriesFindConnection, Asked
  <2>6. RequestsTyped'
    BY <1>1 DEF QueriesInv, RequestsTyped
  <2>7. QED
    BY <1>1, <2>2, <2>5, <2>6, QueriesMove
<1>5. CASE ConnectionLost
  <2>1. CASE UnderWay("mysql") = {}
    BY <1>2, <1>5, <2>1 DEF ConnectionLost
  <2>2. CASE UnderWay("mysql") # {}
    <3>1. /\ db' = [db EXCEPT !["mysql"] = "lost"] /\ "mysql" \in DriverSet
          /\ query' = [c \in Clients |-> IF c \in UnderWay("mysql")
                                         THEN [query[c] EXCEPT !.at = "failed"] ELSE query[c]]
          /\ UNCHANGED <<connections, executors, ended, exitCode>>
      BY <1>5, <2>2 DEF ConnectionLost
    <3>2. ASSUME NEW c \in Clients, c \in UnderWay("mysql")
          PROVE  [query[c] EXCEPT !.at = "failed"] \in Asked /\ query'[c].at = "failed"
      <4>1. query[c].at = "running"
        BY <3>2 DEF UnderWay
      <4>2. [query[c] EXCEPT !.at = "failed"] \in Asked
            /\ [query[c] EXCEPT !.at = "failed"].at = "failed"
        BY <4>1, AskedWhenRunning DEF Asked
      <4>3. QED
        BY <3>1, <3>2, <4>2
    <3>3. /\ query' \in [Clients -> {Idle} \cup Asked]
          /\ \A c \in Clients : query'[c].at = "failed" \/ query'[c] = query[c]
      BY <3>1, <3>2 DEF QueriesInv, DatabasesTypeOK, Asked
    <3>4. DatabasesTypeOK' /\ QueriesFindConnection'
      BY <3>1, <3>3 DEF QueriesInv, DatabasesTypeOK, QueriesFindConnection, Asked
    <3>5. RequestsTyped'
      BY <1>1 DEF QueriesInv, RequestsTyped
    <3>6. QED
      BY <1>1, <3>1, <3>4, <3>5, QueriesMove
  <2>3. QED
    BY <2>1, <2>2
<1>6. QED
  BY <1>2, <1>3, <1>4, <1>5 DEF DatabasesNext, Connected

\* A route that queries its database meets a connection and an executor.
LEMMA AnyFinds ==
    ASSUME QueriesInv, RoutesConfigured, Running, starting # 0, NEW c \in Clients,
           NEW route \in DOMAIN Routes, Any(c, Routes[route], resolved), resolved # None
    PROVE  DatabasesTypeOK' /\ QueriesFindConnection'
<1> DEFINE d == Routes[route]
<1>1. d \in DriverSet /\ d \in resolved \cap executors
  BY DEF RoutesConfigured, QueriesInv, Connects, Resolves
<1>2. /\ \/ query' = [query EXCEPT ![c] = [driver |-> d, at |-> "running"]]
         \/ query' = [query EXCEPT ![c] = [driver |-> d, at |-> "failed"]]
      /\ UNCHANGED <<db, connections, executors, ended, exitCode>>
  BY <1>1 DEF Any
<1> HIDE DEF d
<1>3. /\ query' \in [Clients -> {Idle} \cup Asked]
      /\ \A e \in Clients : query'[e] = query[e] \/ query'[e].at \in {"running", "failed"}
  BY <1>1, <1>2 DEF QueriesInv, DatabasesTypeOK, Asked
<1>4. QED
  BY <1>2, <1>3 DEF QueriesInv, DatabasesTypeOK, QueriesFindConnection, Asked

LEMMA RequestsMove ==
    ASSUME QueriesInv, ServersInv', RoutesConfigured, NEW c \in Clients,
           \/ Authenticated(c) \/ QueryCount(c) \/ Answer(c)
           \/ \E s \in ServerSet, route \in DOMAIN Routes : Receive(c, s, route)
    PROVE  QueriesInv'
<1> DEFINE Serving == [route : DOMAIN Routes, at : {"auth", "data", "count"}]
<1>1. request \in [Clients -> {NoRequest} \cup Serving]
  BY DEF QueriesInv, RequestsTyped
<1>2. ASSUME NEW r \in {NoRequest} \cup Serving, request' = [request EXCEPT ![c] = r],
             r # NoRequest => resolved # None, UNCHANGED apiVars
      PROVE  RequestsTyped' /\ Resolves'
  <2> HIDE DEF Serving
  <2>1. request' \in [Clients -> {NoRequest} \cup Serving] /\ request'[c] = r
        /\ \A e \in Clients \ {c} : request'[e] = request[e]
    BY <1>1, <1>2
  <2>2. RequestsTyped'
    BY <2>1 DEF RequestsTyped, Serving
  <2>3. UNCHANGED <<phase, registered, resolved>>
    BY <1>2 DEF apiVars
  <2>4. Resolves'
    BY <1>2, <2>1, <2>3 DEF QueriesInv, Resolves
  <2>5. QED
    BY <2>2, <2>4
<1>3. ASSUME NEW to \in {"data", "count"}, Running, request[c] \in Serving,
             request' = [request EXCEPT ![c].at = to], Any(c, Routes[request[c].route], resolved),
             UNCHANGED <<apiVars, stage, next>>
      PROVE  QueriesInv'
  <2>1. request[c] # NoRequest /\ starting # 0 /\ resolved # None
    BY <1>3 DEF QueriesInv, Connects, Resolves, NoRequest
  <2>2. [request[c] EXCEPT !.at = to] \in Serving
        /\ request' = [request EXCEPT ![c] = [request[c] EXCEPT !.at = to]]
    BY <1>3
  <2>3. RequestsTyped' /\ Resolves'
    <3> HIDE DEF Serving
    <3>1. QED
      BY <1>2, <1>3, <2>1, <2>2
  <2>4. DatabasesTypeOK' /\ QueriesFindConnection'
    BY <1>3, <2>1, AnyFinds
  <2>5. UNCHANGED <<connections, executors, exitCode, starting, stage, next>>
    BY <1>3 DEF Any, apiVars
  <2>6. QED
    BY <2>1, <2>3, <2>4, <2>5, QueriesMove
<1>4. CASE Answer(c)
  <2>1. /\ request' = [request EXCEPT ![c] = NoRequest] /\ query' = [query EXCEPT ![c] = Idle]
        /\ UNCHANGED <<db, connections, executors, ended, exitCode, apiVars, starting, stage, next>>
    BY <1>4 DEF Answer, apiVars
  <2>2. RequestsTyped' /\ Resolves' /\ (starting = 0 => UNCHANGED request)
    BY <1>1, <1>2, <2>1 DEF QueriesInv, Connects
  <2>3. DatabasesTypeOK' /\ QueriesFindConnection'
    BY <2>1 DEF QueriesInv, DatabasesTypeOK, QueriesFindConnection, Idle
  <2>4. QED
    BY <2>1, <2>2, <2>3, QueriesMove
<1>5. CASE QueryCount(c)
  <2>1. request[c] \in Serving
    BY <1>1, <1>5 DEF QueryCount, NoRequest
  <2>2. QED
    BY <1>3, <1>5, <2>1 DEF QueryCount
<1>6. CASE Authenticated(c)
  <2>1. request[c] \in Serving
    BY <1>1, <1>6 DEF Authenticated, NoRequest
  <2>2. CASE request' = [request EXCEPT ![c] = NoRequest] /\ UNCHANGED <<databaseVars, exitCode>>
    <3>1. UNCHANGED <<databaseVars, exitCode, apiVars, starting, stage, next>>
      BY <1>6, <2>2 DEF Authenticated, apiVars
    <3>2. RequestsTyped' /\ Resolves' /\ (starting = 0 => UNCHANGED request)
      BY <1>1, <1>2, <2>2, <3>1 DEF QueriesInv, Connects
    <3>3. DatabasesTypeOK' /\ QueriesFindConnection'
      BY <3>1 DEF QueriesInv, DatabasesTypeOK, QueriesFindConnection, databaseVars
    <3>4. QED
      BY <3>1, <3>2, <3>3, QueriesMove DEF databaseVars
  <2>3. QED
    BY <1>3, <1>6, <2>1, <2>2 DEF Authenticated
<1>7. ASSUME NEW s \in ServerSet, NEW route \in DOMAIN Routes, Receive(c, s, route)
      PROVE  QueriesInv'
  <2>1. /\ phase[s] = "started" /\ Handling(s)
        /\ request' = [request EXCEPT ![c] = [route |-> route, at |-> "auth"]]
        /\ UNCHANGED <<databaseVars, exitCode, apiVars, starting, stage, next>>
    BY <1>7 DEF Receive, apiVars
  <2>2. starting # 0
    BY <2>1, StartedThen DEF QueriesInv
  <2>3. resolved # None
    <3>1. PICK i \in 1..registered[s] : Registrations[i] = "handlers"
      BY <2>1 DEF Handling
    <3>2. i \in DOMAIN Registrations /\ i <= registered[s] + 1
      BY <3>1, ApiServerAssumption, LenProperties DEF QueriesInv, ServersInv, ServersTyped
    <3>3. QED
      BY <2>1, <3>1, <3>2 DEF QueriesInv, Resolves
  <2>4. RequestsTyped' /\ Resolves'
    BY <1>2, <2>1, <2>3
  <2>5. DatabasesTypeOK' /\ QueriesFindConnection'
    BY <2>1 DEF QueriesInv, DatabasesTypeOK, QueriesFindConnection, databaseVars
  <2>6. QED
    BY <2>1, <2>2, <2>4, <2>5, QueriesMove DEF databaseVars
<1>8. QED
  BY <1>4, <1>5, <1>6, <1>7

LEMMA CreateServerResolves ==
    ASSUME QueriesInv, CreateServer, UNCHANGED request, starting # 0
    PROVE  Resolves'
<1>1. \/ /\ phase' = [phase EXCEPT ![Servers[starting]] = "stopped"] /\ Requires(0)
         /\ starting \in DOMAIN Servers
      \/ UNCHANGED <<phase, resolved>>
  BY DEF CreateServer
<1>2. UNCHANGED registered /\ Running
  BY DEF CreateServer
<1>3. CASE UNCHANGED <<phase, resolved>>
  BY <1>2, <1>3, ResolvesStays DEF QueriesInv
<1>4. CASE /\ phase' = [phase EXCEPT ![Servers[starting]] = "stopped"] /\ Requires(0)
           /\ starting \in DOMAIN Servers
  <2>1. /\ resolved' \in {None, DriverSet}
        /\ resolved # None => resolved' # None
        /\ 1 \in DOMAIN Registrations /\ Registrations[1] = "handlers" => resolved' # None
    BY <1>2, <1>4, RequiresFinds
  <2>2. \A s \in ServerSet : phase'[s] = "none" => phase[s] = "none"
    BY <1>4 DEF QueriesInv, ServersInv, ServersTyped
  <2>3. ASSUME NEW s \in ServerSet, NEW i \in DOMAIN Registrations, phase'[s] # "none",
               i <= registered[s] + 1, Registrations[i] = "handlers"
        PROVE  resolved' # None
    <3>1. CASE phase[s] = "none"
      <4>1. i = 1
        BY <2>3, <3>1, ApiServerAssumption, LenProperties DEF QueriesInv, Resolves
      <4>2. QED
        BY <2>1, <2>3, <4>1
    <3>2. CASE phase[s] # "none"
      BY <2>1, <2>3, <3>2 DEF QueriesInv, Resolves
    <3>3. QED
      BY <3>1, <3>2
  <2>4. QED
    BY <1>2, <2>1, <2>2, <2>3 DEF QueriesInv, Resolves
<1>5. QED
  BY <1>1, <1>3, <1>4

LEMMA RegisterResolves ==
    ASSUME QueriesInv, NEW s \in ServerSet, Register(s), UNCHANGED request
    PROVE  Resolves'
<1>1. /\ Running /\ phase[s] # "none" /\ UNCHANGED phase
      /\ \/ /\ registered' = [registered EXCEPT ![s] = @ + 1]
            /\ Requires(registered[s] + 1)
         \/ UNCHANGED <<registered, resolved>>
  BY DEF Register
<1>2. starting # 0 /\ registered \in [ServerSet -> 0..Len(Registrations)]
  BY <1>1, StartedThen DEF QueriesInv, ServersInv, ServersTyped
<1>3. CASE UNCHANGED <<registered, resolved>>
  BY <1>1, <1>3, ResolvesStays DEF QueriesInv
<1>4. CASE /\ registered' = [registered EXCEPT ![s] = @ + 1]
           /\ Requires(registered[s] + 1)
  <2> DEFINE n == registered[s] + 1
  <2>1. n \in Nat /\ Requires(n) /\ registered'[s] = n
        /\ \A t \in ServerSet \ {s} : registered'[t] = registered[t]
    BY <1>2, <1>4, ApiServerAssumption, LenProperties
  <2> HIDE DEF n
  <2>2. /\ resolved' \in {None, DriverSet}
        /\ resolved # None => resolved' # None
        /\ n + 1 \in DOMAIN Registrations /\ Registrations[n + 1] = "handlers" => resolved' # None
    BY <1>1, <1>2, <2>1, RequiresFinds
  <2>3. ASSUME NEW t \in ServerSet, NEW i \in DOMAIN Registrations, phase[t] # "none",
               i <= registered'[t] + 1, Registrations[i] = "handlers"
        PROVE  resolved' # None
    <3>1. CASE t = s /\ i = n + 1
      BY <2>2, <2>3, <3>1
    <3>2. CASE i <= registered[t] + 1
      BY <2>2, <2>3, <3>2 DEF QueriesInv, Resolves
    <3>3. i \in Nat /\ n = registered[s] + 1
      BY ApiServerAssumption, LenProperties DEF n
    <3>4. QED
      BY <2>1, <2>3, <3>1, <3>2, <3>3
  <2>4. \A t \in ServerSet : phase[t] = "none" => registered'[t] = 0
    BY <1>1, <2>1 DEF QueriesInv, Resolves
  <2>5. QED
    BY <1>1, <2>2, <2>3, <2>4 DEF QueriesInv, Resolves
<1>5. QED
  BY <1>1, <1>3, <1>4

\* A server is not taken away.
LEMMA PhasesStay ==
    ASSUME ServersInv,
           (\E s \in ServerSet : Mount(s) \/ Settled(s)) \/ (\E w \in DOMAIN Walks : Walk(w))
    PROVE  \A s \in ServerSet : phase'[s] = "none" <=> phase[s] = "none"
<1>1. phase \in [ServerSet -> {"none", "stopped", "starting", "started", "stopping", "invalid"}]
  BY DEF ServersInv, ServersTyped
<1>2. ASSUME NEW s \in ServerSet, NEW caller, NEW to \in {"starting", "stopping"},
             May(s, to), Change(s, to, caller)
      PROVE  \A t \in ServerSet : phase'[t] = "none" <=> phase[t] = "none"
  BY <1>1, <1>2 DEF May, Change
<1>3. ASSUME NEW s \in ServerSet, Mount(s)
      PROVE  \A t \in ServerSet : phase'[t] = "none" <=> phase[t] = "none"
  BY <1>2, <1>3 DEF Mount
<1>4. ASSUME NEW s \in ServerSet, Settled(s)
      PROVE  \A t \in ServerSet : phase'[t] = "none" <=> phase[t] = "none"
  <2>1. PICK p \in {"started", "stopped", "invalid"} : phase' = [phase EXCEPT ![s] = p]
    BY <1>4 DEF Settled
  <2>2. phase[s] # "none"
    BY <1>4 DEF Settled, ServersInv, Awaited
  <2>3. QED
    BY <1>1, <2>1, <2>2
<1>5. ASSUME NEW w \in DOMAIN Walks, Walk(w)
      PROVE  \A t \in ServerSet : phase'[t] = "none" <=> phase[t] = "none"
  <2>1. Walks[w][at[w]].server \in ServerSet /\ Walks[w][at[w]].to \in {"starting", "stopping"}
    BY <1>5, WalksAre DEF Walk
  <2>2. CASE May(Walks[w][at[w]].server, Walks[w][at[w]].to)
    BY <1>2, <1>5, <2>1, <2>2 DEF Walk
  <2>3. CASE ~May(Walks[w][at[w]].server, Walks[w][at[w]].to)
    BY <1>5, <2>3 DEF Walk
  <2>4. QED
    BY <2>2, <2>3
<1>6. QED
  BY <1>3, <1>4, <1>5

LEMMA QueriesStep ==
    ASSUME RoutesConfigured
    PROVE  QueriesInv /\ [ServicesNext]_vars => QueriesInv'
<1> SUFFICES ASSUME QueriesInv, [ServicesNext]_vars
             PROVE  QueriesInv'
  OBVIOUS
<1>1. ServersInv /\ ServersInv' /\ exitCode \in {None, 0, 1}
  BY ServersStep DEF QueriesInv, DatabasesTypeOK
<1>2. stage # "setup" => starting # 0
  BY <1>1, StartedThen
<1>3. UNCHANGED <<apiVars, request>> => Resolves'
  BY ResolvesStays DEF apiVars, QueriesInv
<1>4. CASE UNCHANGED vars
  BY <1>1, <1>4, <1>3, ApiStays DEF vars, apiVars, Running
<1>5. CASE RegisterDriver \/ RegisterApi
  BY <1>1, <1>5, RegisterDriverConnects, RegisterApiConnects
<1>6. CASE DatabasesNext /\ UNCHANGED <<apiVars, stage, next, request>>
  BY <1>1, <1>6, DatabasesMove
<1>7. CASE \E c \in Clients : \/ Authenticated(c) \/ QueryCount(c) \/ Answer(c)
                              \/ \E s \in ServerSet, route \in DOMAIN Routes : Receive(c, s, route)
  BY <1>1, <1>7, RequestsMove
<1>8. CASE Interrupt \/ AppRestarts \/ DeregisterApi \/ Exit
  <2>1. UNCHANGED <<databaseVars, request, starting>> /\ exitCode' \in {None, 0, 1} /\ Running
    BY <1>1, <1>8 DEF Interrupt, AppRestarts, DeregisterApi, Exit, apiVars
  <2>2. starting # 0 \/ UNCHANGED <<stage, next>>
    BY <1>2, <1>8 DEF Interrupt, AppRestarts, DeregisterApi, Exit
  <2>3. Resolves'
    BY <1>8, <2>1, ResolvesStays DEF QueriesInv, Interrupt, AppRestarts, DeregisterApi, Exit, apiVars
  <2>4. QED
    BY <1>1, <2>1, <2>2, <2>3, ApiStays
<1>9. CASE DeregisterDriver
  <2>1. /\ stage = "stopping" /\ UNCHANGED <<apiVars, exitCode, request>>
        /\ \E d \in DriverSet : ended' = ended \cup {d}
        /\ UNCHANGED <<db, connections, executors, query>>
    BY <1>9 DEF DeregisterDriver, Disconnect, MysqlDisconnect, MssqlDisconnect,
                PostgresDisconnect, Ends, DriverSet
  <2>2. DatabasesTypeOK'
    BY <2>1 DEF QueriesInv, DatabasesTypeOK
  <2>3. QED
    BY <1>1, <1>2, <1>3, <2>1, <2>2, ConnectionsStay DEF Running, apiVars
<1>10. CASE ApiNext /\ UNCHANGED <<stage, next, request>>
  <2>1. CASE CreateServer
    <3>1. /\ UNCHANGED <<databaseVars, exitCode>> /\ starting \in 1..Len(Servers)
          /\ starting' \in {starting + 1, None}
      BY <2>1, ApiServerAssumption, LenProperties DEF CreateServer
    <3>2. starting # 0 /\ starting' # 0
      BY <3>1, DatabasesAssumption, ApiServerAssumption, LenProperties
    <3>3. Resolves'
      BY <1>10, <2>1, <3>2, CreateServerResolves
    <3>4. QED
      BY <1>1, <1>10, <3>1, <3>2, <3>3, ApiStays DEF Running
  <2>2. CASE \E s \in ServerSet : Register(s)
    <3>1. UNCHANGED <<databaseVars, exitCode, starting>> /\ Resolves'
      BY <1>10, <2>2, RegisterResolves DEF Register
    <3>2. starting # 0
      BY <1>1, <2>2, StartedThen DEF Register
    <3>3. QED
      BY <1>1, <1>10, <3>1, <3>2, ApiStays DEF Running
  <2>3. CASE \E w \in DOMAIN Walks : Walk(w)
    <3>1. UNCHANGED <<databaseVars, exitCode, starting, registered, resolved>>
      BY <2>3 DEF Walk
    <3>2. Resolves'
      BY <1>10, <2>3, <3>1, PhasesStay, ResolvesStays DEF QueriesInv
    <3>3. QED
      BY <1>1, <1>10, <3>1, <3>2, ApiStays DEF Running
  <2>4. CASE \E s \in ServerSet : Mount(s) \/ Settled(s)
    <3>1. /\ UNCHANGED <<databaseVars, starting, registered, resolved>>
          /\ exitCode' \in {exitCode, 1} /\ Running
      BY <2>4 DEF Mount, Settled, ForceExit
    <3>2. Resolves'
      BY <1>10, <2>4, <3>1, PhasesStay, ResolvesStays DEF QueriesInv
    <3>3. QED
      BY <1>1, <1>10, <3>1, <3>2, ApiStays
  <2>5. QED
    BY <1>10, <2>1, <2>2, <2>4, <2>3 DEF ApiNext
<1>11. QED
  BY <1>4, <1>5, <1>6, <1>7, <1>8, <1>9, <1>10 DEF ServicesNext, Progress

\* With the databases of the routes in the configuration, everything keeps its type
\* and no query meets a connection that is not there, at whatever point servers come
\* up, restart or stop.
THEOREM QueriesSafe ==
    ASSUME RoutesConfigured
    PROVE  ServicesSpec => [](ServicesTypeOK /\ QueriesFindConnection)
<1>1. QueriesInv => ServicesTypeOK /\ QueriesFindConnection
  BY DEF QueriesInv, ServersInv, ServersTyped, Stages, Awaited, RequestsTyped, Resolves, ApiTypeOK,
         ServicesTypeOK
<1>2. QED
  BY <1>1, QueriesBegin, QueriesStep, PTL DEF ServicesSpec

==================================================================================
