-------------------------------- MODULE Databases --------------------------------
(***********************************************************************************)
(* The connections of database-mysql, database-mssql and database-postgres, as     *)
(* the ConnectionManager makes them and their executors query them. mysql and      *)
(* mssql connect in the background: make() is over before the callback of connect  *)
(* says how it went. The pool of postgres connects when it is queried.             *)
(***********************************************************************************)
EXTENDS Naturals, Sequences

CONSTANTS
    Drivers,      \* the plugins of the configuration, in its order
    Clients,      \* the calls of a query executor under way
    None

DriverSet == {Drivers[i] : i \in DOMAIN Drivers}

ASSUME DatabasesAssumption ==
    /\ Drivers \in Seq({"mysql", "mssql", "postgres"})
    /\ None \notin Nat /\ None \notin DriverSet

VARIABLES
    db,           \* db[d]: the state of the connection of driver d
    connections,  \* the drivers that are registered: in the map of the ConnectionManager
                  \* and, by the same step of the set up, in the container
    executors,    \* the drivers whose query executor is registered
    ended,        \* the drivers whose connection was told to end
    query,        \* query[c]: the query of client c
    exitCode      \* what the process exited with, or None

databaseVars == <<db, connections, executors, ended, query>>

Idle == [driver |-> None, at |-> "idle"]

DatabasesTypeOK ==
    /\ db \in [DriverSet -> {"none", "connecting", "open", "lost"}]
    /\ {connections, executors, ended} \subseteq SUBSET DriverSet
    /\ query \in [Clients -> {Idle} \cup
                    [driver : DriverSet, at : {"running", "answered", "failed", "unregistered"}]]
    /\ exitCode \in {None, 0, 1}

Running == exitCode = None

\* The logger is registered before any driver: forceExit ends the process.
ForceExit == exitCode' = 1 /\ UNCHANGED databaseVars

---------------------------------------------------------------------------------
(* make(), connect() and the callback of connect *)

\* Fault: the executor is registered by nobody.
OpensOnly(d, state) ==
    /\ db' = [db EXCEPT ![d] = state]
    /\ connections' = connections \cup {d}
    /\ UNCHANGED <<ended, executors, query, exitCode>>

Opens(d, state) ==
    /\ db' = [db EXCEPT ![d] = state]
    /\ executors' = executors \cup {d}
    /\ connections' = connections \cup {d}
    /\ UNCHANGED <<ended, query, exitCode>>

MysqlMake    == Opens("mysql", "connecting")
MssqlMake    == Opens("mssql", "connecting")
PostgresMake == Opens("postgres", "open")

\* make() refuses a second connection; options it cannot use end the process.
CreateConnection(d) ==
    /\ db[d] = "none"
    /\ \/ d = "mysql" /\ MysqlMake
       \/ d = "mssql" /\ MssqlMake
       \/ d = "postgres" /\ PostgresMake
       \/ ForceExit

\* Also after disconnect(), which then is queued behind the handshake
Connected(d) ==
    /\ Running
    /\ db[d] = "connecting"
    /\ \/ /\ db' = [db EXCEPT ![d] = "open"]
          /\ UNCHANGED <<connections, executors, ended, query, exitCode>>
       \/ ForceExit

UnderWay(d) == {c \in Clients : query[c] = [driver |-> d, at |-> "running"]}

\* The server closes the connection: nobody listens to the error of mysql's, which
\* ends the process unless queries are there to take it; no code connects again.
ConnectionLost ==
    /\ Running
    /\ "mysql" \in DriverSet \ ended /\ db["mysql"] = "open"
    /\ IF UnderWay("mysql") = {} THEN ForceExit
       ELSE /\ db' = [db EXCEPT !["mysql"] = "lost"]
            /\ query' = [c \in Clients |-> IF c \in UnderWay("mysql")
                                           THEN [query[c] EXCEPT !.at = "failed"] ELSE query[c]]
            /\ UNCHANGED <<connections, executors, ended, exitCode>>

---------------------------------------------------------------------------------
(* disconnect(): the end is not awaited *)

Ends(d) ==
    /\ ended' = ended \cup {d}
    /\ UNCHANGED <<db, connections, executors, query>>

MysqlDisconnect    == Ends("mysql")
MssqlDisconnect    == Ends("mssql")
PostgresDisconnect == Ends("postgres")

Disconnect(d) ==
    \/ d = "mysql" /\ MysqlDisconnect
    \/ d = "mssql" /\ MssqlDisconnect
    \/ d = "postgres" /\ PostgresDisconnect

---------------------------------------------------------------------------------
(* query.any() and its kin *)

\* mysql queues a query until the connection stands, mssql and a lost connection
\* reject it at once, the pool of postgres connects for it.
MysqlTakes    == "mysql" \notin ended /\ db["mysql"] # "lost"
MssqlTakes    == "mssql" \notin ended /\ db["mssql"] = "open"
PostgresTakes == "postgres" \notin ended

Takes(d) ==
    \/ d = "mysql" /\ MysqlTakes
    \/ d = "mssql" /\ MssqlTakes
    \/ d = "postgres" /\ PostgresTakes

\* The caller has found the drivers "found". A driver it has not found, or whose
\* executor is undefined, throws a TypeError.
Any(c, d, found) ==
    /\ query' = [query EXCEPT ![c] =
                    [driver |-> d,
                     at |-> CASE d \notin found \cap executors -> "unregistered"
                              [] Takes(d) -> "running"
                              [] OTHER -> "failed"]]
    /\ UNCHANGED <<db, connections, executors, ended, exitCode>>

\* The callback settles the promise once: after reject(error), resolve() is void.
QuerySettles(c) ==
    /\ Running
    /\ query[c].at = "running"
    /\ \E at \in {"failed"} \cup (IF db[query[c].driver] = "open" THEN {"answered"} ELSE {}) :
           query' = [query EXCEPT ![c].at = at]
    /\ UNCHANGED <<db, connections, executors, ended, exitCode>>

DatabasesInit ==
    /\ db = [d \in DriverSet |-> "none"]
    /\ connections = {} /\ executors = {} /\ ended = {}
    /\ query = [c \in Clients |-> Idle]
    /\ exitCode = None

DatabasesNext ==
    \/ \E d \in DriverSet : Connected(d)
    \/ \E c \in Clients : QuerySettles(c)
    \/ ConnectionLost
==================================================================================
