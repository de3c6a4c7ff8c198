------------------------------- MODULE MCServices -------------------------------
(* All three drivers, and two servers that await the registration of the routes    *)
(* and another one behind it, on which the routes rely.                            *)
EXTENDS Services

MCDrivers       == <<"postgres", "mysql", "mssql">>
MCServers       == <<"http", "https">>
MCRegistrations == <<"handlers", "session">>
==================================================================================
