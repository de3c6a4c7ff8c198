------------------------------- MODULE MCContainer -------------------------------
(* The plugins of the testnet configuration of packages/core, and one optional     *)
(* plugin of a third party that depends on the wallet api.                         *)
EXTENDS Container

CONSTANTS
    logManager, logger, emitter, dbManager, mysql, mssql, p2p, api, addon

MCPlugins == {logManager, logger, emitter, dbManager, mysql, mssql, p2p, api, addon}
MCListed  == <<logger, emitter, mysql, mssql, p2p, addon, api>>

Only(p, q) == [x \in MCPlugins |-> IF x = p THEN q ELSE None]

MCExtends ==
    [p \in MCPlugins |-> CASE p = logger -> logManager
                           [] p \in {mysql, mssql} -> dbManager
                           [] OTHER -> None]
MCDepends == Only(addon, api)

MCRequired      == {logger, emitter, mysql, mssql, p2p}
MCDeregistrable == {mysql, mssql, p2p, api, addon}

\* A relay whose event emitter is not installed, whose database manager registers
\* nothing and whose options leave one database out.
MCLoadable    == MCPlugins \ {emitter}
MCRegistrable == MCPlugins \ {dbManager}
MCInclude     == {logger, emitter, mysql, p2p, api, addon}
MCExclude     == {mssql}
==================================================================================
