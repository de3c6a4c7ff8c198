--------------------------- MODULE Configuration ---------------------------
(* packages/container: how a node reads its configuration when it starts     *)
(* (environment.ts, config/index.ts, config/file-loader.ts) and rewrites its *)
(* list of seeds.  What the directory holds survives the node; a file is     *)
(* truncated before it is written, so a crash can leave it torn.             *)
EXTENDS Naturals, SequencesExt

CONSTANTS
    Absent,       \* no such file or directory
    Torn,         \* a file whose writing was cut short
    Peers,        \* seeds, each an ip and a port
    UserLists,    \* what the user's peers.json may list
    Fetched,      \* what the first source that answers may return
    Networks      \* the names of the networks the crypto package knows

ASSUME ConfigurationAssumption ==
    Absent # Torn /\ UserLists \cup Fetched \subseteq Seq(Peers)

VARIABLES
    dir,          \* CORE_PATH_CONFIG: Absent, or what each of its files holds
    node          \* the node that starts from it

Files == {"peers", "plugins", "delegates", "env"}

NoDirectory == [f \in Files |-> Absent]

Off == [pc |-> "off", env |-> Absent, plugins |-> Absent, delegates |-> Absent, list |-> <<>>]

\* FileLoader wants the seeds and the plugins, and requires every file there is.
Reads(d) ==
    /\ d # Absent
    /\ d.peers \notin {Absent, Torn}
    /\ d.plugins # Absent
    /\ d.delegates # Torn

\* The schema allows no keys of delegates.json that only the old version had.
Accepts(delegates) == delegates # "ark"

\* A directory that a node starts from, whatever the sources answer.
Loads(d) == Reads(d) /\ Accepts(d.delegates)

Added(list, peer) == IF Contains(list, peer) THEN list ELSE Append(list, peer)

\* buildPeers: a fetched peer is appended unless it is in the list by then.
Merge(list, fetched) ==
    LET merged[n \in 0..Len(fetched)] ==
            IF n = 0 THEN list ELSE Added(merged[n - 1], fetched[n])
    IN  merged[Len(fetched)]

\* Environment.setUp and Config.setUp up to the first await.  The variables of
\* .env are taken if the file is there, whatever is left of it; of a torn
\* plugins.js nothing may be left, which is a module without plugins.
Load(network) ==
    /\ node.pc = "off" /\ network \in Networks /\ Reads(dir)
    /\ node' = [pc |-> "fetching", env |-> dir.env, plugins |-> dir.plugins,
                delegates |-> dir.delegates, list |-> dir.peers]
    /\ UNCHANGED dir

\* Any other start throws before the sources are asked, having made the
\* directory if there was none: the network has no configuration, or a file is
\* missing or cannot be required.
LoadFails ==
    /\ node.pc = "off"
    /\ dir' = IF dir = Absent THEN NoDirectory ELSE dir
    /\ UNCHANGED node

\* The files are validated last, when peers.json is already rewritten; what is
\* not accepted ends the start.
Validated(delegates) == IF Accepts(delegates) THEN [node EXCEPT !.pc = "up"] ELSE Off

\* The sources are asked in turn; none may answer, and a list without sources
\* asks none.
NothingFetched ==
    /\ node.pc = "fetching"
    /\ node' = Validated(node.delegates)
    /\ UNCHANGED dir

\* Fault: the list is replaced.
FetchReplaces(fetched) ==
    /\ node.pc = "fetching"
    /\ node' = [node EXCEPT !.pc = "writing", !.list = fetched]
    /\ dir' = [dir EXCEPT !.peers = Torn]

\* The list is merged in memory and its file opened, which truncates it.
Fetch(fetched) ==
    /\ node.pc = "fetching"
    /\ node' = [node EXCEPT !.pc = "writing", !.list = Merge(node.list, fetched)]
    /\ dir' = [dir EXCEPT !.peers = Torn]

WritePeers ==
    /\ node.pc = "writing"
    /\ node' = Validated(node.delegates)
    /\ dir' = [dir EXCEPT !.peers = node.list]

\* The node stops or crashes.
Stop ==
    /\ node.pc # "off"
    /\ node' = Off
    /\ UNCHANGED dir

NodeNext ==
    \/ (\E network \in Networks : Load(network)) \/ LoadFails
    \/ NothingFetched \/ (\E fetched \in Fetched : Fetch(fetched)) \/ WritePeers \/ Stop

=============================================================================
