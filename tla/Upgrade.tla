------------------------------ MODULE Upgrade ------------------------------
(* scripts/upgrade: the script that takes the directories of version 1       *)
(* (~/.ark) to those version 2 starts from.  It runs once as a sequence of   *)
(* file operations, any of which may be the last: the script throws, or the  *)
(* machine goes down.  Whoever runs it may run it again.  The directories    *)
(* cache, log and temp are moved like the others and not modelled further.   *)
EXTENDS Configuration

CONSTANTS
    Keys,         \* the CORE_PATH_ variables of ~/.commander
    Originals     \* the required files the installation has a default of

VARIABLES
    old,          \* ~/.ark/config: Absent or what its files hold
    data,         \* ~/.ark and the data directory of version 2
    commander,    \* ~/.commander: Absent or the keys in it
    script,       \* the run of the script
    user,         \* the files the user had (history)
    cut           \* the files a write of which was cut short (history)

vars == <<dir, node, old, data, commander, script, user, cut>>

Required == {"delegates", "peers", "plugins"}

\* The forms of a file: version 1's, version 2's, or with only the names of its
\* variables replaced.
Forms == {"ark", "core", "renamed"}

\* A config directory: what each file holds, seeds or one of the forms
Directories ==
    {d \in [Files -> Forms \cup {Absent, Torn} \cup Seq(Peers)] :
        /\ d.peers \in {Absent, Torn} \cup Seq(Peers)
        /\ \A f \in Files \ {"peers"} : d[f] \in Forms \cup {Absent, Torn}}

\* The data directory of a version, with its .env
DataDirectories == [env : {"ark", Absent}, clutter : BOOLEAN]

ASSUME UpgradeAssumption ==
    /\ Originals \subseteq Required
    /\ {Absent, Torn} \cap (Forms \cup Seq(Peers)) = {}
    /\ Absent \notin Directories \cup DataDirectories
    /\ \A keys \in SUBSET Keys : keys # Absent

Idle == [pc |-> "idle", seen |-> {}, env |-> Absent, renames |-> FALSE]

\* Version 1 as a user may have it: files may be missing, in data there may be
\* things that stand in the way, snapshots of a second network or databases of
\* the same name in two directories.
UpgradeInit ==
    /\ \E list \in UserLists, has \in SUBSET Required, config \in BOOLEAN :
        /\ old = IF ~config THEN Absent
                 ELSE [f \in Files |-> IF f \notin has THEN Absent
                                       ELSE IF f = "peers" THEN list ELSE "ark"]
        /\ \E env \in {"ark", Absent}, clutter \in BOOLEAN :
            /\ data = [old |-> [env |-> env, clutter |-> clutter], new |-> Absent]
            /\ user = [files |-> IF config THEN has ELSE {}, list |-> list, env |-> env]
    /\ \E keys \in SUBSET Keys : commander \in {keys, Absent}
    /\ dir = Absent /\ node = Off /\ script = Idle /\ cut = {}

At(pc) == script.pc = pc

To(pc) == script' = [script EXCEPT !.pc = pc]

-----------------------------------------------------------------------------
(* The steps of main, in their order *)

\* The prompts insist on a directory that exists.  upgrade.sh stops the node
\* first; it renames variables only for two of the three networks.
Begin ==
    /\ At("idle") /\ node.pc = "off" /\ data.old # Absent
    /\ \E renames \in BOOLEAN :
        script' = IF commander = Absent
                  THEN [Idle EXCEPT !.pc = "dirs", !.renames = renames]
                  ELSE [Idle EXCEPT !.pc = "commander", !.renames = renames, !.seen = commander]
    /\ UNCHANGED <<dir, node, old, data, commander, user, cut>>

\* Every key the file did not have is appended to it ...
AppendKey(key) ==
    /\ At("commander") /\ key \notin commander
    /\ commander' = commander \cup {key}
    /\ UNCHANGED <<dir, node, old, data, script, user, cut>>

\* ... and then the file is written as it was read, or not to the end.
WriteCommander ==
    /\ At("commander") /\ Keys \subseteq commander
    /\ \/ commander' = script.seen /\ To("dirs")
       \/ \E part \in SUBSET script.seen : commander' = part /\ To("ended")
    /\ UNCHANGED <<dir, node, old, data, user, cut>>

EnsureDirs ==
    /\ At("dirs")
    /\ dir' = IF dir = Absent THEN NoDirectory ELSE dir
    /\ data' = IF data.new = Absent
               THEN [data EXCEPT !.new = [env |-> Absent, clutter |-> FALSE]] ELSE data
    /\ To("read")
    /\ UNCHANGED <<node, old, commander, user, cut>>

\* Without .env the script exits, having moved nothing.
ReadEnv ==
    /\ At("read")
    /\ script' = [script EXCEPT !.pc = IF data.old.env = Absent THEN "ended" ELSE "config",
                                !.env = data.old.env]
    /\ UNCHANGED <<dir, node, old, data, commander, user, cut>>

\* moveSync with overwrite removes what is there and renames; the new config
\* directory may be gone when the script dies in between.
RemoveConfig ==
    /\ At("config")
    /\ dir' = IF old = Absent THEN dir ELSE Absent
    /\ To("rename")
    /\ UNCHANGED <<node, old, data, commander, user, cut>>

\* Fault: an old directory that is missing is moved too.
RenameConfigAlways ==
    /\ At("rename")
    /\ dir' = old
    /\ old' = Absent
    /\ To("data")
    /\ UNCHANGED <<node, data, commander, user, cut>>

\* The old directory, if there is one, takes its place.
RenameConfig ==
    /\ At("rename")
    /\ dir' = IF old = Absent THEN dir ELSE old
    /\ old' = Absent
    /\ To("data")
    /\ UNCHANGED <<node, data, commander, user, cut>>

\* Fault: what is in the new directory is not overwritten.
MoveDataKeepsNew ==
    /\ At("data")
    /\ data' = [data EXCEPT !.old = Absent]
    /\ To("tidy")
    /\ UNCHANGED <<dir, node, old, commander, user, cut>>

\* The data directory goes last: what is left of it goes with it.
MoveData ==
    /\ At("data")
    /\ data' = [old |-> Absent, new |-> data.old]
    /\ To("tidy")
    /\ UNCHANGED <<dir, node, old, commander, user, cut>>

\* Databases and snapshots move within the new directories; what stands in
\* their way makes the script throw.
Tidy ==
    /\ At("tidy")
    /\ To(IF data.new.clutter THEN "ended" ELSE "copy")
    /\ UNCHANGED <<dir, node, old, data, commander, user, cut>>

\* Writes a file and goes on, unless the script dies while it writes.
Put(f, content, pc) ==
    \/ dir' = [dir EXCEPT ![f] = content] /\ To(pc) /\ UNCHANGED cut
    \/ dir' = [dir EXCEPT ![f] = Torn] /\ To("ended") /\ cut' = cut \cup {f}

Lacking == {f \in Required : dir[f] = Absent}

\* A required file that is missing is copied, if there is an original.
Copy(f) ==
    /\ At("copy") /\ f \in Lacking \cap Originals
    /\ Put(f, IF f = "peers" THEN <<>> ELSE "core", "copy")
    /\ UNCHANGED <<node, old, data, commander, user>>

CopiedAll ==
    /\ At("copy") /\ Lacking \cap Originals = {}
    /\ To("delegates")
    /\ UNCHANGED <<dir, node, old, data, commander, user, cut>>

\* delegates.json is required, which wants it whole; plugins.js is read as text.
Rewritable(f) ==
    \/ f = "delegates" /\ dir[f] \notin {Absent, Torn}
    \/ f = "plugins" /\ dir[f] # Absent
    \/ f = "env"

Rewritten == [delegates |-> "env", env |-> "plugins", plugins |-> "validate"]

\* Fault: .env is copied as it was.
RewriteSame(f) ==
    /\ At(f)
    /\ IF ~Rewritable(f)
       THEN To("ended") /\ UNCHANGED <<dir, cut>>
       ELSE Put(f, IF f = "env" THEN script.env ELSE "core", Rewritten[f])
    /\ UNCHANGED <<node, old, data, commander, user>>

\* delegates.json, .env and plugins.js are rewritten in the form of version 2;
\* the first and the last are read first, .env is written from memory.
Rewrite(f) ==
    /\ At(f)
    /\ IF ~Rewritable(f)
       THEN To("ended") /\ UNCHANGED <<dir, cut>>
       ELSE Put(f, "core", Rewritten[f])
    /\ UNCHANGED <<node, old, data, commander, user>>

\* The three files must be there; what the schema says is only logged.  The
\* clean-up removes the old directories that are left.
Validate ==
    /\ At("validate")
    /\ IF dir.peers \in {Absent, Torn} THEN To("ended") /\ UNCHANGED old
       ELSE To("done") /\ old' = Absent
    /\ UNCHANGED <<dir, node, data, commander, user, cut>>

\* The script throws or dies anywhere.
Die ==
    /\ script.pc \notin {"idle", "done", "ended"}
    /\ To("ended")
    /\ UNCHANGED <<dir, node, old, data, commander, user, cut>>

\* upgrade.sh goes on in any case and renames the variables left in two files,
\* if the network is one of those it knows.
Rename ==
    /\ script.pc \in {"done", "ended"}
    /\ dir' = IF script.renames /\ dir # Absent
              THEN [dir EXCEPT !.env = IF @ = "ark" THEN "core" ELSE @,
                               !.plugins = IF @ = "ark" THEN "renamed" ELSE @]
              ELSE dir
    /\ script' = Idle
    /\ UNCHANGED <<node, old, data, commander, user, cut>>

\* The node starts between runs of the script.
Node ==
    /\ At("idle")
    /\ NodeNext
    /\ cut' = IF Stop /\ node.pc = "writing" THEN cut \cup {"peers"} ELSE cut
    /\ UNCHANGED <<old, data, commander, script, user>>

UpgradeNext ==
    \/ Begin \/ (\E key \in Keys : AppendKey(key)) \/ WriteCommander
    \/ EnsureDirs \/ ReadEnv \/ RemoveConfig \/ RenameConfig \/ MoveData \/ Tidy
    \/ (\E f \in Required : Copy(f)) \/ CopiedAll
    \/ (\E f \in DOMAIN Rewritten : Rewrite(f)) \/ Validate \/ Die \/ Rename \/ Node

UpgradeSpec == UpgradeInit /\ [][UpgradeNext]_vars

-----------------------------------------------------------------------------
(* Properties *)

\* The steps from the move of config on, and all steps
MovedSteps == {"data", "tidy", "copy", "validate", "done"} \cup DOMAIN Rewritten
Steps == MovedSteps \cup {"idle", "commander", "dirs", "read", "config", "rename", "ended"}

\* What a node may know
Nodes == [pc : {"off", "fetching", "writing", "up"}, env : Forms \cup {Absent, Torn},
          plugins : Forms \cup {Absent, Torn}, delegates : Forms \cup {Absent, Torn},
          list : Seq(Peers)]

\* The types of the variables; from the move of config on there is a new config
\* directory, which all later steps use.
UpgradeTypeOK ==
    /\ {dir, old} \subseteq Directories \cup {Absent}
    /\ data \in [old : DataDirectories \cup {Absent}, new : DataDirectories \cup {Absent}]
    /\ commander \in {Absent} \cup SUBSET Keys
    /\ node \in Nodes
    /\ script \in [pc : Steps, seen : SUBSET Keys, env : {"ark", Absent}, renames : BOOLEAN]
    /\ user.files \subseteq Required /\ cut \subseteq Files
    /\ script.pc \in MovedSteps => dir # Absent /\ data.new # Absent

\* However often the script dies, at whatever step, and is run again, and
\* whatever the node does in between, a file the user had is in the old or the
\* new directory, and whole unless a write of that file was cut short, or a
\* start is writing it; and .env is in the old or the new data directory.
\* delegates.json holds the secrets.  (Files and directories are moved with
\* overwrite, written in place and cleaned up: upgrade.js 109-224.)
UserFilesKept ==
    /\ \A f \in user.files : \E d \in {old, dir} \ {Absent} :
        d[f] # Absent /\ (d[f] = Torn => f \in cut \/ (f = "peers" /\ node.pc = "writing"))
    /\ user.env = "ark" => \E d \in {data.old, data.new} \ {Absent} : d.env = "ark"

\* A script that comes to its end leaves a directory the new version starts
\* from, with the environment and the plugins in their new form, although it
\* only logs what its own validation says (upgrade.js 199-216).
DoneIsComplete ==
    At("done") => Loads(dir) /\ dir.env = "core" /\ dir.plugins = "core"

\* The user's seeds stay in peers.json, in their order, through the upgrade and
\* every start, also those that are refused once they have rewritten it, and
\* what is fetched follows, each peer once (buildPeers).  The file is absent
\* only before it is moved, and cannot be read only while a start writes it or
\* after one died of that.
PeersKept ==
    "peers" \in user.files /\ dir # Absent =>
        \/ dir.peers = Absent /\ old # Absent
        \/ dir.peers = Torn /\ ("peers" \in cut \/ node.pc = "writing")
        \/ /\ IsPrefix(user.list, dir.peers)
           /\ \A i \in Len(user.list) + 1 .. Len(dir.peers) :
                ~Contains(SubSeq(dir.peers, 1, i - 1), dir.peers[i])

\* What the script says of itself, "update commander file if present"
\* (upgrade.js:67): after it, ~/.commander has all paths.  It does not.
CommanderUpdated ==
    At("done") /\ commander # Absent => Keys \subseteq commander

=============================================================================
