------------------------------ MODULE Commands ------------------------------
(* packages/core: the command line.  Every command is a process of the       *)
(* operating system: it runs the init hook, which makes sure of the file     *)
(* config.json (helpers/config.ts), finds the name of the node's process     *)
(* (commands/command.ts) and, for core:stop, asks pm2 about that process     *)
(* before it acts on it.  Commands may overlap, and each may die between any *)
(* two calls.  A write of the file truncates it first.                       *)
EXTENDS Naturals, Sequences

CONSTANTS
    Commands,     \* the slots for commands that run at the same time
    Tokens,       \* the tokens a file or a flag may name
    Flags,        \* the ones flags do name
    Bin,          \* config.bin, the token of a new file
    None,         \* undefined
    Missing,      \* there is no file
    Broken,       \* the file is empty or no JSON
    Releases      \* the channels of the releases installed over time

\* What config.json holds; a next release adds the channel to a file without token.
Files == [token : Tokens \cup {None}, channel : Releases \cup {"next"}]

ASSUME CommandsAssumption ==
    /\ Bin \in Tokens /\ Flags \subseteq Tokens
    /\ None \notin Tokens \cup Releases
    /\ {Missing, Broken} \cap Files = {}

VARIABLES
    file,         \* config.json: Missing, Broken or what it holds
    command,      \* each slot's command
    status,       \* pm2's status of the process of each token
    configured,   \* the token the user relies on (history)
    harmed        \* a write was cut short, mixed or read half done (history)

vars == <<file, command, status, configured, harmed>>

\* "run" is core:start, which sets the container up in this process and asks pm2
\* nothing; "stop" and "delete" are core:stop without and with --daemon.
Kinds == {"run", "stop", "delete"}

\* The checks core:stop makes, in order.
Checks == <<"missing", "unknown", "stopped">>

Questions == {"missing", "unknown", "stopped"}

Readable(f) == f \notin {Missing, Broken}

\* get(key): a file that cannot be read has no keys.
Get(key) == IF Readable(file) THEN file[key] ELSE None

\* What a slot knows before its command begins; the kind of a command matters
\* from its body on and is chosen there.
Idle == [pc |-> "idle", kind |-> "run", release |-> None, pending |-> None,
         then |-> "hook", held |-> FALSE, token |-> None, alone |-> TRUE]

CommandsInit ==
    /\ \/ file = Missing /\ configured = Bin
       \/ \E token \in Tokens, channel \in Releases :
            file = [token |-> token, channel |-> channel] /\ configured = token
    /\ command = [c \in Commands |-> Idle]
    /\ status = [t \in Tokens \cup {None} |-> "missing"]
    /\ harmed = FALSE

At(c, pc) == command[c].pc = pc

Active(c) == ~At(c, "idle")

\* The command is between its decision to write the file and the end of that.
Replacing(c) == command[c].pc \in {"touch", "truncate", "write"}

To(c, pc) ==
    command' = [command EXCEPT ![c] = IF pc = "idle" THEN Idle ELSE [@ EXCEPT !.pc = pc]]

\* A command that reads the file while another one is replacing it sees less
\* than either version.
Read(c) == harmed' = (harmed \/ (~Readable(file) /\ \E d \in Commands \ {c} : Replacing(d)))

Begin(c, release) ==
    LET others == {d \in Commands : Active(d)}
    IN  /\ At(c, "idle")
        /\ command' = [d \in Commands |->
                IF d = c THEN [Idle EXCEPT !.pc = "setup", !.release = release,
                                           !.alone = others = {}]
                ELSE IF d \in others THEN [command[d] EXCEPT !.alone = FALSE]
                ELSE command[d]]
        /\ UNCHANGED <<file, status, configured, harmed>>

-----------------------------------------------------------------------------
(* The init hook *)

\* Fault: a file that exists is taken to be good.
EnsureDefaultsIfMissing(c) ==
    /\ At(c, "setup")
    /\ To(c, IF file = Missing THEN "remove" ELSE "hook")
    /\ Read(c)
    /\ UNCHANGED <<file, status, configured>>

\* ensureDefaults: what cannot be read is removed and written anew.
EnsureDefaults(c) ==
    /\ At(c, "setup")
    /\ To(c, IF Readable(file) THEN "hook" ELSE "remove")
    /\ Read(c)
    /\ UNCHANGED <<file, status, configured>>

\* Fault: getRegistryChannel knows no channel but next.
RemoveNoChannel(c) ==
    /\ At(c, "remove")
    /\ file' = Missing
    /\ command' = [command EXCEPT ![c].pc = "touch", ![c].then = "hook",
                        ![c].pending = [token |-> Bin, channel |-> None]]
    /\ UNCHANGED <<status, configured, harmed>>

\* removeSync.  Who has the file open goes on writing what no path leads to.
Remove(c) ==
    /\ At(c, "remove")
    /\ file' = Missing
    /\ command' = [d \in Commands |->
            IF d # c THEN [command[d] EXCEPT !.held = FALSE]
            ELSE [command[c] EXCEPT !.pc = "touch", !.then = "hook",
                    !.pending = [token |-> Bin, channel |-> command[c].release]]]
    /\ UNCHANGED <<status, configured, harmed>>

\* ensureFileSync leaves a file that exists alone.
Touch(c) ==
    /\ At(c, "touch")
    /\ file' = IF file = Missing THEN Broken ELSE file
    /\ To(c, "truncate")
    /\ UNCHANGED <<status, configured, harmed>>

\* The first half of writeJsonSync.
Truncate(c) ==
    /\ At(c, "truncate")
    /\ file' = Broken
    /\ command' = [command EXCEPT ![c].pc = "write", ![c].held = TRUE]
    /\ UNCHANGED <<status, configured, harmed>>

\* Its second half.  Over what another command wrote since, the end of the
\* longer text may remain.
Write(c) ==
    LET new == command[c].pending
        mixes == Readable(file) /\ file # new
    IN  /\ At(c, "write")
        /\ \/ command[c].held /\ file' = new /\ UNCHANGED harmed
           \/ command[c].held /\ mixes /\ file' = Broken /\ harmed' = TRUE
           \/ ~command[c].held /\ UNCHANGED <<file, harmed>>
        /\ To(c, command[c].then)
        /\ UNCHANGED <<status, configured>>

\* The hook of a next release wants that channel in the file.
SelectChannel(c) ==
    /\ At(c, "hook")
    /\ To(c, IF command[c].release = "next" /\ Get("channel") # "next"
                THEN "update" ELSE "parse")
    /\ Read(c)
    /\ UNCHANGED <<file, status, configured>>

\* Fault: only the new key is written.
UpdateAlone(c) ==
    /\ At(c, "update")
    /\ command' = [command EXCEPT ![c].pc = "truncate", ![c].then = "parse",
                        ![c].pending = [token |-> None, channel |-> "next"]]
    /\ UNCHANGED <<file, status, configured, harmed>>

\* update: what the file holds now, with the new channel, is the next file.
Update(c) ==
    /\ At(c, "update")
    /\ command' = [command EXCEPT ![c].pc = "truncate", ![c].then = "parse",
                        ![c].pending = [token |-> Get("token"), channel |-> "next"]]
    /\ Read(c)
    /\ UNCHANGED <<file, status, configured>>

-----------------------------------------------------------------------------
(* The body *)

\* parseWithNetwork: the token is the flag's or the file's.  A configuration
\* path that does not exist, or that no network is named after, is an error
\* unless a flag names the network.
Parse(c) ==
    /\ At(c, "parse")
    /\ \/ \E kind \in Kinds, flag \in Flags \cup {None} :
            /\ IF flag = None THEN Read(c) ELSE UNCHANGED harmed
            /\ command' = [command EXCEPT ![c] =
                    [Idle EXCEPT !.kind = kind, !.alone = command[c].alone,
                        !.token = IF flag = None THEN Get("token") ELSE flag,
                        !.pc = IF kind = "run" THEN "app" ELSE Head(Checks)]]
       \/ \E path \in {"absent", "foreign"} : To(c, "error") /\ Read(c)
    /\ UNCHANGED <<file, status, configured>>

Status(c) == status[command[c].token]

\* What foreman says of a status; one outside its list is unknown, also that
\* of a process that is no longer there.
Aborts(check, s) ==
    \/ check = "missing" /\ s = "missing"
    \/ check = "unknown" /\ s \in {"missing", "strange"}
    \/ check = "stopped" /\ s = "stopped"

\* Fault: the first check that lets the command through is the last.
AfterFirst(check) == "act"

\* What follows a check that let the command through: the next one, or the act.
After(check) ==
    LET i == CHOOSE j \in DOMAIN Checks : Checks[j] = check
    IN  IF i = Len(Checks) THEN "act" ELSE Checks[i + 1]

\* One question to pm2.
Check(c) ==
    LET check == command[c].pc
    IN  /\ check \in Questions
        /\ To(c, IF Aborts(check, Status(c)) THEN "error" ELSE After(check))
        /\ UNCHANGED <<file, status, configured, harmed>>

Becomes == [stop |-> "stopped", delete |-> "missing"]

\* pm2 does what it is told, or refuses when there is no such process; the
\* command reports either.
Act(c) ==
    /\ At(c, "act")
    /\ \/ /\ Status(c) # "missing"
          /\ status' = [status EXCEPT ![command[c].token] = Becomes[command[c].kind]]
          /\ To(c, "idle")
       \/ Status(c) = "missing" /\ To(c, "error") /\ UNCHANGED status
    /\ UNCHANGED <<file, configured, harmed>>

\* run hands over to the container; an error ends the command.
End(c) ==
    /\ command[c].pc \in {"app", "error"}
    /\ To(c, "idle")
    /\ UNCHANGED <<file, status, configured, harmed>>

\* The command dies; what it was writing stays as it is.
Crash(c) ==
    /\ Active(c)
    /\ To(c, "idle")
    /\ harmed' = (harmed \/ At(c, "write"))
    /\ UNCHANGED <<file, status, configured>>

\* Outside of the commands, none of which starts a process under pm2: the user
\* has pm2 start one, which fails for good or is lost track of while pm2
\* restarts it.
Pm2(t) ==
    /\ \/ status[t] # "online" /\ status' = [status EXCEPT ![t] = "online"]
       \/ status[t] = "online" /\ \E s \in {"errored", "strange"} : status' = [status EXCEPT ![t] = s]
    /\ UNCHANGED <<file, command, configured, harmed>>

CommandsNext ==
    \/ \E c \in Commands :
        \/ \E release \in Releases : Begin(c, release)
        \/ EnsureDefaults(c) \/ Remove(c) \/ Touch(c) \/ Truncate(c) \/ Write(c)
        \/ SelectChannel(c) \/ Update(c) \/ Parse(c)
        \/ Check(c) \/ Act(c) \/ End(c) \/ Crash(c)
    \/ \E t \in Tokens \cup {None} : Pm2(t)

CommandsSpec == CommandsInit /\ [][CommandsNext]_vars

-----------------------------------------------------------------------------
(* Properties *)

\* What a command may be at and know.
Slots ==
    LET Pcs == {"idle", "setup", "remove", "touch", "truncate", "write", "hook",
                "update", "parse", "act", "app", "error"} \cup Questions
    IN  [pc : Pcs, kind : Kinds, release : Releases \cup {None},
         pending : Files \cup {None}, then : {"hook", "parse"}, held : BOOLEAN,
         token : Tokens \cup {None}, alone : BOOLEAN]

\* The types of the variables; a file that a command writes always has a
\* channel, though not always a token.
CommandsTypeOK ==
    /\ file \in {Missing, Broken} \cup Files
    /\ command \in [Commands -> Slots]
    /\ status \in [Tokens \cup {None} ->
            {"missing", "online", "stopped", "errored", "strange"}]
    /\ configured \in Tokens /\ harmed \in BOOLEAN

\* Whatever crashed or raced before, a command whose hook ran while no other
\* command did has a file that can be read, with the channel of a next
\* release, when its body begins (hooks/init/config.ts, ensureDefaults).
AloneRepairs ==
    \A c \in Commands :
        At(c, "parse") /\ command[c].alone =>
            Readable(file) /\ (command[c].release = "next" => file.channel = "next")

\* The token of the file, which the names of all processes and paths are made
\* of, never changes, nor gets lost with the file (ConfigManager.update keeps
\* what it read; only an unreadable file is reset).  Said of a token other
\* than the default one, to which a reset returns the file anyway, and until a
\* write is cut short by the death of its command, mixes with another one, or
\* is read half done: in those three cases the code does lose the token.
TokenKept ==
    harmed \/ configured = Bin \/
        IF Readable(file) THEN file.token = configured
        ELSE \E c \in Commands : At(c, "write") /\ command[c].pending.token = configured

\* A core:stop that ran alone never stops or deletes a process that is missing
\* or that was stopped, as the checks of shared/stop.ts promise, though the
\* process may fail or come back between any two of them.  With another command
\* beside it the answer is stale when used, and pm2 refuses the call.
AloneActs ==
    \A c \in Commands :
        At(c, "act") /\ command[c].alone => Status(c) \notin {"missing", "stopped"}

=============================================================================
