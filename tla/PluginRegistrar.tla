----------------------------- MODULE PluginRegistrar -----------------------------
(***********************************************************************************)
(* registrars/plugin.ts: how the plugins of the configuration are registered with  *)
(* the container, the plugins they extend and depend on first, and deregistered.   *)
(*                                                                                 *)
(* The nested calls of registerWithContainer are a stack of frames; a frame names  *)
(* the part of the function it is about to run. The calls of tearDown iterate over *)
(* one live array, which each of them reverses in place when it starts.            *)
(***********************************************************************************)
EXTENDS Naturals, Sequences, SequencesExt

CONSTANTS
    Plugins,
    Listed,          \* the plugins of the configuration, in its order
    Include,         \* options of the registrar: the plugins to include, or None
    Exclude,         \* ... the plugins to exclude, or None
    ExitAt,          \* ... the plugin to stop after, or None
    Extends,         \* Extends[p]: the plugin p extends, or None
    Depends,         \* Depends[p]: the plugin p depends on, or None
    Required,        \* the plugins that are required
    Loadable,        \* the plugins require() finds
    Registrable,     \* the plugins with a register function
    Versioned,       \* the plugins with a valid semantic version
    Deregistrable,   \* the plugins with a deregister function
    LoggerPlugin,    \* the plugin that provides "logger"
    TearDowns,       \* identities of concurrent tearDown calls
    None

ASSUME RegistrarAssumption ==
    /\ Listed \in Seq(Plugins)
    /\ {Extends, Depends} \subseteq [Plugins -> Plugins \cup {None}]
    /\ None \notin Plugins /\ None \notin Nat
    /\ LoggerPlugin \in Plugins

VARIABLES
    \* the registrar and the registry of the container
    next,          \* the entry of Listed the loop of setUp looks at next
    stack,         \* the calls of registerWithContainer, innermost first
    registry,      \* the plugins registered with the container
    failed,        \* failedPlugins
    deregister,    \* the array of plugins to deregister
    tearing,       \* tearing[t]: the array index the tearDown call awaits, 0 before it
                   \* starts, None once it has rejected
    \* the fields of the container the registrar uses
    shuttingDown,
    exitCode,      \* what the process exited with, or None
    rejected,      \* setUp has rejected
    \* history
    order,         \* the plugins in the order their registration ended
    torn           \* the plugins in the order their deregister was called

registrarVars == <<next, stack, registry, failed, deregister, tearing, order, torn>>
processVars == <<shuttingDown, exitCode, rejected>>

Frame == [plugin : Plugins, at : {"extends", "depends", "register", "registering"}]

RegistrarTypeOK ==
    /\ next \in 1..Len(Listed) + 1
    /\ stack \in Seq(Frame)
    /\ registry \subseteq Plugins
    /\ failed \subseteq Plugins
    /\ deregister \in Seq(Deregistrable)
    /\ tearing \in [TearDowns -> 0..Len(deregister) + 1 \cup {None}]
    /\ shuttingDown \in BOOLEAN
    /\ exitCode \in {None, 0, 1}
    /\ rejected \in BOOLEAN
    /\ order \in Seq(registry)
    /\ torn \in Seq(Deregistrable)

---------------------------------------------------------------------------------
(* Helpers *)

Running == exitCode = None

\* exclude overrides include
ShouldBeRegistered(p) ==
    IF Exclude # None THEN p \notin Exclude ELSE Include # None => p \in Include

\* The call registerWithContainer(p) from a frame that leaves below on the stack: a
\* module that is not found has failed, one without a register function is ignored.
Enter(p, below) ==
    /\ stack' = IF p \in Loadable \cap Registrable
                THEN <<[plugin |-> p, at |-> "extends"]>> \o below
                ELSE below
    /\ failed' = IF p \in Loadable THEN failed ELSE failed \cup {p}

Returns == stack' = Tail(stack)

\* An error nobody catches rejects every call on the stack, and setUp with them.
Throws == stack' = <<>> /\ rejected' = TRUE

\* exit(): the logger is looked up and used; without one the call throws before it
\* ends the process.
ForceExit ==
    /\ shuttingDown' = TRUE
    /\ \/ LoggerPlugin \in registry /\ exitCode' = 1 /\ UNCHANGED <<stack, rejected>>
       \/ LoggerPlugin \notin registry /\ Throws /\ UNCHANGED exitCode

AtFrame(at) == Running /\ stack # <<>> /\ Head(stack).at = at

\* The innermost call goes on to its next part and calls itself for q, if any.
GoOn(at, q) ==
    LET rest == <<[Head(stack) EXCEPT !.at = at]>> \o Tail(stack)
    IN  IF q = None THEN stack' = rest /\ UNCHANGED failed ELSE Enter(q, rest)

---------------------------------------------------------------------------------
(* setUp() and register() *)

LoopEnds ==
    \/ next > Len(Listed)
    \/ next > 1 /\ (Listed[next - 1] = ExitAt \/ shuttingDown)

\* Setting up: the loop of setUp() calls register() for the next plugin
NextPlugin ==
    /\ Running /\ ~rejected
    /\ stack = <<>>
    /\ ~LoopEnds
    /\ next' = next + 1
    /\ IF ShouldBeRegistered(Listed[next])
       THEN Enter(Listed[next], <<>>)
       ELSE UNCHANGED <<stack, failed>>
    /\ UNCHANGED <<registry, deregister, tearing, order, torn, processVars>>

(* registerWithContainer() *)

\* Fault: the extended plugin is left to its own entry in the configuration.
CallExtendedNever ==
    /\ AtFrame("extends")
    /\ GoOn("depends", None)
    /\ UNCHANGED <<next, registry, deregister, tearing, order, torn, processVars>>

CallExtended ==
    /\ AtFrame("extends")
    /\ GoOn("depends", Extends[Head(stack).plugin])
    /\ UNCHANGED <<next, registry, deregister, tearing, order, torn, processVars>>

\* A dependency that has failed is not tried again, nor does it stop the plugin.
CallDepended ==
    /\ AtFrame("depends")
    /\ LET q == Depends[Head(stack).plugin]
       IN  GoOn("register", IF q \in failed THEN None ELSE q)
    /\ UNCHANGED <<next, registry, deregister, tearing, order, torn, processVars>>

\* Fault: the registry is not looked up.
CallRegisterAgain ==
    /\ AtFrame("register")
    /\ stack' = [stack EXCEPT ![1].at = "registering"]
    /\ UNCHANGED <<next, registry, failed, deregister, tearing, order, torn, processVars>>

\* The registry is looked up, the version checked, plugin.register called
CallRegister ==
    /\ AtFrame("register")
    /\ LET p == Head(stack).plugin
       IN  \/ p \in registry /\ Returns /\ UNCHANGED rejected
           \/ p \notin registry /\ p \notin Versioned /\ Throws
           \/ /\ p \notin registry /\ p \in Versioned
              /\ stack' = [stack EXCEPT ![1].at = "registering"]
              /\ UNCHANGED rejected
    /\ UNCHANGED <<next, registry, failed, deregister, tearing, order, torn,
                   shuttingDown, exitCode>>

RegisterResolves ==
    /\ AtFrame("registering")
    /\ LET p == Head(stack).plugin
       IN  /\ registry' = registry \cup {p}
           /\ deregister' = IF p \in Deregistrable THEN Append(deregister, p) ELSE deregister
           /\ order' = Append(order, p)
    /\ Returns
    /\ UNCHANGED <<next, failed, tearing, torn, processVars>>

\* Fault: a required plugin that fails is treated like an optional one.
RegisterRejectsQuietly ==
    /\ AtFrame("registering")
    /\ failed' = failed \cup {Head(stack).plugin}
    /\ Returns
    /\ UNCHANGED <<next, registry, deregister, tearing, order, torn, processVars>>

RegisterRejects ==
    /\ AtFrame("registering")
    /\ LET p == Head(stack).plugin
       IN  \/ /\ p \in Required
              /\ ForceExit
              /\ UNCHANGED failed
           \/ /\ p \notin Required
              /\ failed' = failed \cup {p}
              /\ Returns
              /\ UNCHANGED processVars
    /\ UNCHANGED <<next, registry, deregister, tearing, order, torn>>

---------------------------------------------------------------------------------
(* tearDown() *)

\* Fault: the array is not reversed.
TearDownStartsForward(t) ==
    /\ tearing[t] = 0
    /\ tearing' = [tearing EXCEPT ![t] = 1]
    /\ torn' = IF deregister = <<>> THEN torn ELSE Append(torn, Head(deregister))
    /\ UNCHANGED <<next, stack, registry, failed, deregister, order>>

TearDownStarts(t) ==
    /\ tearing[t] = 0
    /\ deregister' = Reverse(deregister)
    /\ tearing' = [tearing EXCEPT ![t] = 1]
    /\ torn' = IF deregister = <<>> THEN torn ELSE Append(torn, Last(deregister))
    /\ UNCHANGED <<next, stack, registry, failed, order>>

TearingDown(t) == Running /\ tearing[t] \in 1..Len(deregister)

\* Fault: deregistered plugins leave the array that is iterated over.
DeregisterResolvesSkipping(t) ==
    /\ TearingDown(t)
    /\ tearing' = [tearing EXCEPT ![t] = @ + 2]
    /\ torn' = IF tearing[t] + 2 <= Len(deregister)
               THEN Append(torn, deregister[tearing[t] + 2]) ELSE torn
    /\ UNCHANGED <<next, stack, registry, failed, deregister, order, processVars>>

\* The deregister function of the plugin at the index ends: the next one is called
DeregisterResolves(t) ==
    /\ TearingDown(t)
    /\ tearing' = [tearing EXCEPT ![t] = @ + 1]
    /\ torn' = IF tearing[t] < Len(deregister)
               THEN Append(torn, deregister[tearing[t] + 1]) ELSE torn
    /\ UNCHANGED <<next, stack, registry, failed, deregister, order, processVars>>

\* A deregister function that fails rejects the tearDown call: the loop is over.
DeregisterRejects(t) ==
    /\ TearingDown(t)
    /\ tearing' = [tearing EXCEPT ![t] = None]
    /\ UNCHANGED <<next, stack, registry, failed, deregister, order, torn, processVars>>

TornDown(t) == tearing[t] = Len(deregister) + 1

---------------------------------------------------------------------------------

RegistrarInit ==
    /\ next = 1
    /\ stack = <<>>
    /\ registry = {}
    /\ failed = {}
    /\ deregister = <<>>
    /\ tearing = [t \in TearDowns |-> 0]
    /\ shuttingDown = FALSE
    /\ exitCode = None
    /\ rejected = FALSE
    /\ order = <<>>
    /\ torn = <<>>

SetUpStep ==
    \/ NextPlugin
    \/ CallExtended
    \/ CallDepended
    \/ CallRegister
    \/ RegisterResolves
==================================================================================
