-------------------------------- MODULE Container --------------------------------
(***********************************************************************************)
(* container.ts around the PluginRegistrar: setUp() from its call to isReady, the  *)
(* handler of SIGINT and "exit", tearDown() as the application may call it, and    *)
(* forceExit() as a plugin may call it at any time once it is loaded. A process    *)
(* that ends otherwise (an uncaught exception, a kill) is left out.                *)
(***********************************************************************************)
EXTENDS PluginRegistrar

CONSTANTS
    Faults,         \* what may go wrong: a subset of FaultKinds
    AppTearsDown    \* the application calls tearDown() itself

FaultKinds == {"version", "config", "register", "deregister", "runtime"}

ASSUME ContainerAssumption ==
    /\ Faults \subseteq FaultKinds
    /\ AppTearsDown \in BOOLEAN
    /\ TearDowns = {"exit", "app"}

VARIABLES
    stage,    \* where setUp() is: "new", "configuring", "plugins" or "done"
    isReady

vars == <<registrarVars, processVars, stage, isReady>>

ContainerTypeOK ==
    /\ RegistrarTypeOK
    /\ stage \in {"new", "configuring", "plugins", "done"}
    /\ isReady \in BOOLEAN

---------------------------------------------------------------------------------
(* setUp() *)

\* The exit handler is installed and the version checked, then the configuration
\* is awaited. No plugin is loaded yet, so an invalid version throws in forceExit.
SetUp ==
    /\ stage = "new"
    /\ stage' = "configuring"
    /\ \/ UNCHANGED <<stack, processVars>>
       \/ "version" \in Faults /\ ForceExit
    /\ UNCHANGED <<next, registry, failed, deregister, tearing, order, torn, isReady>>

Configured ==
    /\ stage = "configuring" /\ Running /\ ~rejected
    /\ \/ stage' = "plugins" /\ UNCHANGED <<stack, rejected>>
       \/ "config" \in Faults /\ Throws /\ UNCHANGED stage
    /\ UNCHANGED <<next, registry, failed, deregister, tearing, order, torn,
                   shuttingDown, exitCode, isReady>>

PluginStep ==
    /\ stage = "plugins"
    /\ \/ SetUpStep
       \/ "register" \in Faults /\ RegisterRejects
    /\ UNCHANGED <<stage, isReady>>

PluginsSetUp ==
    /\ stage = "plugins" /\ Running /\ ~rejected
    /\ stack = <<>>
    /\ LoopEnds
    /\ stage' = "done"
    /\ isReady' = TRUE
    /\ UNCHANGED <<registrarVars, processVars>>

---------------------------------------------------------------------------------
(* Exit handling and tear down *)

\* Fault: the handler ends the process only if there is something to tear down.
InterruptWhenReady ==
    /\ stage # "new" /\ Running
    /\ ~shuttingDown
    /\ shuttingDown' = TRUE
    /\ IF isReady THEN TearDownStarts("exit") ELSE UNCHANGED registrarVars
    /\ UNCHANGED <<exitCode, rejected, stage, isReady>>

\* handleExit on SIGINT: ignored while the container is shutting down, otherwise
\* the process exits at once unless there are plugins to tear down. The "exit" event
\* of each process.exit in this module finds shuttingDown set, but for CommandExits'.
Interrupt ==
    /\ stage # "new" /\ Running
    /\ ~shuttingDown
    /\ shuttingDown' = TRUE
    /\ \/ isReady /\ TearDownStarts("exit") /\ UNCHANGED exitCode
       \/ ~isReady /\ exitCode' = 0 /\ UNCHANGED registrarVars
    /\ UNCHANGED <<rejected, stage, isReady>>

\* The command that awaits setUp passes its rejection on to oclif, which exits with 1.
\* handleExit runs for the "exit" event, sets the flag and has nothing to tear down.
CommandExits ==
    /\ Running /\ rejected
    /\ shuttingDown' = TRUE
    /\ exitCode' = 1
    /\ UNCHANGED <<registrarVars, rejected, stage, isReady>>

ExitAfterTearDown ==
    /\ Running
    /\ TornDown("exit")
    /\ exitCode' = 0
    /\ UNCHANGED <<registrarVars, shuttingDown, rejected, stage, isReady>>

\* tearDown() of an application that looks at shuttingDown first
AppTearDown ==
    /\ AppTearsDown
    /\ isReady /\ Running /\ ~shuttingDown
    /\ TearDownStarts("app")
    /\ UNCHANGED <<processVars, stage, isReady>>

AppTearDownEnds ==
    /\ isReady /\ Running
    /\ TornDown("app")
    /\ isReady' = FALSE
    /\ UNCHANGED <<registrarVars, processVars, stage>>

DeregisterSettles(t) ==
    /\ \/ DeregisterResolves(t)
       \/ "deregister" \in Faults /\ DeregisterRejects(t)
    /\ UNCHANGED <<stage, isReady>>

\* A loaded plugin calls forceExit: a database connection that is lost, seeds that
\* are missing, an http server that cannot be mounted.
PluginForcesExit ==
    /\ "runtime" \in Faults
    /\ Running
    /\ LoggerPlugin \in registry
    /\ ForceExit
    /\ UNCHANGED <<next, registry, failed, deregister, tearing, order, torn, stage, isReady>>

---------------------------------------------------------------------------------

ContainerInit ==
    /\ RegistrarInit
    /\ stage = "new"
    /\ isReady = FALSE

Progress ==
    \/ SetUp
    \/ Configured
    \/ PluginStep
    \/ PluginsSetUp
    \/ CommandExits
    \/ ExitAfterTearDown
    \/ AppTearDownEnds
    \/ \E t \in TearDowns : DeregisterSettles(t)

ContainerNext ==
    \/ Progress
    \/ Interrupt
    \/ AppTearDown
    \/ PluginForcesExit

\* Every await of setUp and tearDown settles (plugins answer, well or badly), and
\* the event loop runs what follows, in the command included. Nobody has to
\* interrupt the process.
ContainerSpec == ContainerInit /\ [][ContainerNext]_vars /\ WF_vars(Progress)

---------------------------------------------------------------------------------
(* Properties *)

RegisteredBefore(p, q) == \E i, j \in DOMAIN order : i < j /\ order[i] = p /\ order[j] = q

\* Plugins are deregistered in the reverse order of their registration, none twice and
\* none passed over, so that what a plugin builds upon is still there when it is
\* stopped, unless the application's tear down and that of SIGINT reverse the array both.
TearDownInReverse ==
    (\E t \in TearDowns : tearing[t] = 0) =>
        /\ \A i, j \in DOMAIN torn : i < j => RegisteredBefore(torn[j], torn[i])
        /\ \A p \in ToSet(torn), q \in registry \cap Deregistrable :
              RegisteredBefore(p, q) => q \in ToSet(torn)

\* A plugin reached through the configuration, through extends and through depends,
\* once or several times, is registered once; the registry holds just these.
RegisteredOnce ==
    /\ \A i, j \in DOMAIN order : order[i] = order[j] => i = j
    /\ ToSet(order) = registry
    /\ ToSet(deregister) = registry \cap Deregistrable

\* What a plugin extends or depends on was registered before it, unless it failed
\* to or has nothing to register.
BasesFirst ==
    \A i \in DOMAIN order :
        {Extends[order[i]], Depends[order[i]]}
            \subseteq {order[j] : j \in 1..i - 1} \cup failed \cup {None}
                      \cup (Plugins \ Registrable)

\* A relay that is ready runs every required plugin of its configuration that can
\* be loaded, unless it was told to stop before it.
ReadyIsComplete ==
    isReady /\ ExitAt = None =>
        \A p \in ToSet(Listed) \cap Required \cap Loadable \cap Registrable :
            ShouldBeRegistered(p) => p \in registry

\* Exit code 0 after a tear down means that every plugin was asked to deregister, even
\* when the interrupt came in the middle of a tear down of the application's.
GracefulExit ==
    exitCode = 0 /\ tearing["exit"] # 0 => ToSet(deregister) \subseteq ToSet(torn)

\* A shutdown that began ends the process, also one that began in the middle of
\* setUp or whose exit() throws, unless a deregister function rejects.
ShutdownEnds == shuttingDown ~> ~Running \/ \E t \in TearDowns : tearing[t] = None

\* interface/src/container/container.ts on forceExit: "Force the container to exit
\* and print the given message and associated error." A container that shuts down
\* without tearing its plugins down has exited.
ForceExitExits == shuttingDown /\ (\A t \in TearDowns : tearing[t] = 0) => ~Running

\* registrars/plugin.ts on tearDown: "Deregister all plugins."
TearDownDeregistersAll ==
    tearing["exit"] # 0 ~> ~Running \/ ToSet(deregister) \subseteq ToSet(torn)
==================================================================================
