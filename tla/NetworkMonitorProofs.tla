--------------------------- MODULE NetworkMonitorProofs --------------------------
(***********************************************************************************)
(* Proofs about NetworkMonitor for any network, options and number of overlapping  *)
(* calls, the application's own ones included.                                     *)
(***********************************************************************************)
EXTENDS NetworkMonitor, PeerStoreProofs, FiniteSetTheorems

\* The end of an update, by scheduling the next one or by falling back to the seeds,
\* is at most the reseeding of the store.
LEMMA ConcludeIsStoreStep ==
    ASSUME NEW u \in Updates, Conclude(u)
    PROVE  StoreNext \/ UNCHANGED storeVars
BY DEF Conclude, StoreNext

LEMMA UpdateIsStoreStep ==
    ASSUME NEW u \in Updates, NEW initialRun, UpdateNetworkStatus(u, initialRun)
    PROVE  StoreNext \/ UNCHANGED storeVars
BY DEF UpdateNetworkStatus, StoreNext, Sample

\* Whatever the monitor does is an operation of the store or leaves it alone.
LEMMA MonitorStepIsStoreStep ==
    ASSUME [MonitorNext]_vars
    PROVE  [StoreNext]_storeVars
<1>1. CASE Start
  BY <1>1 DEF Start, StoreNext
<1>2. CASE SeedsPopulated
  BY <1>2, UpdateIsStoreStep DEF SeedsPopulated
<1>3. CASE CoolDownEnds \/ CompleteColdStart
  BY <1>3 DEF CoolDownEnds, CompleteColdStart
<1>4. ASSUME NEW u \in Updates, UpdateStep(u)
      PROVE  [StoreNext]_storeVars
  <2>1. ASSUME NEW theirs \in SUBSET Ips, NEW valid \in BOOLEAN, PeersAnswer(u, theirs, valid)
        PROVE  [StoreNext]_storeVars
    <3>1. AcceptPeers(theirs) \/ Conclude(u)
      BY <2>1 DEF PeersAnswer
    <3>2. QED
      BY <3>1, ConcludeIsStoreStep DEF StoreNext
  <2>2. CASE AnswersMalformed(u) \/ DiscoveryFailed(u) \/ PeersCleansed(u)
    BY <2>2, ConcludeIsStoreStep DEF AnswersMalformed, DiscoveryFailed, PeersCleansed
  <2>3. CASE PeersAccepted(u)
    BY <2>3 DEF PeersAccepted, FreeRuns, StoreNext
  <2>4. CASE SeedsAccepted(u)
    BY <2>4 DEF SeedsAccepted
  <2>5. QED
    BY <1>4, <2>1, <2>2, <2>3, <2>4 DEF UpdateStep
<1>5. ASSUME NEW u \in Updates, TimerFires(u) \/ ExternalUpdate(u)
      PROVE  [StoreNext]_storeVars
  BY <1>5, UpdateIsStoreStep DEF TimerFires, ExternalUpdate
<1>6. ASSUME NEW a \in accepting, AcceptSettles(a)
      PROVE  [StoreNext]_storeVars
  BY <1>6 DEF AcceptSettles, StoreNext
<1>7. ASSUME NEW p \in pings, PingSettles(p)
      PROVE  [StoreNext]_storeVars
  BY <1>7 DEF PingSettles, StoreNext
<1>8. ASSUME NEW ip \in Ips, StoreAges(ip) \/ HostChanges(ip)
      PROVE  [StoreNext]_storeVars
  BY <1>8 DEF StoreAges, HostChanges, StoreNext
<1>9. ASSUME NEW run \in Runs, NEW checked \in SUBSET Stored, NEW forcePing \in BOOLEAN,
             ExternalCleanse(run, checked, forcePing)
      PROVE  [StoreNext]_storeVars
  BY <1>9 DEF ExternalCleanse, StoreNext
<1>10. CASE UNCHANGED vars
  BY <1>10 DEF vars
<1>11. QED
  BY <1>1, <1>2, <1>3, <1>4, <1>5, <1>6, <1>7, <1>8, <1>9, <1>10 DEF MonitorNext

\* The monitor uses the store only through its operations, so all that is proved
\* of the store for the most general callers holds of the relay.
THEOREM MonitorImplementsStore == MonitorSafety => StoreSafety
<1>1. MonitorInit => StoreInit
  BY DEF MonitorInit
<1>2. [MonitorNext]_vars => [StoreNext]_storeVars
  BY MonitorStepIsStoreStep
<1>3. QED
  BY <1>1, <1>2, PTL DEF MonitorSafety, StoreSafety

\* In the running relay no address is both peer and pending, none is verified
\* twice at a time, and no pending entry or socket is left behind.
THEOREM MonitorKeepsStoreSafe ==
    MonitorSafety => [](/\ VerifiedOncePerAddress
                        /\ PendingIsNotStored
                        /\ ConnectionsOwned
                        /\ OnlyAdmissible)
BY MonitorImplementsStore, StoreSafe, PTL

---------------------------------------------------------------------------------
(* The flag and the delay *)

TimerInv == timers \in Nat /\ scheduled \in BOOLEAN /\ TimerMatchesFlag

LEMMA ScheduleKeepsTimer ==
    ASSUME TimerInv, Schedule
    PROVE  TimerInv'
BY DEF TimerInv, TimerMatchesFlag, Schedule

LEMMA ConcludeKeepsTimer ==
    ASSUME TimerInv, NEW u \in Updates, Conclude(u)
    PROVE  TimerInv'
<1>1. CASE Schedule
  BY <1>1, ScheduleKeepsTimer
<1>2. CASE UNCHANGED <<scheduled, timers>>
  BY <1>2 DEF TimerInv, TimerMatchesFlag
<1>3. QED
  BY <1>1, <1>2 DEF Conclude

LEMMA TimerStep == TimerInv /\ [MonitorNext]_vars => TimerInv'
<1> SUFFICES ASSUME TimerInv, [MonitorNext]_vars
             PROVE  TimerInv'
  OBVIOUS
<1>1. CASE UNCHANGED <<scheduled, timers>>
  BY <1>1 DEF TimerInv, TimerMatchesFlag
<1>2. ASSUME NEW u \in Updates, UpdateStep(u)
      PROVE  TimerInv'
  <2>1. ASSUME NEW theirs \in SUBSET Ips, NEW valid \in BOOLEAN, PeersAnswer(u, theirs, valid)
        PROVE  TimerInv'
    <3>1. Conclude(u) \/ UNCHANGED <<scheduled, timers>>
      BY <2>1 DEF PeersAnswer
    <3>2. QED
      BY <1>1, <3>1, ConcludeKeepsTimer
  <2>2. CASE AnswersMalformed(u) \/ DiscoveryFailed(u) \/ PeersCleansed(u)
    BY <2>2, ConcludeKeepsTimer DEF AnswersMalformed, DiscoveryFailed, PeersCleansed
  <2>3. CASE PeersAccepted(u)
    BY <1>1, <2>3 DEF PeersAccepted
  <2>4. CASE SeedsAccepted(u)
    BY <2>4, ScheduleKeepsTimer DEF SeedsAccepted
  <2>5. QED
    BY <1>2, <2>1, <2>2, <2>3, <2>4 DEF UpdateStep
<1>3. ASSUME NEW u \in Updates, TimerFires(u)
      PROVE  TimerInv'
  <2>1. timers > 0 /\ timers' = timers - 1 /\ scheduled' = FALSE
    BY <1>3 DEF TimerFires
  <2>2. timers = 1
    BY <2>1 DEF TimerInv, TimerMatchesFlag
  <2>3. timers' = 0
    BY <2>1, <2>2
  <2>4. ~scheduled' /\ scheduled' \in BOOLEAN
    BY <2>1, Zenon
  <2>5. TimerMatchesFlag'
    BY <2>3, <2>4, Zenon DEF TimerMatchesFlag
  <2>6. timers' \in Nat
    BY <2>3
  <2>7. QED
    BY <2>4, <2>5, <2>6 DEF TimerInv
<1>4. CASE \/ Start \/ SeedsPopulated \/ CoolDownEnds \/ CompleteColdStart
           \/ \E u \in Updates : ExternalUpdate(u)
           \/ \E a \in accepting : AcceptSettles(a)
           \/ \E p \in pings : PingSettles(p)
           \/ \E ip \in Ips : StoreAges(ip) \/ HostChanges(ip)
           \/ \E run \in Runs, checked \in SUBSET Stored, forcePing \in BOOLEAN :
                  ExternalCleanse(run, checked, forcePing)
           \/ UNCHANGED vars
  BY <1>1, <1>4 DEF Start, SeedsPopulated, CoolDownEnds, CompleteColdStart, ExternalUpdate,
                    AcceptSettles, Settle, PingSettles, StoreAges, HostChanges,
                    ExternalCleanse, monitorVars, vars
<1>5. QED
  BY <1>2, <1>3, <1>4 DEF MonitorNext

LEMMA TimerInitially == MonitorInit => TimerInv
<1>1. MonitorInit => timers = 0 /\ scheduled = FALSE
  BY DEF MonitorInit
<1>2. timers = 0 /\ scheduled = FALSE => TimerMatchesFlag
  BY Zenon DEF TimerMatchesFlag
<1>3. timers = 0 => timers \in Nat
  OBVIOUS
<1>4. scheduled = FALSE => scheduled \in BOOLEAN
  BY Zenon
<1>5. QED
  BY <1>1, <1>2, <1>3, <1>4, Zenon DEF TimerInv

\* However many updates end at once, the application's included, exactly one delay
\* is suspended while nextUpdateNetworkStatusScheduled is set and none while it is
\* not: updates never multiply and the flag never blocks them for ever.
THEOREM OneTimer == MonitorSafety => []TimerMatchesFlag
<1>1. MonitorInit => TimerInv
  BY TimerInitially
<1>2. TimerInv => TimerMatchesFlag
  BY DEF TimerInv
<1>3. QED
  BY <1>1, <1>2, TimerStep, PTL DEF MonitorSafety

---------------------------------------------------------------------------------
(* The calls *)

\* The monitor's part of its type, but for the delay
CallsTyped ==
    /\ up \subseteq Ips
    /\ startStage \in StartStages
    /\ startWaits \subseteq Accept
    /\ call \in [Updates -> Call]
    /\ coldStart \in BOOLEAN

MonitorInv == StoreInv /\ TimerInv /\ CallsTyped

LEMMA StoredCounts == StoreTypeOK => Cardinality(Stored) \in Nat
BY StoreAssumption, FS_Subset, FS_CardinalityType DEF Stored

LEMMA IdleIsCall == Idle \in Call /\ Idle.stage = "idle"
BY DEF Idle, Call, Stages

LEMMA SettledIsTyped ==
    ASSUME CallsTyped, NEW u \in Updates, NEW next \in StartStages, Settled(u, next)
    PROVE  call' \in [Updates -> Call] /\ startStage' \in StartStages
BY IdleIsCall DEF Settled, CallsTyped

\* The verifications a turn starts are typed.
LEMMA StartedTyped ==
    ASSUME StoreTypeOK'
    PROVE  Started \in SUBSET Accept
BY DEF Started, StoreTypeOK

\* What a call becomes that is to wait for verifications or to cleanse
LEMMA CallWaits ==
    ASSUME NEW c \in Call, NEW stage \in Stages, NEW waits \in SUBSET Accept,
           NEW run \in Runs \cup {None}
    PROVE  /\ [c EXCEPT !.stage = stage, !.waits = waits, !.run = run] \in Call
           /\ [c EXCEPT !.stage = stage, !.waits = waits] \in Call
           /\ [c EXCEPT !.stage = stage, !.run = run] \in Call
BY DEF Call

LEMMA ConcludeIsTyped ==
    ASSUME CallsTyped, StoreTypeOK', NEW u \in Updates, Conclude(u)
    PROVE  call' \in [Updates -> Call] /\ startStage' \in StartStages
<1>1. CASE Settled(u, "cooldown") \/ Settled(u, "failed")
  BY <1>1, SettledIsTyped DEF StartStages
<1>2. CASE /\ call' = [call EXCEPT ![u].stage = "seeding", ![u].waits = Started,
                                   ![u].run = None]
           /\ UNCHANGED startStage
  <2> DEFINE c == [call[u] EXCEPT !.stage = "seeding", !.waits = Started, !.run = None]
  <2>1. c \in Call
    BY StartedTyped, CallWaits DEF CallsTyped, Stages
  <2>2. call' = [call EXCEPT ![u] = c]
    BY <1>2 DEF CallsTyped
  <2> HIDE DEF c
  <2>3. call \in [Updates -> Call] /\ startStage' \in StartStages
    BY <1>2 DEF CallsTyped
  <2>4. QED
    BY <2>1, <2>2, <2>3
<1>3. QED
  BY <1>1, <1>2 DEF Conclude, Return

LEMMA UpdateIsTyped ==
    ASSUME CallsTyped, StoreTypeOK, NEW u \in Updates, NEW initialRun \in BOOLEAN,
           UpdateNetworkStatus(u, initialRun)
    PROVE  call' \in [Updates -> Call] /\ coldStart' \in BOOLEAN
<1>1. [Idle EXCEPT !.stage = "asking", !.pingAll = initialRun,
                   !.own = Cardinality(Stored)] \in Call
  BY StoredCounts DEF Idle, Call, Stages
<1>2. QED
  BY <1>1 DEF UpdateNetworkStatus, CallsTyped

LEMMA UpdateStepIsTyped ==
    ASSUME CallsTyped, StoreTypeOK', NEW u \in Updates, UpdateStep(u)
    PROVE  CallsTyped'
<1>1. call[u] \in Call /\ UNCHANGED <<up, startWaits, coldStart>>
  BY DEF CallsTyped, UpdateStep, PeersAnswer, AnswersMalformed, DiscoveryFailed, PeersAccepted,
         PeersCleansed, SeedsAccepted
<1>2. CASE Conclude(u)
  BY <1>1, <1>2, ConcludeIsTyped DEF CallsTyped
<1>3. ASSUME NEW theirs, NEW valid \in BOOLEAN,
             call' = [call EXCEPT ![u].stage = IF valid THEN "accepting" ELSE "failed",
                                  ![u].waits = IF valid THEN Started ELSE {}],
             UNCHANGED startStage
      PROVE  CallsTyped'
  <2> DEFINE s == IF valid THEN "accepting" ELSE "failed"
             w == IF valid THEN Started ELSE {}
             c == [call[u] EXCEPT !.stage = s, !.waits = w]
  <2>1. s \in Stages /\ w \in SUBSET Accept
    BY StartedTyped DEF Stages
  <2>2. call' = [call EXCEPT ![u] = c]
    BY <1>3 DEF CallsTyped
  <2> HIDE DEF s, w
  <2>3. c \in Call
    BY <1>1, <2>1, CallWaits
  <2> HIDE DEF c
  <2>4. QED
    BY <1>1, <1>3, <2>2, <2>3 DEF CallsTyped
<1>4. CASE PeersAccepted(u)
  <2>1. PICK run \in Runs : call' = [call EXCEPT ![u].stage = "cleansing", ![u].run = run]
    BY <1>4 DEF PeersAccepted, FreeRuns
  <2> DEFINE c == [call[u] EXCEPT !.stage = "cleansing", !.run = run]
  <2>2. c \in Call
    BY <1>1, CallWaits DEF Stages
  <2>3. call' = [call EXCEPT ![u] = c]
    BY <2>1 DEF CallsTyped
  <2> HIDE DEF c
  <2>4. QED
    BY <1>1, <1>4, <2>2, <2>3 DEF CallsTyped, PeersAccepted
<1>5. CASE SeedsAccepted(u)
  BY <1>1, <1>5, SettledIsTyped DEF SeedsAccepted, Return, CallsTyped, StartStages
<1>6. QED
  BY <1>2, <1>3, <1>4, <1>5 DEF UpdateStep, PeersAnswer, AnswersMalformed, DiscoveryFailed,
                              PeersCleansed

LEMMA CallsStep ==
    ASSUME CallsTyped, StoreTypeOK, StoreTypeOK', [MonitorNext]_vars
    PROVE  CallsTyped'
<1>1. CASE Start
  BY <1>1, StartedTyped DEF Start, CallsTyped, StartStages
<1>2. CASE SeedsPopulated
  <2>1. CASE startStage' = "cooldown" /\ UNCHANGED <<call, coldStart>>
    BY <1>2, <2>1 DEF SeedsPopulated, CallsTyped, StartStages
  <2>2. ASSUME NEW u \in Updates, UpdateNetworkStatus(u, TRUE),
               startStage' = IF call' = call THEN "cooldown" ELSE "updating"
        PROVE  CallsTyped'
    <3>1. startStage' \in StartStages
      BY <2>2 DEF StartStages
    <3>2. QED
      BY <1>2, <2>2, <3>1, UpdateIsTyped DEF SeedsPopulated, CallsTyped
  <2>3. QED
    BY <1>2, <2>1, <2>2 DEF SeedsPopulated
<1>3. CASE CoolDownEnds \/ CompleteColdStart
  BY <1>3 DEF CoolDownEnds, CompleteColdStart, CallsTyped, StartStages
<1>4. ASSUME NEW u \in Updates, UpdateStep(u)
      PROVE  CallsTyped'
  BY <1>4, UpdateStepIsTyped
<1>5. ASSUME NEW u \in Updates, TimerFires(u) \/ ExternalUpdate(u)
      PROVE  CallsTyped'
  BY <1>5, UpdateIsTyped DEF TimerFires, ExternalUpdate, CallsTyped
<1>6. ASSUME NEW a \in accepting, AcceptSettles(a)
      PROVE  CallsTyped'
  <2>1. /\ startWaits' \subseteq startWaits
        /\ call' = [u \in Updates |-> [call[u] EXCEPT !.waits = @ \ {a}]]
        /\ UNCHANGED <<up, startStage, coldStart>>
    BY <1>6 DEF AcceptSettles, Settle
  <2>2. \A u \in Updates : [call[u] EXCEPT !.waits = @ \ {a}] \in Call
    BY DEF CallsTyped, Call
  <2>3. QED
    BY <2>1, <2>2 DEF CallsTyped
<1>7. CASE \/ \E p \in pings : PingSettles(p)
           \/ \E ip \in Ips : StoreAges(ip) \/ HostChanges(ip)
           \/ \E run \in Runs, checked \in SUBSET Stored, forcePing \in BOOLEAN :
                  ExternalCleanse(run, checked, forcePing)
           \/ UNCHANGED vars
  BY <1>7 DEF PingSettles, StoreAges, HostChanges, ExternalCleanse, monitorVars, vars, CallsTyped
<1>8. QED
  BY <1>1, <1>2, <1>3, <1>4, <1>5, <1>6, <1>7 DEF MonitorNext

LEMMA MonitorInitInv == MonitorInit => MonitorInv
<1> SUFFICES ASSUME MonitorInit PROVE MonitorInv
  OBVIOUS
<1>1. StoreInv
  BY InitInv DEF MonitorInit
<1>2. TimerInv
  BY TimerInitially
<1>3. CallsTyped
  BY IdleIsCall DEF MonitorInit, CallsTyped, StartStages
<1>4. QED
  BY <1>1, <1>2, <1>3 DEF MonitorInv

LEMMA MonitorStepInv == MonitorInv /\ [MonitorNext]_vars => MonitorInv'
<1> SUFFICES ASSUME MonitorInv, [MonitorNext]_vars
             PROVE  MonitorInv'
  OBVIOUS
<1>1. StoreInv'
  BY MonitorStepIsStoreStep, StoreStepInv DEF MonitorInv
<1>2. TimerInv'
  BY TimerStep DEF MonitorInv
<1>3. CallsTyped'
  BY <1>1, CallsStep DEF MonitorInv, StoreInv
<1>4. QED
  BY <1>1, <1>2, <1>3 DEF MonitorInv

\* The relay stays in its types, the application that calls its methods at any time
\* included.
THEOREM MonitorTyped == MonitorSafety => []MonitorTypeOK
<1>1. MonitorInv => MonitorTypeOK
  <2> SUFFICES ASSUME MonitorInv PROVE MonitorTypeOK
    OBVIOUS
  <2>1. StoreTypeOK /\ timers \in Nat
    BY DEF MonitorInv, StoreInv, TimerInv
  <2>2. scheduled \in BOOLEAN /\ coldStart \in BOOLEAN
    BY Zenon DEF MonitorInv, TimerInv, CallsTyped
  <2>3. /\ up \subseteq Ips /\ startStage \in StartStages /\ startWaits \subseteq Accept
        /\ call \in [Updates -> Call]
    BY DEF MonitorInv, CallsTyped
  <2>4. QED
    BY <2>1, <2>2, <2>3, Zenon DEF MonitorTypeOK
<1>2. QED
  BY <1>1, MonitorInitInv, MonitorStepInv, PTL DEF MonitorSafety

---------------------------------------------------------------------------------
(* The loop of the relay itself *)

\* The application leaves updateNetworkStatus and cleansePeers to the relay.
TurnsInv == MonitorInv /\ ~ExternalCalls /\ UpdatesTakeTurns

LEMMA TimerIsOne == TimerInv => timers \in {0, 1}
BY DEF TimerInv, TimerMatchesFlag

\* An update that is under way is all that is going on.
LEMMA WorkingAlone ==
    ASSUME TurnsInv, NEW u \in Updates, call[u].stage # "idle"
    PROVE  /\ timers = 0 /\ startStage \notin {"new", "seeding"}
           /\ \A v \in Updates : v # u => call[v].stage = "idle"
BY DEF TurnsInv, UpdatesTakeTurns

\* One call moves while the others are idle, and ends before the delay begins.
LEMMA CallMovesAlone ==
    ASSUME TurnsInv, NEW u \in Updates, NEW c,
           \A v \in Updates : v # u => call[v].stage = "idle",
           call' = [call EXCEPT ![u] = c], timers' # 0 => c.stage = "idle",
           startStage' \notin {"new", "seeding"}
    PROVE  UpdatesTakeTurns'
<1>1. \A v \in Updates : call'[v] = IF v = u THEN c ELSE call[v]
  BY DEF TurnsInv, MonitorInv, CallsTyped
<1>2. \A v \in Updates : v # u => call'[v].stage = "idle"
  BY <1>1
<1>3. timers' # 0 => \A v \in Updates : call'[v].stage = "idle"
  BY <1>1, <1>2
<1>4. QED
  BY <1>2, <1>3 DEF UpdatesTakeTurns

\* What changes neither the stages of the calls nor the delay
LEMMA WorkStays ==
    ASSUME TurnsInv, UNCHANGED timers,
           \A u \in Updates : call'[u].stage = call[u].stage,
           startStage' \in {"new", "seeding"} => startStage \in {"new", "seeding"}
    PROVE  UpdatesTakeTurns'
BY DEF TurnsInv, UpdatesTakeTurns

LEMMA SettledKeepsTurns ==
    ASSUME TurnsInv, NEW u \in Updates, call[u].stage # "idle",
           Settled(u, "cooldown") \/ Settled(u, "failed")
    PROVE  UpdatesTakeTurns'
<1>1. call' = [call EXCEPT ![u] = Idle] /\ startStage' \notin {"new", "seeding"}
  BY WorkingAlone DEF Settled
<1>2. QED
  BY <1>1, WorkingAlone, IdleIsCall, CallMovesAlone

\* An update that is under way goes on to another await.
LEMMA StageKeepsTurns ==
    ASSUME TurnsInv, NEW u \in Updates, call[u].stage # "idle", NEW c,
           call' = [call EXCEPT ![u] = c], UNCHANGED <<startStage, timers>>
    PROVE  UpdatesTakeTurns'
BY WorkingAlone, CallMovesAlone

LEMMA ConcludeKeepsTurns ==
    ASSUME TurnsInv, NEW u \in Updates, call[u].stage # "idle", Conclude(u)
    PROVE  UpdatesTakeTurns'
<1>1. CASE Settled(u, "cooldown") \/ Settled(u, "failed")
  BY <1>1, SettledKeepsTurns
<1>2. CASE /\ call' = [call EXCEPT ![u].stage = "seeding", ![u].waits = Started,
                                   ![u].run = None]
           /\ UNCHANGED <<startStage, timers>>
  <2> DEFINE c == [call[u] EXCEPT !.stage = "seeding", !.waits = Started, !.run = None]
  <2>1. call' = [call EXCEPT ![u] = c]
    BY <1>2 DEF TurnsInv, MonitorInv, CallsTyped
  <2> HIDE DEF c
  <2>2. QED
    BY <1>2, <2>1, StageKeepsTurns
<1>3. QED
  BY <1>1, <1>2 DEF Conclude, Return

\* An update begins while nothing else is going on.
LEMMA UpdateKeepsTurns ==
    ASSUME TurnsInv, NEW u \in Updates, NEW initialRun, UpdateNetworkStatus(u, initialRun),
           \A v \in Updates : call[v].stage = "idle",
           timers' = 0, startStage' \notin {"new", "seeding"}
    PROVE  UpdatesTakeTurns'
<1>1. PICK c : call' = [call EXCEPT ![u] = c]
  <2>1. CASE call' = call
    <3>1. call' = [call EXCEPT ![u] = call[u]]
      BY <2>1 DEF TurnsInv, MonitorInv, CallsTyped
    <3>2. QED
      BY <3>1
  <2>2. QED
    BY <2>1 DEF UpdateNetworkStatus
<1>2. QED
  BY <1>1, CallMovesAlone

LEMMA UpdateStepKeepsTurns ==
    ASSUME TurnsInv, NEW u \in Updates, UpdateStep(u)
    PROVE  UpdatesTakeTurns'
<1>1. call[u].stage # "idle"
  BY DEF UpdateStep, PeersAnswer, AnswersMalformed, DiscoveryFailed, PeersAccepted,
         PeersCleansed, SeedsAccepted
<1>2. CASE Conclude(u)
  BY <1>1, <1>2, ConcludeKeepsTurns
<1>3. ASSUME NEW s, NEW w, call' = [call EXCEPT ![u].stage = s, ![u].waits = w],
             UNCHANGED <<startStage, timers>>
      PROVE  UpdatesTakeTurns'
  <2>1. call' = [call EXCEPT ![u] = [call[u] EXCEPT !.stage = s, !.waits = w]]
    BY <1>3 DEF TurnsInv, MonitorInv, CallsTyped
  <2>2. QED
    BY <1>1, <1>3, <2>1, StageKeepsTurns
<1>4. CASE PeersAccepted(u)
  <2>1. PICK run : call' = [call EXCEPT ![u].stage = "cleansing", ![u].run = run]
    BY <1>4 DEF PeersAccepted
  <2>2. call' = [call EXCEPT ![u] = [call[u] EXCEPT !.stage = "cleansing", !.run = run]]
    BY <2>1 DEF TurnsInv, MonitorInv, CallsTyped
  <2>3. QED
    BY <1>1, <1>4, <2>2, StageKeepsTurns DEF PeersAccepted
<1>5. CASE SeedsAccepted(u)
  BY <1>1, <1>5, SettledKeepsTurns DEF SeedsAccepted, Return
<1>6. QED
  BY <1>2, <1>3, <1>4, <1>5 DEF UpdateStep, PeersAnswer, AnswersMalformed, DiscoveryFailed,
                              PeersCleansed

LEMMA TurnsStep == TurnsInv /\ [MonitorNext]_vars => TurnsInv'
<1> SUFFICES ASSUME TurnsInv, [MonitorNext]_vars
             PROVE  UpdatesTakeTurns'
  BY MonitorStepInv DEF TurnsInv
<1>1. CASE Start
  BY <1>1, WorkStays DEF Start
<1>2. CASE SeedsPopulated
  <2>1. startStage = "seeding" /\ timers' = timers
    BY <1>2 DEF SeedsPopulated
  <2>2. timers' = 0 /\ \A u \in Updates : call[u].stage = "idle"
    BY <2>1 DEF TurnsInv, UpdatesTakeTurns
  <2>3. CASE startStage' = "cooldown" /\ UNCHANGED call
    BY <2>1, <2>3, WorkStays
  <2>4. ASSUME NEW u \in Updates, UpdateNetworkStatus(u, TRUE),
               startStage' = IF call' = call THEN "cooldown" ELSE "updating"
        PROVE  UpdatesTakeTurns'
    <3>1. startStage' \notin {"new", "seeding"}
      BY <2>4
    <3>2. QED
      BY <2>2, <2>4, <3>1, UpdateKeepsTurns
  <2>5. QED
    BY <1>2, <2>3, <2>4 DEF SeedsPopulated
<1>3. ASSUME NEW u \in Updates, UpdateStep(u)
      PROVE  UpdatesTakeTurns'
  BY <1>3, UpdateStepKeepsTurns
<1>4. ASSUME NEW u \in Updates, TimerFires(u)
      PROVE  UpdatesTakeTurns'
  <2>1. /\ timers > 0 /\ timers' = timers - 1
        /\ UpdateNetworkStatus(u, FALSE) /\ startStage' = startStage
    BY <1>4 DEF TimerFires
  <2>2. timers = 1
    BY <2>1, TimerIsOne DEF TurnsInv, MonitorInv
  <2>3. /\ timers' = 0 /\ startStage' \notin {"new", "seeding"}
        /\ \A v \in Updates : call[v].stage = "idle"
    BY <2>1, <2>2 DEF TurnsInv, UpdatesTakeTurns
  <2>4. QED
    BY <2>1, <2>3, UpdateKeepsTurns
<1>5. ASSUME NEW a \in accepting, AcceptSettles(a)
      PROVE  UpdatesTakeTurns'
  <2>1. /\ call' = [u \in Updates |-> [call[u] EXCEPT !.waits = @ \ {a}]]
        /\ UNCHANGED <<startStage, timers>>
    BY <1>5 DEF AcceptSettles, Settle
  <2>2. \A u \in Updates : call'[u].stage = call[u].stage
    BY <2>1 DEF TurnsInv, MonitorInv, CallsTyped, Call
  <2>3. QED
    BY <2>1, <2>2, WorkStays
<1>6. CASE \/ CoolDownEnds \/ CompleteColdStart
           \/ \E p \in pings : PingSettles(p)
           \/ \E ip \in Ips : StoreAges(ip) \/ HostChanges(ip)
           \/ UNCHANGED vars
  <2>1. UNCHANGED <<call, timers>> /\ startStage' \in {startStage, "started"}
    BY <1>6 DEF CoolDownEnds, CompleteColdStart, PingSettles, StoreAges, HostChanges,
                monitorVars, vars
  <2>2. QED
    BY <2>1, WorkStays
<1>7. ASSUME \/ \E u \in Updates : ExternalUpdate(u)
             \/ \E run \in Runs, checked \in SUBSET Stored, forcePing \in BOOLEAN :
                    ExternalCleanse(run, checked, forcePing)
      PROVE  FALSE
  BY <1>7 DEF ExternalUpdate, ExternalCleanse, TurnsInv
<1>8. QED
  BY <1>1, <1>2, <1>3, <1>4, <1>5, <1>6, <1>7 DEF MonitorNext

LEMMA TurnsInitially == ~ExternalCalls /\ MonitorInit => TurnsInv
<1> SUFFICES ASSUME ~ExternalCalls, MonitorInit PROVE TurnsInv
  OBVIOUS
<1>1. MonitorInv /\ timers = 0 /\ \A u \in Updates : call[u].stage = "idle"
  BY MonitorInitInv, IdleIsCall DEF MonitorInit
<1>2. QED
  BY <1>1 DEF TurnsInv, UpdatesTakeTurns

\* While the application leaves the loop to the relay, start, the delay and the
\* update under way take turns, whatever hosts, lists, seeds and slow pings there
\* are: the relay never runs two updates at a time.
THEOREM UpdatesNeverOverlap == ~ExternalCalls /\ MonitorSafety => []UpdatesTakeTurns
<1>1. TurnsInv => UpdatesTakeTurns
  BY DEF TurnsInv
<1>2. QED
  BY <1>1, TurnsInitially, TurnsStep, PTL DEF MonitorSafety

---------------------------------------------------------------------------------
(* The pings of the loop *)

\* Every suspended ping belongs to the cleanse that is under way.
PingsAwaited ==
    \A p \in pings : \E u \in Updates : call[u].stage = "cleansing" /\ call[u].run = p.run

\* What is more if pings end within their delay
LoopInv == TurnsInv /\ ~SlowPings /\ PingsAwaited /\ PingsCheckListedPeers

LEMMA PingsOfTheCleanse ==
    ASSUME LoopInv, NEW u \in Updates, call[u].stage # "idle"
    PROVE  \A p \in pings : call[u].stage = "cleansing" /\ call[u].run = p.run
BY WorkingAlone DEF LoopInv, PingsAwaited

LEMMA NobodyPings ==
    ASSUME LoopInv, \A u \in Updates : call[u].stage = "idle"
    PROVE  pings = {}
BY DEF LoopInv, PingsAwaited

LEMMA NoPings ==
    ASSUME pings' = {}
    PROVE  PingsAwaited' /\ PingsCheckListedPeers'
BY DEF PingsAwaited, PingsCheckListedPeers

LEMMA UpdateStepKeepsLoop ==
    ASSUME LoopInv, NEW u \in Updates, UpdateStep(u)
    PROVE  PingsAwaited' /\ PingsCheckListedPeers'
<1>1. CASE ~PeersAccepted(u)
  <2>1. call[u].stage # "idle" /\ pings' = pings
    BY <1>1 DEF UpdateStep, PeersAnswer, AnswersMalformed, DiscoveryFailed, PeersCleansed,
                SeedsAccepted, Conclude, PopulateSeedPeers, AcceptPeers, storeVars
  <2>2. CASE PeersCleansed(u)
    <3>1. \A p \in pings : p.run # call[u].run
      BY <2>2 DEF PeersCleansed, LoopInv
    <3>2. QED
      BY <2>1, <3>1, PingsOfTheCleanse, NoPings
  <2>3. CASE ~PeersCleansed(u)
    <3>1. call[u].stage # "cleansing"
      BY <1>1, <2>3 DEF UpdateStep, PeersAnswer, AnswersMalformed, DiscoveryFailed,
                        SeedsAccepted
    <3>2. QED
      BY <2>1, <3>1, PingsOfTheCleanse, NoPings
  <2>4. QED
    BY <2>2, <2>3
<1>2. CASE PeersAccepted(u)
  <2>1. PICK run \in FreeRuns : /\ CleansePeers(run, Stored, FALSE)
                                /\ call' = [call EXCEPT ![u].stage = "cleansing", ![u].run = run]
    BY <1>2 DEF PeersAccepted
  <2>2. call[u].stage = "accepting" /\ call[u] \in Call /\ call \in [Updates -> Call]
    BY <1>2 DEF PeersAccepted, LoopInv, TurnsInv, MonitorInv, CallsTyped
  <2>3. call'[u].stage = "cleansing" /\ call'[u].run = run
    BY <2>1, <2>2 DEF Call
  <2>4. pings = {}
    BY <2>2, PingsOfTheCleanse
  <2>5. peers' = peers /\ \A p \in pings' : p.run = run /\ peers[p.ip] = p.peer
    BY <2>1, <2>4 DEF CleansePeers
  <2>6. QED
    BY <2>3, <2>5 DEF PingsAwaited, PingsCheckListedPeers
<1>3. QED
  BY <1>1, <1>2

LEMMA AcceptKeepsLoop ==
    ASSUME LoopInv, NEW a \in accepting, AcceptSettles(a)
    PROVE  PingsAwaited' /\ PingsCheckListedPeers'
<1>1. /\ call' = [u \in Updates |-> [call[u] EXCEPT !.waits = @ \ {a}]]
      /\ UNCHANGED <<startStage, timers, pings>>
  BY DEF AcceptSettles, Settle, AcceptSucceeds, AcceptFails
<1>2. \A u \in Updates : call'[u].stage = call[u].stage /\ call'[u].run = call[u].run
  <2>1. \A u \in Updates : call[u] \in Call
    BY DEF LoopInv, TurnsInv, MonitorInv, CallsTyped
  <2>2. QED
    BY <1>1, <2>1 DEF Call
<1>3. PingsAwaited'
  <2>1. ASSUME NEW p \in pings
        PROVE  \E u \in Updates : call'[u].stage = "cleansing" /\ call'[u].run = p.run
    <3>1. PICK u \in Updates : call[u].stage = "cleansing" /\ call[u].run = p.run
      BY DEF LoopInv, PingsAwaited
    <3>2. QED
      BY <1>2, <3>1
  <2>2. QED
    BY <1>1, <2>1 DEF PingsAwaited
<1>4. \A p \in pings : peers'[p.ip] = peers[p.ip]
  <2>1. a \in Accept /\ a.ip \in pending
    BY DEF LoopInv, TurnsInv, MonitorInv, StoreInv, StoreTypeOK, VerifiedOncePerAddress
  <2>2. a.ip \in Ips /\ peers[a.ip] = None
    BY <2>1 DEF LoopInv, TurnsInv, MonitorInv, StoreInv, PendingIsNotStored, Stored, Accept
  <2>3. ASSUME NEW p \in pings PROVE p.ip # a.ip
    <3>1. p.peer \in Objects /\ peers[p.ip] = p.peer
      BY DEF LoopInv, TurnsInv, MonitorInv, StoreInv, StoreTypeOK, Ping, PingsCheckListedPeers
    <3>2. QED
      BY <2>2, <3>1, StoreAssumption
  <2>4. peers' = peers \/ peers' = [peers EXCEPT ![a.ip] = a.peer]
    BY DEF AcceptSettles, AcceptSucceeds, AcceptFails
  <2>5. peers \in [Ips -> Objects \cup {None}] /\ \A p \in pings : p.ip \in Ips
    BY DEF LoopInv, TurnsInv, MonitorInv, StoreInv, StoreTypeOK, Ping
  <2>6. QED
    BY <2>3, <2>4, <2>5
<1>5. PingsCheckListedPeers'
  BY <1>1, <1>4 DEF LoopInv, PingsCheckListedPeers
<1>6. QED
  BY <1>3, <1>5

\* All suspended pings are of one cleanse and each checks the listed peer, so none of
\* the others is for the address that is forgotten.
LEMMA PingKeepsLoop ==
    ASSUME LoopInv, NEW p \in pings, PingSettles(p)
    PROVE  PingsAwaited' /\ PingsCheckListedPeers'
<1>1. UNCHANGED monitorVars /\ pings' = pings \ {p}
  BY DEF PingSettles, PingSucceeds, PingFails
<1>2. UNCHANGED <<call, timers, startStage>>
  BY <1>1 DEF monitorVars
<1>3. PingsAwaited'
  BY <1>1, <1>2 DEF LoopInv, PingsAwaited
<1>4. \A q \in pings : q # p => q.ip # p.ip
  <2>1. ASSUME NEW q \in pings, q.ip = p.ip PROVE q = p
    <3>1. q.peer = p.peer
      BY <2>1 DEF LoopInv, PingsCheckListedPeers
    <3>2. PICK u \in Updates : call[u].stage = "cleansing" /\ call[u].run = p.run
      BY DEF LoopInv, PingsAwaited
    <3>3. q.run = p.run
      BY <3>2, PingsOfTheCleanse
    <3>4. q \in Ping /\ p \in Ping
      BY DEF LoopInv, TurnsInv, MonitorInv, StoreInv, StoreTypeOK
    <3>5. QED
      BY <2>1, <3>1, <3>3, <3>4 DEF Ping
  <2>2. QED
    BY <2>1
<1>5. \A q \in pings : q # p => peers'[q.ip] = peers[q.ip]
  <2>1. peers' = peers \/ peers' = [peers EXCEPT ![p.ip] = None]
    BY DEF PingSettles, PingSucceeds, PingFails, DisconnectPeer
  <2>2. peers \in [Ips -> Objects \cup {None}] /\ \A q \in pings : q.ip \in Ips
    BY DEF LoopInv, TurnsInv, MonitorInv, StoreInv, StoreTypeOK, Ping
  <2>3. QED
    BY <1>4, <2>1, <2>2
<1>6. PingsCheckListedPeers'
  BY <1>1, <1>5 DEF LoopInv, PingsCheckListedPeers
<1>7. QED
  BY <1>3, <1>6

LEMMA LoopStep == LoopInv /\ [MonitorNext]_vars => LoopInv'
<1> SUFFICES ASSUME LoopInv, [MonitorNext]_vars
             PROVE  PingsAwaited' /\ PingsCheckListedPeers'
  BY TurnsStep DEF LoopInv
<1>1. CASE Start
  <2>1. pings = {}
    BY <1>1, NobodyPings DEF Start, LoopInv, TurnsInv, UpdatesTakeTurns
  <2>2. QED
    BY <1>1, <2>1, NoPings DEF Start, PopulateSeedPeers
<1>2. ASSUME NEW u \in Updates, NEW initialRun, UpdateNetworkStatus(u, initialRun),
             timers # 0 \/ startStage \in {"new", "seeding"}
      PROVE  PingsAwaited' /\ PingsCheckListedPeers'
  <2>1. pings = {}
    BY <1>2, NobodyPings DEF LoopInv, TurnsInv, UpdatesTakeTurns
  <2>2. QED
    BY <1>2, <2>1, NoPings DEF UpdateNetworkStatus, AskPeers, storeVars
<1>3. CASE SeedsPopulated
  <2>1. CASE UNCHANGED <<call, storeVars>>
    BY <2>1 DEF LoopInv, PingsAwaited, PingsCheckListedPeers, storeVars
  <2>2. QED
    BY <1>2, <1>3, <2>1 DEF SeedsPopulated
<1>4. ASSUME NEW u \in Updates, UpdateStep(u)
      PROVE  PingsAwaited' /\ PingsCheckListedPeers'
  BY <1>4, UpdateStepKeepsLoop
<1>5. ASSUME NEW u \in Updates, TimerFires(u)
      PROVE  PingsAwaited' /\ PingsCheckListedPeers'
  <2>1. timers # 0
    BY <1>5 DEF TimerFires
  <2>2. QED
    BY <1>2, <1>5, <2>1 DEF TimerFires
<1>6. ASSUME NEW a \in accepting, AcceptSettles(a)
      PROVE  PingsAwaited' /\ PingsCheckListedPeers'
  BY <1>6, AcceptKeepsLoop
<1>7. ASSUME NEW p \in pings, PingSettles(p)
      PROVE  PingsAwaited' /\ PingsCheckListedPeers'
  BY <1>7, PingKeepsLoop
<1>8. CASE \/ CoolDownEnds \/ CompleteColdStart
           \/ \E ip \in Ips : StoreAges(ip) \/ HostChanges(ip)
           \/ UNCHANGED vars
  <2>1. UNCHANGED <<pings, peers, call>>
    BY <1>8 DEF CoolDownEnds, CompleteColdStart, StoreAges, RecentlyPingedExpires,
                SocketTerminates, HostChanges, monitorVars, storeVars, vars
  <2>2. QED
    BY <2>1 DEF LoopInv, PingsAwaited, PingsCheckListedPeers
<1>9. ASSUME \/ \E u \in Updates : ExternalUpdate(u)
             \/ \E run \in Runs, checked \in SUBSET Stored, forcePing \in BOOLEAN :
                    ExternalCleanse(run, checked, forcePing)
      PROVE  FALSE
  BY <1>9 DEF ExternalUpdate, ExternalCleanse, LoopInv, TurnsInv
<1>10. QED
  BY <1>1, <1>3, <1>4, <1>5, <1>6, <1>7, <1>8, <1>9 DEF MonitorNext

\* While the application leaves the loop to the relay and pings end in time, the
\* eviction that follows a failed ping hits the very peer that was pinged, never one
\* that was verified for the same address meanwhile, whatever hosts, lists and seeds
\* there are.
THEOREM PingsHitTheirPeers ==
    ~ExternalCalls /\ ~SlowPings /\ MonitorSafety => []PingsCheckListedPeers
<1>1. ~ExternalCalls /\ ~SlowPings /\ MonitorInit => LoopInv
  <2>1. MonitorInit => pings = {}
    BY DEF MonitorInit, StoreInit
  <2>2. QED
    BY <2>1, TurnsInitially DEF LoopInv, PingsAwaited, PingsCheckListedPeers
<1>2. LoopInv => PingsCheckListedPeers
  BY DEF LoopInv
<1>3. QED
  BY <1>1, <1>2, LoopStep, PTL DEF MonitorSafety
==================================================================================
