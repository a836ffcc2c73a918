------------------------ MODULE ResilientClientProofs ------------------------
(***************************************************************************)
(* Proofs about ResilientClient, for any sets of goroutines and callers    *)
(* and any retry limit and thresholds.                                     *)
(*                                                                         *)
(* SingleFlight is not inductive as it stands: that the health check drops *)
(* a connection only while it is up, and that a loop that dials has moved  *)
(* the client to "reconnecting", have to be carried along (Control).       *)
(*                                                                         *)
(* What is proved of the client alone is then carried over to its two      *)
(* compositions: with the subscriptions (PubSub) and with an agent         *)
(* (AgentLink).                                                            *)
(***************************************************************************)
EXTENDS PubSub, AgentLink, TLAPS

(* The names of the states are three different strings.                    *)
LEMMA StatesDiffer ==
    /\ Disconnected # Reconnecting
    /\ Disconnected # Connected
    /\ Reconnecting # Connected
BY DEF Disconnected, Reconnecting, Connected

-----------------------------------------------------------------------------
(* The four breaker operations keep the breaker's types and its invariant; *)
(* the counters are bounded because each comparison comes with its reset.  *)
CircuitTypes ==
    /\ circuitState \in {"closed", "open", "halfOpen"}
    /\ failureCount \in 0..FailureThreshold
    /\ successCount \in 0..SuccessThreshold

(* Recording an outcome, resetting and admitting a request preserve the    *)
(* breaker's invariant (recordFailure, recordSuccess, resetCircuitBreaker, *)
(* canExecute).                                                            *)
LEMMA CircuitStep ==
    ASSUME CircuitTypes, CircuitConsistent,
           recordFailure \/ recordSuccess \/ resetCircuitBreaker \/ canExecute
    PROVE  CircuitTypes' /\ CircuitConsistent'
<1>1. CASE recordFailure
  BY <1>1, ConfigAssumption DEF CircuitTypes, CircuitConsistent, recordFailure
<1>2. CASE recordSuccess
  BY <1>2, ConfigAssumption DEF CircuitTypes, CircuitConsistent, recordSuccess
<1>3. CASE resetCircuitBreaker
  BY <1>3, ConfigAssumption DEF CircuitTypes, CircuitConsistent, resetCircuitBreaker
<1>4. CASE canExecute
  BY <1>4, ConfigAssumption DEF CircuitTypes, CircuitConsistent, canExecute
<1> QED BY <1>1, <1>2, <1>3, <1>4

(* A step that leaves the breaker alone keeps its invariant.               *)
LEMMA CircuitStutter ==
    ASSUME CircuitTypes, CircuitConsistent,
           UNCHANGED <<circuitState, failureCount, successCount>>
    PROVE  CircuitTypes' /\ CircuitConsistent'
BY DEF CircuitTypes, CircuitConsistent

-----------------------------------------------------------------------------
(* Where the goroutines are fixes connState and the attempt counters.      *)
Control ==
    /\ health = "drop" => connState = Connected
    /\ \A l \in Loops :
          /\ loop[l] \in {"tellReconnecting", "dial", "ping", "backoff", "giveUp", "online"}
                => connState = Reconnecting
          /\ loop[l] \in {"start", "tellReconnecting", "dial", "ping", "backoff"}
                => MaxRetries = 0 \/ attempts[l] < MaxRetries

ConnTypes ==
    /\ connState \in {Disconnected, Reconnecting, Connected}
    /\ loop \in [Loops -> LoopPoints]
    /\ attempts \in [Loops -> 0..MaxRetries]
    /\ health \in HealthPoints
    /\ heard \in {Disconnected, Reconnecting, Connected}

(* The inductive invariant of the connection part.                         *)
ConnInv ==
    /\ ConnTypes
    /\ SingleFlight
    /\ Control
    /\ GivesUpAfterMaxRetries
    /\ NeverStranded

(* A step that leaves the connection alone keeps its invariant; a client   *)
(* that is closed may be stranded.                                         *)
LEMMA ConnStutter ==
    ASSUME ConnInv, UNCHANGED connVars, closed => closed'
    PROVE  ConnInv'
BY DEF ConnInv, ConnTypes, SingleFlight, Control, GivesUpAfterMaxRetries,
       NeverStranded, Active, HealthOwesLoop, connVars

(* A step of a reconnect loop preserves the connection invariant.          *)
LEMMA LoopKeepsConnInv ==
    ASSUME ConnInv, NEW l \in Loops, LoopStep(l)
    PROVE  ConnInv'
<1> USE StatesDiffer, ConfigAssumption
    DEF ConnInv, ConnTypes, SingleFlight, Control, GivesUpAfterMaxRetries,
        NeverStranded, Active, HealthOwesLoop, LoopPoints, At
<1>1. CASE LoopStart(l)
  BY <1>1 DEF LoopStart, SetState
<1>2. CASE LoopDial(l)
  BY <1>2 DEF LoopDial
<1>3. CASE LoopPing(l)
  BY <1>3 DEF LoopPing
<1>4. CASE LoopBackoff(l)
  BY <1>4 DEF LoopBackoff
<1>5. CASE LoopGiveUp(l)
  BY <1>5 DEF LoopGiveUp, SetState
<1>6. CASE LoopOnline(l)
  BY <1>6 DEF LoopOnline, SetState
<1>7. CASE LoopTell(l)
  BY <1>7 DEF LoopTell, Tell
<1>8. CASE LoopReset(l)
  BY <1>8 DEF LoopReset
<1>9. CASE LoopResubscribe(l)
  BY <1>9 DEF LoopResubscribe
<1> QED
  BY <1>1, <1>2, <1>3, <1>4, <1>5, <1>6, <1>7, <1>8, <1>9 DEF LoopStep

(* A step of the health check preserves the connection invariant.          *)
LEMMA HealthKeepsConnInv ==
    ASSUME ConnInv, HealthStep
    PROVE  ConnInv'
<1> USE StatesDiffer, ConfigAssumption
    DEF ConnInv, ConnTypes, SingleFlight, Control, GivesUpAfterMaxRetries,
        NeverStranded, Active, HealthOwesLoop, HealthPoints, LoopPoints, At
<1>1. CASE HealthTick
  BY <1>1 DEF HealthTick
<1>2. CASE HealthPing
  BY <1>2 DEF HealthPing
<1>3. CASE HealthFail
  BY <1>3 DEF HealthFail
<1>4. CASE HealthRecheck
  BY <1>4 DEF HealthRecheck
<1>5. CASE HealthDrop
  BY <1>5 DEF HealthDrop
<1>6. CASE HealthTell
  BY <1>6 DEF HealthTell
<1>7. ASSUME NEW l \in Loops, HealthSpawn(l)
      PROVE  ConnInv'
  BY <1>7 DEF HealthSpawn
<1> QED
  BY <1>1, <1>2, <1>3, <1>4, <1>5, <1>6, <1>7 DEF HealthStep

-----------------------------------------------------------------------------
(* Types outside the connection and the counters.                          *)
FlagTypes ==
    /\ openElapsed \in BOOLEAN
    /\ caller \in [Callers -> {"idle", "admitted", "sent"}]
    /\ closed \in BOOLEAN
    /\ redisUp \in BOOLEAN

(* The inductive invariant of the client.                                  *)
IInv == ConnInv /\ CircuitTypes /\ CircuitConsistent /\ FlagTypes

(* NewResilientClient establishes the invariant.                           *)
LEMMA InitIInv == Init => IInv
<1> SUFFICES ASSUME Init PROVE IInv
  OBVIOUS
<1>1. ConnInv
  BY StatesDiffer, ConfigAssumption
  DEF Init, ConnInv, ConnTypes, SingleFlight, Control, GivesUpAfterMaxRetries,
      NeverStranded, Active, HealthOwesLoop, HealthPoints, LoopPoints
<1>2. CircuitTypes /\ CircuitConsistent
  BY ConfigAssumption DEF Init, CircuitTypes, CircuitConsistent
<1>3. FlagTypes
  BY DEF Init, FlagTypes
<1> QED BY <1>1, <1>2, <1>3 DEF IInv

(* The flags stay flags.                                                   *)
LEMMA NextFlagTypes == FlagTypes /\ [Next]_vars => FlagTypes'
<1> SUFFICES ASSUME FlagTypes, [Next]_vars PROVE FlagTypes'
  OBVIOUS
<1> USE DEF FlagTypes
<1>1. ASSUME NEW l \in Loops, LoopStep(l) PROVE FlagTypes'
  BY <1>1 DEF LoopStep, LoopStart, LoopDial, LoopPing, LoopBackoff, LoopGiveUp,
     LoopOnline, LoopTell, Tell, LoopReset, LoopResubscribe, circuitVars,
     resetCircuitBreaker
<1>2. CASE HealthStep
  BY <1>2 DEF HealthStep, HealthTick, HealthPing, HealthFail, HealthRecheck,
     HealthDrop, HealthTell, HealthSpawn, circuitVars, recordFailure
<1>3. ASSUME NEW c \in Callers, CallStep(c) PROVE FlagTypes'
  BY <1>3 DEF CallStep, CallAdmit, CallCheck, CallOk, CallErr, CallUnrecorded,
     circuitVars, canExecute, recordSuccess, recordFailure
<1>4. CASE Close
  BY <1>4 DEF Close, circuitVars
<1>5. CASE Environment
  BY <1>5 DEF Environment, RedisFails, RedisRecovers, OpenTimeoutElapses, circuitVars
<1>6. CASE UNCHANGED vars
  BY <1>6 DEF vars, circuitVars
<1> QED BY <1>1, <1>2, <1>3, <1>4, <1>5, <1>6 DEF Next

(* Every step is a breaker operation or leaves the breaker's state and     *)
(* counters alone.                                                         *)
LEMMA NextCircuit ==
    [Next]_vars =>
        \/ recordFailure \/ recordSuccess \/ resetCircuitBreaker \/ canExecute
        \/ UNCHANGED <<circuitState, failureCount, successCount>>
<1> SUFFICES ASSUME [Next]_vars
             PROVE  \/ recordFailure \/ recordSuccess \/ resetCircuitBreaker \/ canExecute
                    \/ UNCHANGED <<circuitState, failureCount, successCount>>
  OBVIOUS
<1>1. ASSUME NEW l \in Loops, LoopStep(l)
      PROVE  resetCircuitBreaker \/ UNCHANGED <<circuitState, failureCount, successCount>>
  BY <1>1 DEF LoopStep, LoopStart, LoopDial, LoopPing, LoopBackoff, LoopGiveUp,
     LoopOnline, LoopTell, Tell, LoopReset, LoopResubscribe, circuitVars
<1>2. CASE HealthStep
  BY <1>2 DEF HealthStep, HealthTick, HealthPing, HealthFail, HealthRecheck,
     HealthDrop, HealthTell, HealthSpawn, circuitVars
<1>3. ASSUME NEW c \in Callers, CallStep(c)
      PROVE  \/ canExecute \/ recordSuccess \/ recordFailure
             \/ UNCHANGED <<circuitState, failureCount, successCount>>
  BY <1>3 DEF CallStep, CallAdmit, CallCheck, CallOk, CallErr, CallUnrecorded, circuitVars
<1>4. CASE Close \/ Environment
  BY <1>4 DEF Close, Environment, RedisFails, RedisRecovers, OpenTimeoutElapses, circuitVars
<1>5. CASE UNCHANGED vars
  BY <1>5 DEF vars, circuitVars
<1> QED BY <1>1, <1>2, <1>3, <1>4, <1>5 DEF Next

(* Every step keeps the invariant.                                         *)
LEMMA NextIInv == IInv /\ [Next]_vars => IInv'
<1> SUFFICES ASSUME IInv, [Next]_vars PROVE IInv'
  OBVIOUS
<1>1. ConnInv'
  <2>1. ASSUME NEW l \in Loops, LoopStep(l) PROVE ConnInv'
    BY <2>1, LoopKeepsConnInv DEF IInv
  <2>2. CASE HealthStep
    BY <2>2, HealthKeepsConnInv DEF IInv
  <2>3. ASSUME NEW c \in Callers, CallStep(c) PROVE ConnInv'
    BY <2>3, ConnStutter
    DEF IInv, CallStep, CallAdmit, CallCheck, CallOk, CallErr, CallUnrecorded
  <2>4. CASE Close
    BY <2>4, ConnStutter DEF IInv, Close
  <2>5. CASE Environment
    BY <2>5, ConnStutter
    DEF IInv, Environment, RedisFails, RedisRecovers, OpenTimeoutElapses
  <2>6. CASE UNCHANGED vars
    BY <2>6, ConnStutter DEF IInv, vars
  <2> QED BY <2>1, <2>2, <2>3, <2>4, <2>5, <2>6 DEF Next
<1>2. CircuitTypes' /\ CircuitConsistent'
  BY NextCircuit, CircuitStep, CircuitStutter DEF IInv
<1>3. FlagTypes'
  BY NextFlagTypes DEF IInv
<1> QED BY <1>1, <1>2, <1>3 DEF IInv

-----------------------------------------------------------------------------
(* The inductive invariant holds throughout.                               *)
THEOREM IInvAlways == Spec => []IInv
<1>1. Init => IInv
  BY InitIInv
<1>2. IInv /\ [Next]_vars => IInv'
  BY NextIInv
<1> QED BY <1>1, <1>2, PTL DEF Spec

(* Type correctness of the client.                                         *)
THEOREM TypeCorrect == Spec => []TypeOK
<1>1. IInv => TypeOK
  BY DEF IInv, ConnInv, ConnTypes, CircuitTypes, FlagTypes, TypeOK
<1> QED BY <1>1, IInvAlways, PTL

(* reconnectLoop is single flight for any number of goroutines.            *)
THEOREM SingleFlightAlways == Spec => []SingleFlight
<1>1. IInv => SingleFlight
  BY DEF IInv, ConnInv
<1> QED BY <1>1, IInvAlways, PTL

(* With infinite retries the client is never left without a goroutine that *)
(* brings the connection back; with a limit, only after MaxRetries.        *)
THEOREM NeverStrandedAlways == Spec => [](NeverStranded /\ GivesUpAfterMaxRetries)
<1>1. IInv => NeverStranded /\ GivesUpAfterMaxRetries
  BY DEF IInv, ConnInv
<1> QED BY <1>1, IInvAlways, PTL

(* The breaker's counters agree with its state for all thresholds.         *)
THEOREM CircuitConsistentAlways == Spec => []CircuitConsistent
<1>1. IInv => CircuitConsistent
  BY DEF IInv
<1> QED BY <1>1, IInvAlways, PTL

-----------------------------------------------------------------------------
(* The goroutines implement one sequential recovery.                       *)

(* A loop's step is a step of the recovery, or is invisible to it.         *)
LEMMA LoopRefines ==
    ASSUME IInv, NEW l \in Loops, LoopStep(l)
    PROVE  Recovery!Next \/ UNCHANGED Recovery!vars
<1> USE StatesDiffer, ConfigAssumption
    DEF IInv, ConnInv, ConnTypes, SingleFlight, Control, GivesUpAfterMaxRetries,
        Active, HealthOwesLoop, LoopPoints, At, Recovery!vars,
        Disconnected, Reconnecting, Connected
<1>1. CASE LoopStart(l)
  <2>1. Recovery!Retry
    BY <1>1 DEF LoopStart, SetState, Recovery!Retry
  <2> QED BY <2>1 DEF Recovery!Next
<1>2. CASE LoopDial(l)
  <2>1. CASE closed
    <3>1. Recovery!Abandon
      BY <1>2, <2>1 DEF LoopDial, Recovery!Abandon
    <3> QED BY <3>1 DEF Recovery!Next
  <2>2. CASE ~closed
    BY <1>2, <2>2 DEF LoopDial
  <2> QED BY <2>1, <2>2
<1>3. CASE LoopPing(l)
  BY <1>3 DEF LoopPing
<1>4. CASE LoopBackoff(l)
  BY <1>4 DEF LoopBackoff
<1>5. CASE LoopGiveUp(l)
  <2>1. Recovery!GiveUp
    BY <1>5 DEF LoopGiveUp, SetState, Recovery!GiveUp
  <2> QED BY <2>1 DEF Recovery!Next
<1>6. CASE LoopOnline(l)
  <2>1. Recovery!Restore
    BY <1>6 DEF LoopOnline, SetState, Recovery!Restore
  <2> QED BY <2>1 DEF Recovery!Next
<1>7. CASE LoopTell(l)
  BY <1>7 DEF LoopTell, Tell
<1>8. CASE LoopReset(l)
  BY <1>8 DEF LoopReset
<1>9. CASE LoopResubscribe(l)
  BY <1>9 DEF LoopResubscribe
<1> QED
  BY <1>1, <1>2, <1>3, <1>4, <1>5, <1>6, <1>7, <1>8, <1>9 DEF LoopStep

(* So is a step of the health check.                                       *)
LEMMA HealthRefines ==
    ASSUME IInv, HealthStep
    PROVE  Recovery!Next \/ UNCHANGED Recovery!vars
<1> USE StatesDiffer
    DEF IInv, ConnInv, ConnTypes, SingleFlight, Control,
        Active, HealthOwesLoop, HealthPoints, LoopPoints, At, Recovery!vars,
        Disconnected, Reconnecting, Connected
<1>1. CASE HealthTick
  BY <1>1 DEF HealthTick
<1>2. CASE HealthPing
  BY <1>2 DEF HealthPing
<1>3. CASE HealthFail
  BY <1>3 DEF HealthFail
<1>4. CASE HealthRecheck
  BY <1>4 DEF HealthRecheck
<1>5. CASE HealthDrop
  <2>1. Recovery!Lose
    BY <1>5 DEF HealthDrop, Recovery!Lose
  <2> QED BY <2>1 DEF Recovery!Next
<1>6. CASE HealthTell
  BY <1>6 DEF HealthTell
<1>7. ASSUME NEW l \in Loops, HealthSpawn(l)
      PROVE  UNCHANGED Recovery!vars
  BY <1>7 DEF HealthSpawn
<1> QED
  BY <1>1, <1>2, <1>3, <1>4, <1>5, <1>6, <1>7 DEF HealthStep

(* The client starts as the sequential recovery starts.                    *)
LEMMA InitRefines == Init => Recovery!Init
BY StatesDiffer DEF Init, Recovery!Init, Active, HealthOwesLoop,
   Disconnected, Reconnecting, Connected

(* Every step of the client is a step of the recovery, or a stutter.       *)
LEMMA NextRefines == IInv /\ [Next]_vars => [Recovery!Next]_(Recovery!vars)
<1> SUFFICES ASSUME IInv, [Next]_vars
             PROVE  Recovery!Next \/ UNCHANGED Recovery!vars
  OBVIOUS
<1>1. ASSUME NEW l \in Loops, LoopStep(l)
      PROVE  Recovery!Next \/ UNCHANGED Recovery!vars
  BY <1>1, LoopRefines
<1>2. CASE HealthStep
  BY <1>2, HealthRefines
<1>3. ASSUME NEW c \in Callers, CallStep(c)
      PROVE  UNCHANGED Recovery!vars
  BY <1>3 DEF CallStep, CallAdmit, CallCheck, CallOk, CallErr, CallUnrecorded,
     connVars, Recovery!vars, Active, HealthOwesLoop
<1>4. CASE Close
  <2>1. Recovery!Stop
    BY <1>4 DEF Close, connVars, Recovery!Stop, Active, HealthOwesLoop
  <2> QED BY <2>1 DEF Recovery!Next
<1>5. CASE Environment
  BY <1>5 DEF Environment, RedisFails, RedisRecovers, OpenTimeoutElapses,
     connVars, Recovery!vars, Active, HealthOwesLoop
<1>6. CASE UNCHANGED vars
  BY <1>6 DEF vars, connVars, Recovery!vars, Active, HealthOwesLoop
<1> QED BY <1>1, <1>2, <1>3, <1>4, <1>5, <1>6 DEF Next

(* The client, with all its goroutines, implements ConnectionRecovery.     *)
THEOREM ImplementsRecovery == Spec => RefinesRecovery
<1>1. Init => Recovery!Init
  BY InitRefines
<1>2. IInv /\ [Next]_vars => [Recovery!Next]_(Recovery!vars)
  BY NextRefines
<1> QED BY <1>1, <1>2, IInvAlways, PTL DEF Spec, Recovery!Spec, RefinesRecovery

-----------------------------------------------------------------------------
(* The client inside its compositions.  Each of their steps is a step of   *)
(* the client or leaves the client alone, so that all of the above holds   *)
(* of them.                                                                *)

LEMMA SubNextIsClientStep == [SubNext]_allVars => [Next]_vars
<1> SUFFICES ASSUME [SubNext]_allVars PROVE [Next]_vars
  OBVIOUS
<1>1. CASE ClientStep
  BY <1>1 DEF ClientStep, Next, LoopStep
<1>2. ASSUME NEW l \in Loops, resubscribeAll(l) PROVE Next
  BY <1>2 DEF resubscribeAll, Next, LoopStep
<1>3. ASSUME NEW ch \in Channels, NEW s \in Subs, Subscribe(ch, s) PROVE UNCHANGED vars
  BY <1>3 DEF Subscribe
<1>4. ASSUME NEW ch \in Channels, Unsubscribe(ch) PROVE UNCHANGED vars
  BY <1>4 DEF Unsubscribe
<1>5. ASSUME NEW s \in Subs, CallerCancels(s) PROVE UNCHANGED vars
  BY <1>5 DEF CallerCancels
<1>6. CASE CloseSubscriptions
  BY <1>6 DEF CloseSubscriptions
<1>7. ASSUME NEW s \in Subs, subscribeLoop(s) PROVE UNCHANGED vars
  BY <1>7 DEF subscribeLoop, SubTop, SubGivesUp, SubOpen, SubRegister, SubStops, SubLost, SubBackoff
<1>8. CASE UNCHANGED allVars
  BY <1>8 DEF allVars
<1> QED
  BY <1>1, <1>2, <1>3, <1>4, <1>5, <1>6, <1>7, <1>8 DEF SubNext

LEMMA LinkNextIsClientStep == [LinkNext]_linkVars => [Next]_vars
<1> SUFFICES ASSUME [LinkNext]_linkVars PROVE [Next]_vars
  OBVIOUS
<1>1. CASE (\E l \in Loops : ClientRuns(LoopStep(l))) \/ ClientRuns(HealthStep) \/ ClientRuns(Environment)
  BY <1>1 DEF ClientRuns, Next
<1>2. CASE AgentStart \/ commandLoop \/ AgentStop \/ BeatBegins \/ HeartbeatExpires
  BY <1>2 DEF AgentStart, commandLoop, AgentStop, BeatBegins, HeartbeatExpires
<1>3. CASE BeatRefused \/ BeatFallsBack \/ BeatPosted
  BY <1>3 DEF BeatRefused, BeatFallsBack, BeatPosted
<1>4. CASE BeatAdmitted \/ BeatChecked \/ BeatStored \/ BeatLost
  BY <1>4, AgentAssumption DEF BeatAdmitted, BeatChecked, BeatStored, BeatLost, Next, CallStep
<1>5. CASE UNCHANGED linkVars
  BY <1>5 DEF linkVars
<1> QED
  BY <1>1, <1>2, <1>3, <1>4, <1>5 DEF LinkNext, sendHeartbeat

(* The agent's heartbeat, its mode and its callback take nothing away from *)
(* the client: under an agent reconnection is single flight, nobody is     *)
(* stranded, the breaker's counters agree with its state, and the client   *)
(* still implements the sequential recovery (Agent.onRedisStateChange,     *)
(* heartbeatLoop, commandLoop).                                            *)
THEOREM LinkKeepsClient ==
    LinkSpec => [](SingleFlight /\ NeverStranded /\ CircuitConsistent) /\ RefinesRecovery
<1>1. LinkInit => IInv /\ Recovery!Init
  <2>1. LinkInit => Init
    BY DEF LinkInit
  <2> QED
    BY <2>1, InitIInv, InitRefines
<1>2. IInv /\ [LinkNext]_linkVars => IInv'
  BY LinkNextIsClientStep, NextIInv
<1>3. IInv /\ [LinkNext]_linkVars => [Recovery!Next]_(Recovery!vars)
  BY LinkNextIsClientStep, NextRefines
<1>4. IInv => SingleFlight /\ NeverStranded /\ CircuitConsistent
  BY DEF IInv, ConnInv
<1> QED
  BY <1>1, <1>2, <1>3, <1>4, PTL DEF LinkSpec, Recovery!Spec, RefinesRecovery

-----------------------------------------------------------------------------
(* The subscriptions.  A PubSub is open only while its loop is between     *)
(* opening it and the end of its listening, and the loop knows its own     *)
(* PubSub even when info.pubsub does not yet: that is what makes           *)
(* NoLeakedPubSub inductive.                                               *)
OpenWhileServed ==
    \A s \in Subs : pubsub[s] = "open" => sub[s] \in {"register", "listen"}

SubInv ==
    /\ subscriptions \in [Channels -> Subs \cup {NoSub}]
    /\ sub \in [Subs -> SubPoints]
    /\ pubsub \in [Subs -> {"none", "open", "closed"}]
    /\ OpenWhileServed

(* Closing a set of subscriptions opens none.                              *)
LEMMA ClosingCloses ==
    ASSUME pubsub \in [Subs -> {"none", "open", "closed"}], NEW S
    PROVE  /\ Closing(S) \in [Subs -> {"none", "open", "closed"}]
           /\ \A s \in Subs : Closing(S)[s] = "open" => pubsub[s] = "open"
BY DEF Closing

(* A step of a subscribeLoop keeps the invariant.                          *)
LEMMA SubscribeLoopKeepsSubInv ==
    ASSUME SubInv, NEW s \in Subs, subscribeLoop(s)
    PROVE  SubInv'
<1> USE DEF SubInv, OpenWhileServed, SubPoints, Goto
<1>1. CASE SubTop(s)
  BY <1>1 DEF SubTop
<1>2. CASE SubGivesUp(s)
  BY <1>2 DEF SubGivesUp
<1>3. CASE SubOpen(s)
  BY <1>3 DEF SubOpen
<1>4. CASE SubRegister(s)
  BY <1>4 DEF SubRegister
<1>5. CASE SubStops(s)
  BY <1>5 DEF SubStops
<1>6. CASE SubLost(s)
  BY <1>6 DEF SubLost
<1>7. CASE SubBackoff(s)
  BY <1>7 DEF SubBackoff
<1> QED
  BY <1>1, <1>2, <1>3, <1>4, <1>5, <1>6, <1>7 DEF subscribeLoop

LEMMA SubNextSubInv == SubInv /\ [SubNext]_allVars => SubInv'
<1> SUFFICES ASSUME SubInv, [SubNext]_allVars PROVE SubInv'
  OBVIOUS
<1> USE DEF SubInv, OpenWhileServed
<1>1. CASE ClientStep
  BY <1>1 DEF ClientStep, subVars
<1>2. ASSUME NEW l \in Loops, resubscribeAll(l) PROVE SubInv'
  BY <1>2, ClosingCloses DEF resubscribeAll
<1>3. ASSUME NEW ch \in Channels, NEW s \in Subs, Subscribe(ch, s) PROVE SubInv'
  BY <1>3 DEF Subscribe, SubPoints
<1>4. ASSUME NEW ch \in Channels, Unsubscribe(ch) PROVE SubInv'
  BY <1>4, ClosingCloses DEF Unsubscribe
<1>5. ASSUME NEW s \in Subs, CallerCancels(s) PROVE SubInv'
  BY <1>5 DEF CallerCancels
<1>6. CASE CloseSubscriptions
  BY <1>6, ClosingCloses DEF CloseSubscriptions
<1>7. ASSUME NEW s \in Subs, subscribeLoop(s) PROVE SubInv'
  BY <1>7, SubscribeLoopKeepsSubInv
<1>8. CASE UNCHANGED allVars
  BY <1>8 DEF allVars, subVars
<1> QED
  BY <1>1, <1>2, <1>3, <1>4, <1>5, <1>6, <1>7, <1>8 DEF SubNext

(* No PubSub outlives its subscribeLoop, for any number of channels, of    *)
(* subscriptions and of reconnect loops (subscribeLoop, Unsubscribe, Close *)
(* and resubscribeAll).                                                    *)
THEOREM NoPubSubLeaks == SubSpec => []NoLeakedPubSub
<1>1. SubInit => SubInv
  BY DEF SubInit, SubInv, OpenWhileServed, SubPoints
<1>2. SubInv /\ [SubNext]_allVars => SubInv'
  BY SubNextSubInv
<1>3. SubInv => NoLeakedPubSub
  BY DEF SubInv, OpenWhileServed, NoLeakedPubSub
<1> QED
  BY <1>1, <1>2, <1>3, PTL DEF SubSpec

(* The subscriptions leave the client's guarantees as they are, although   *)
(* resubscribeAll runs inside a reconnectLoop.                             *)
THEOREM SubscriptionsKeepClient ==
    SubSpec => [](SingleFlight /\ NeverStranded /\ CircuitConsistent) /\ RefinesRecovery
<1>1. SubInit => IInv /\ Recovery!Init
  <2>1. SubInit => Init
    BY DEF SubInit
  <2> QED
    BY <2>1, InitIInv, InitRefines
<1>2. IInv /\ [SubNext]_allVars => IInv'
  BY SubNextIsClientStep, NextIInv
<1>3. IInv /\ [SubNext]_allVars => [Recovery!Next]_(Recovery!vars)
  BY SubNextIsClientStep, NextRefines
<1>4. IInv => SingleFlight /\ NeverStranded /\ CircuitConsistent
  BY DEF IInv, ConnInv
<1> QED
  BY <1>1, <1>2, <1>3, <1>4, PTL DEF SubSpec, Recovery!Spec, RefinesRecovery

=============================================================================
