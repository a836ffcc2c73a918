--------------------------- MODULE ResilientClient ---------------------------
(***************************************************************************)
(* The connection life cycle and the circuit breaker of the resilient      *)
(* Redis client shared by the control plane and the agents                 *)
(* (shared/redis/resilient_client.go).                                     *)
(*                                                                         *)
(* Three kinds of goroutine run over one client: reconnectLoop (a new      *)
(* goroutine for every lost connection), healthCheckLoop (one), and the    *)
(* callers of Set, Get, Del and Publish.  connState is guarded by stateMu  *)
(* and the breaker by circuitMu, two different locks, and OnStateChange is *)
(* called after stateMu is released: each lock section is one action.      *)
(*                                                                         *)
(* Time is abstract: a backoff sleep and the health ticker are steps that  *)
(* may happen at any moment, and openElapsed says that OpenTimeout has     *)
(* passed since lastFailure.                                               *)
(***************************************************************************)
EXTENDS Naturals

CONSTANTS
    Loops,             \* identities of reconnectLoop goroutines
    Callers,           \* goroutines that use the public API
    MaxRetries,        \* 0: retry for ever
    FailureThreshold,  \* failures before the circuit opens
    SuccessThreshold   \* successes before a half-open circuit closes

ASSUME ConfigAssumption ==
    /\ MaxRetries \in Nat
    /\ FailureThreshold \in Nat \ {0}
    /\ SuccessThreshold \in Nat \ {0}

VARIABLES
    connState,     \* rc.connState
    loop,          \* where each reconnectLoop goroutine is
    attempts,      \* its local attempt counter
    health,        \* where healthCheckLoop is
    heard,         \* the state OnStateChange was last called with
    circuitState, failureCount, successCount,
    openElapsed,   \* time.Since(lastFailure) > OpenTimeout
    caller,        \* where each API call is
    closed,        \* rc.ctx is cancelled
    redisUp        \* environment: the server answers

connVars == <<connState, loop, attempts, health, heard>>
circuitVars == <<circuitState, failureCount, successCount, openElapsed>>
vars == <<connVars, circuitVars, caller, closed, redisUp>>

Disconnected == "disconnected"
Reconnecting == "reconnecting"
Connected    == "connected"

(* The points of reconnectLoop: a state change and the callback after it   *)
(* are two points.                                                         *)
LoopPoints == {"idle", "start", "tellReconnecting", "dial", "ping", "backoff",
               "giveUp", "tellDisconnected",
               "online", "tellConnected", "reset", "resubscribe"}

(* Working on getting the connection back, as opposed to finishing up.     *)
Active(l) == loop[l] \in {"start", "tellReconnecting", "dial", "ping",
                          "backoff", "giveUp", "online"}

HealthPoints == {"wait", "ping", "fail", "recheck", "drop", "tellDropped", "spawn"}

-----------------------------------------------------------------------------
(* Circuit breaker: each operator is one section under circuitMu.          *)

(* Variant: the circuit opens one failure late.                            *)
recordFailure_Late ==
    /\ failureCount' = IF failureCount < FailureThreshold
                       THEN failureCount + 1 ELSE failureCount
    /\ successCount' = 0
    /\ openElapsed' = FALSE
    /\ circuitState' = IF circuitState = "closed" /\ failureCount >= FailureThreshold
                       THEN "open" ELSE circuitState

(* The counter is read only by the comparison with FailureThreshold, so it *)
(* stops counting there; the code's int keeps growing.                     *)
recordFailure ==
    LET failures == IF failureCount < FailureThreshold
                    THEN failureCount + 1 ELSE failureCount
    IN  /\ failureCount' = failures
        /\ successCount' = 0
        /\ openElapsed' = FALSE
        /\ circuitState' = IF circuitState = "closed" /\ failures >= FailureThreshold
                           THEN "open" ELSE circuitState

recordSuccess ==
    /\ UNCHANGED openElapsed
    /\ \/ /\ circuitState = "halfOpen"
          /\ IF successCount + 1 >= SuccessThreshold
             THEN /\ circuitState' = "closed"
                  /\ failureCount' = 0
                  /\ successCount' = 0
             ELSE /\ successCount' = successCount + 1
                  /\ UNCHANGED <<circuitState, failureCount>>
       \/ /\ circuitState = "closed"
          /\ failureCount' = 0
          /\ UNCHANGED <<circuitState, successCount>>
       \/ /\ circuitState = "open"
          /\ UNCHANGED <<circuitState, failureCount, successCount>>

resetCircuitBreaker ==
    /\ circuitState' = "closed"
    /\ failureCount' = 0
    /\ successCount' = 0
    /\ UNCHANGED openElapsed

(* canExecute when it answers true; an elapsed open circuit half-opens.    *)
canExecute ==
    /\ circuitState = "open" => openElapsed
    /\ circuitState' = IF circuitState = "open" THEN "halfOpen" ELSE circuitState
    /\ openElapsed' = FALSE
    /\ UNCHANGED <<failureCount, successCount>>

-----------------------------------------------------------------------------
(* reconnectLoop *)

At(l, from, to) ==
    /\ loop[l] = from
    /\ loop' = [loop EXCEPT ![l] = to]

(* setConnectionState: the callback runs after the lock is released, and   *)
(* only when the state really changed.                                     *)
SetState(l, from, state, tell, silent) ==
    /\ loop[l] = from
    /\ connState' = state
    /\ loop' = [loop EXCEPT ![l] = IF connState # state THEN tell ELSE silent]

Tell(l, from, state, to) ==
    /\ At(l, from, to)
    /\ heard' = state
    /\ UNCHANGED <<connState, attempts, health, circuitVars, caller, closed, redisUp>>

LoopStart(l) ==
    /\ SetState(l, "start", Reconnecting, "tellReconnecting", "dial")
    /\ UNCHANGED <<attempts, health, heard, circuitVars, caller, closed, redisUp>>

(* The context check at the top of a round.                                *)
LoopDial(l) ==
    /\ At(l, "dial", IF closed THEN "idle" ELSE "ping")
    /\ UNCHANGED <<connState, attempts, health, heard, circuitVars, caller, closed, redisUp>>

(* Variant: MaxRetries = 0 is not taken as "no limit".                     *)
LoopPing_ZeroIsALimit(l) ==
    LET n == attempts[l] + 1
        up == redisUp /\ ~closed
    IN  /\ At(l, "ping", CASE up -> "online"
                           [] ~up /\ n >= MaxRetries -> "giveUp"
                           [] OTHER -> "backoff")
        /\ attempts' = [attempts EXCEPT ![l] = IF MaxRetries = 0 THEN 0 ELSE n]
        /\ UNCHANGED <<connState, health, heard, circuitVars, caller, closed, redisUp>>

(* The ping, which a cancelled context fails, and what follows a failure.  *)
(* attempts is read only against MaxRetries: with 0 it is not counted.     *)
LoopPing(l) ==
    LET n == attempts[l] + 1
        up == redisUp /\ ~closed
    IN  /\ At(l, "ping", CASE up -> "online"
                           [] ~up /\ MaxRetries > 0 /\ n >= MaxRetries -> "giveUp"
                           [] OTHER -> "backoff")
        /\ attempts' = [attempts EXCEPT ![l] = IF MaxRetries = 0 THEN 0 ELSE n]
        /\ UNCHANGED <<connState, health, heard, circuitVars, caller, closed, redisUp>>

LoopBackoff(l) ==
    /\ At(l, "backoff", "dial")
    /\ UNCHANGED <<connState, attempts, health, heard, circuitVars, caller, closed, redisUp>>

LoopGiveUp(l) ==
    /\ SetState(l, "giveUp", Disconnected, "tellDisconnected", "idle")
    /\ UNCHANGED <<attempts, health, heard, circuitVars, caller, closed, redisUp>>

(* Variant: the state is set and the callback not called.                  *)
LoopOnline_Silent(l) ==
    /\ SetState(l, "online", Connected, "reset", "reset")
    /\ UNCHANGED <<attempts, health, heard, circuitVars, caller, closed, redisUp>>

LoopOnline(l) ==
    /\ SetState(l, "online", Connected, "tellConnected", "reset")
    /\ UNCHANGED <<attempts, health, heard, circuitVars, caller, closed, redisUp>>

LoopTell(l) ==
    \/ Tell(l, "tellReconnecting", Reconnecting, "dial")
    \/ Tell(l, "tellDisconnected", Disconnected, "idle")
    \/ Tell(l, "tellConnected", Connected, "reset")

LoopReset(l) ==
    /\ At(l, "reset", "resubscribe")
    /\ resetCircuitBreaker
    /\ UNCHANGED <<connState, attempts, health, heard, caller, closed, redisUp>>

(* resubscribeAll touches the subscriptions only: see PubSub.              *)
LoopResubscribe(l) ==
    /\ At(l, "resubscribe", "idle")
    /\ UNCHANGED <<connState, attempts, health, heard, circuitVars, caller, closed, redisUp>>

-----------------------------------------------------------------------------
(* healthCheckLoop *)

HealthTick ==
    /\ health = "wait"
    /\ ~closed
    /\ connState = Connected
    /\ health' = "ping"
    /\ UNCHANGED <<connState, loop, attempts, heard, circuitVars, caller, closed, redisUp>>

HealthPing ==
    /\ health = "ping"
    /\ health' = IF redisUp /\ ~closed THEN "wait" ELSE "fail"
    /\ UNCHANGED <<connState, loop, attempts, heard, circuitVars, caller, closed, redisUp>>

HealthFail ==
    /\ health = "fail"
    /\ recordFailure
    /\ health' = "recheck"
    /\ UNCHANGED <<connState, loop, attempts, heard, caller, closed, redisUp>>

HealthRecheck ==
    /\ health = "recheck"
    /\ health' = IF connState = Connected THEN "drop" ELSE "wait"
    /\ UNCHANGED <<connState, loop, attempts, heard, circuitVars, caller, closed, redisUp>>

(* Variant: the state is left alone and only the loop is spawned.          *)
HealthDrop_KeepsState ==
    /\ health = "drop"
    /\ health' = "spawn"
    /\ UNCHANGED <<connState, loop, attempts, heard, circuitVars, caller, closed, redisUp>>

HealthDrop ==
    /\ health = "drop"
    /\ connState' = Disconnected
    /\ health' = IF connState # Disconnected THEN "tellDropped" ELSE "spawn"
    /\ UNCHANGED <<loop, attempts, heard, circuitVars, caller, closed, redisUp>>

HealthTell ==
    /\ health = "tellDropped"
    /\ heard' = Disconnected
    /\ health' = "spawn"
    /\ UNCHANGED <<connState, loop, attempts, circuitVars, caller, closed, redisUp>>

(* Variant: the connection is dropped and nobody brings it back.           *)
HealthSpawn_Forgotten(l) ==
    /\ health = "spawn"
    /\ health' = "wait"
    /\ UNCHANGED <<connState, loop, attempts, heard, circuitVars, caller, closed, redisUp>>

HealthSpawn(l) ==
    /\ health = "spawn"
    /\ At(l, "idle", "start")
    /\ attempts' = [attempts EXCEPT ![l] = 0]
    /\ health' = "wait"
    /\ UNCHANGED <<connState, heard, circuitVars, caller, closed, redisUp>>

-----------------------------------------------------------------------------
(* Set, Get, Del and Publish: the breaker check, then the state check,     *)
(* then the command.  What they do to the local cache is LocalCache.       *)

CallAdmit(c) ==
    /\ caller[c] = "idle"
    /\ canExecute
    /\ caller' = [caller EXCEPT ![c] = "admitted"]
    /\ UNCHANGED <<connVars, closed, redisUp>>

CallCheck(c) ==
    /\ caller[c] = "admitted"
    /\ caller' = [caller EXCEPT ![c] = IF connState = Connected THEN "sent" ELSE "idle"]
    /\ UNCHANGED <<connVars, circuitVars, closed, redisUp>>

CallOk(c) ==
    /\ caller[c] = "sent"
    /\ redisUp
    /\ recordSuccess
    /\ caller' = [caller EXCEPT ![c] = "idle"]
    /\ UNCHANGED <<connVars, closed, redisUp>>

CallErr(c) ==
    /\ caller[c] = "sent"
    /\ recordFailure
    /\ caller' = [caller EXCEPT ![c] = "idle"]
    /\ UNCHANGED <<connVars, closed, redisUp>>

(* A Get of a missing key (redis.Nil) and a message that cannot be encoded *)
(* are recorded neither way.                                               *)
CallUnrecorded(c) ==
    /\ caller[c] = "sent"
    /\ caller' = [caller EXCEPT ![c] = "idle"]
    /\ UNCHANGED <<connVars, circuitVars, closed, redisUp>>

-----------------------------------------------------------------------------
(* Close cancels the context; the goroutines notice when they look.        *)
Close ==
    /\ ~closed
    /\ closed' = TRUE
    /\ UNCHANGED <<connVars, circuitVars, caller, redisUp>>

(* The server and the network: the program does not control these.         *)
RedisFails ==
    /\ redisUp
    /\ redisUp' = FALSE
    /\ UNCHANGED <<connVars, circuitVars, caller, closed>>

RedisRecovers ==
    /\ ~redisUp
    /\ redisUp' = TRUE
    /\ UNCHANGED <<connVars, circuitVars, caller, closed>>

OpenTimeoutElapses ==
    /\ circuitState = "open"
    /\ ~openElapsed
    /\ openElapsed' = TRUE
    /\ UNCHANGED <<connVars, circuitState, failureCount, successCount, caller, closed, redisUp>>

-----------------------------------------------------------------------------
(* NewResilientClient returns with the first ping answered, or with a      *)
(* reconnectLoop just spawned.  Its own Connected callback runs before     *)
(* healthCheckLoop exists.                                                 *)
Init ==
    /\ redisUp \in BOOLEAN
    /\ attempts = [l \in Loops |-> 0]
    /\ health = "wait"
    /\ \/ /\ redisUp
          /\ connState = Connected
          /\ heard = Connected
          /\ loop = [l \in Loops |-> "idle"]
       \/ /\ connState = Disconnected
          /\ heard = Disconnected
          /\ \E first \in Loops :
                loop = [l \in Loops |-> IF l = first THEN "start" ELSE "idle"]
    /\ circuitState = "closed"
    /\ failureCount = 0
    /\ successCount = 0
    /\ openElapsed = FALSE
    /\ caller = [c \in Callers |-> "idle"]
    /\ closed = FALSE

LoopStep(l) ==
    \/ LoopStart(l)
    \/ LoopDial(l)
    \/ LoopPing(l)
    \/ LoopBackoff(l)
    \/ LoopGiveUp(l)
    \/ LoopOnline(l)
    \/ LoopTell(l)
    \/ LoopReset(l)
    \/ LoopResubscribe(l)

HealthStep ==
    \/ HealthTick
    \/ HealthPing
    \/ HealthFail
    \/ HealthRecheck
    \/ HealthDrop
    \/ HealthTell
    \/ \E l \in Loops : HealthSpawn(l)

CallStep(c) ==
    \/ CallAdmit(c)
    \/ CallCheck(c)
    \/ CallOk(c)
    \/ CallErr(c)
    \/ CallUnrecorded(c)

Environment == RedisFails \/ RedisRecovers \/ OpenTimeoutElapses

Next ==
    \/ \E l \in Loops : LoopStep(l)
    \/ HealthStep
    \/ \E c \in Callers : CallStep(c)
    \/ Close
    \/ Environment

(* Every goroutine is scheduled: the loops sleep with finite backoffs and  *)
(* the ticker ticks.  Nothing is assumed of the server or of the callers.  *)
Fairness ==
    /\ \A l \in Loops : WF_vars(LoopStep(l))
    /\ WF_vars(HealthStep)

Spec == Init /\ [][Next]_vars /\ Fairness

-----------------------------------------------------------------------------
(* Properties *)

(* Every variable stays in the range the code gives it.                    *)
TypeOK ==
    /\ connState \in {Disconnected, Reconnecting, Connected}
    /\ loop \in [Loops -> LoopPoints]
    /\ attempts \in [Loops -> 0..MaxRetries]
    /\ health \in HealthPoints
    /\ heard \in {Disconnected, Reconnecting, Connected}
    /\ circuitState \in {"closed", "open", "halfOpen"}
    /\ failureCount \in 0..FailureThreshold
    /\ successCount \in 0..SuccessThreshold
    /\ openElapsed \in BOOLEAN
    /\ caller \in [Callers -> {"idle", "admitted", "sent"}]
    /\ closed \in BOOLEAN
    /\ redisUp \in BOOLEAN

(* The health check has dropped the connection and owes the client a loop. *)
HealthOwesLoop == health \in {"tellDropped", "spawn"}

(* Reconnection is single flight: two goroutines never dial for the same   *)
(* client, and none dials while the client is connected, however the       *)
(* health check, an old loop finishing up and a new loop interleave        *)
(* (reconnectLoop, healthCheckLoop; only connState keeps them apart).      *)
SingleFlight ==
    /\ \A l, m \in Loops : Active(l) /\ Active(m) => l = m
    /\ \A l \in Loops : Active(l) => connState # Connected /\ ~HealthOwesLoop
    /\ HealthOwesLoop => connState # Connected

(* With infinite retries an open client is never stranded: whenever it is  *)
(* not connected some goroutine is bringing the connection back, although  *)
(* the health check only looks at connected clients.                       *)
NeverStranded ==
    MaxRetries = 0 /\ ~closed /\ connState # Connected =>
        HealthOwesLoop \/ \E l \in Loops : Active(l)

(* With a retry limit the client may be left down, but only by a loop that *)
(* has made exactly MaxRetries attempts (reconnectLoop).                   *)
GivesUpAfterMaxRetries ==
    \A l \in Loops : loop[l] \in {"giveUp", "tellDisconnected"} =>
        MaxRetries > 0 /\ attempts[l] = MaxRetries

(* A circuit that admits everything has seen fewer consecutive failures    *)
(* than the threshold, a half-open one fewer successes than it needs, and  *)
(* only failures open it, whatever order loops, callers and the health     *)
(* check record their outcomes in (recordFailure, recordSuccess,           *)
(* resetCircuitBreaker, canExecute).                                       *)
CircuitConsistent ==
    /\ circuitState = "closed" => failureCount < FailureThreshold /\ successCount = 0
    /\ circuitState = "open" => failureCount = FailureThreshold /\ successCount = 0
    /\ circuitState = "halfOpen" => successCount < SuccessThreshold

(* ... and so do those who only know it from the callback: the control     *)
(* plane's isHealthy and the agent's redisHealthy end up true, although    *)
(* the callbacks of several goroutines run outside the lock and may        *)
(* overtake each other (setConnectionState).                               *)
HealthyAgain ==
    <>[](redisUp /\ ~closed) => <>[](heard = Connected)

-----------------------------------------------------------------------------
(* What the detailed client is meant to look like from outside.            *)
Recovery == INSTANCE ConnectionRecovery WITH
    state <- connState,
    recovering <- HealthOwesLoop \/ \E l \in Loops : Active(l),
    stopped <- closed,
    Limited <- MaxRetries > 0

(* The goroutines together behave like one sequential recovery procedure.  *)
RefinesRecovery == Recovery!Spec

=============================================================================
