------------------------------ MODULE AgentLink ------------------------------
(***************************************************************************)
(* How an agent stays in touch with the control plane: the communication   *)
(* mode, the heartbeat and the subscription to commands, over the          *)
(* resilient Redis client.  The client's goroutines call                   *)
(* onRedisStateChange, which moves commMode; heartbeatLoop and commandLoop *)
(* read commMode without a lock, the heartbeat twice in a round.  An agent *)
(* never closes its client.                                                *)
(***************************************************************************)
EXTENDS ResilientClient

CONSTANTS
    HB,                  \* heartbeatLoop, a caller of the client
    EnableRESTFallback

ASSUME AgentAssumption == HB \in Callers /\ EnableRESTFallback \in BOOLEAN

VARIABLES
    mode,        \* a.commMode
    agent,       \* "new", "online", "offline"
    subscribed,  \* commandLoop has subscribed to the agent's channel
    beat,        \* where sendHeartbeat is
    seen         \* agent:<id>:heartbeat is in Redis and has not expired

agentVars == <<mode, agent, subscribed, beat, seen>>
linkVars == <<vars, agentVars>>

ModeRedis == "redis"
ModeHybrid == "hybrid"
ModeREST == "rest"

UsesRedis == mode \in {ModeRedis, ModeHybrid}

-----------------------------------------------------------------------------
(* Variant: an agent that fell back to REST stays there.                   *)
onRedisStateChange_StaysREST(new) ==
    mode' = IF new = Disconnected /\ EnableRESTFallback THEN ModeREST ELSE mode

onRedisStateChange(new) ==
    mode' = CASE new = Connected /\ mode = ModeREST /\ EnableRESTFallback -> ModeHybrid
              [] new = Disconnected /\ EnableRESTFallback -> ModeREST
              [] OTHER -> mode

(* A step of the client's goroutines; the one that calls the callback has  *)
(* the agent's part in it.                                                 *)
Calls ==
    \/ health = "tellDropped" /\ health' # health
    \/ \E l \in Loops : /\ loop'[l] # loop[l]
                        /\ loop[l] \in {"tellReconnecting", "tellDisconnected",
                                        "tellConnected"}

ClientRuns(step) ==
    /\ step
    /\ IF Calls THEN onRedisStateChange(heard') ELSE UNCHANGED mode
    /\ UNCHANGED <<agent, subscribed, beat, seen>>

-----------------------------------------------------------------------------
(* Start: the agent is online, and commandLoop subscribes if the mode says *)
(* so at that moment; it does not come back to it.                         *)
AgentStart ==
    /\ agent = "new"
    /\ agent' = "online"
    /\ UNCHANGED <<vars, mode, subscribed, beat, seen>>

commandLoop ==
    /\ agent = "online"
    /\ subscribed = "no"
    /\ subscribed' = IF UsesRedis THEN "yes" ELSE "never"
    /\ UNCHANGED <<vars, mode, agent, beat, seen>>

(* Stop cancels the context that the loops and the subscription run under. *)
AgentStop ==
    /\ agent = "online"
    /\ agent' = "offline"
    /\ UNCHANGED <<vars, mode, subscribed, beat, seen>>

-----------------------------------------------------------------------------
(* Variant: the hybrid mode is taken for a mode without Redis.             *)
BeatBegins_RedisOnly ==
    /\ beat = "wait"
    /\ agent = "online"
    /\ beat' = IF mode = ModeRedis THEN "set" ELSE "skipped"
    /\ UNCHANGED <<vars, mode, agent, subscribed, seen>>

(* sendHeartbeat: a tick, and the mode read for the first time.            *)
BeatBegins ==
    /\ beat = "wait"
    /\ agent = "online"
    /\ beat' = IF UsesRedis THEN "set" ELSE "skipped"
    /\ UNCHANGED <<vars, mode, agent, subscribed, seen>>

(* Set through the client: refused by the breaker, ...                     *)
BeatAdmitted ==
    /\ beat = "set"
    /\ CallAdmit(HB)
    /\ beat' = "sending"
    /\ UNCHANGED <<mode, agent, subscribed, seen>>

BeatRefused ==
    /\ beat = "set"
    /\ circuitState = "open" /\ ~openElapsed
    /\ beat' = "failed"
    /\ UNCHANGED <<vars, mode, agent, subscribed, seen>>

(* ... or for want of a connection, sent, or lost.                         *)
BeatChecked ==
    /\ beat = "sending"
    /\ CallCheck(HB)
    /\ beat' = IF connState = Connected THEN "sending" ELSE "failed"
    /\ UNCHANGED <<mode, agent, subscribed, seen>>

BeatStored ==
    /\ beat = "sending"
    /\ CallOk(HB)
    /\ beat' = "wait"
    /\ seen' = TRUE
    /\ UNCHANGED <<mode, agent, subscribed>>

BeatLost ==
    /\ beat = "sending"
    /\ CallErr(HB)
    /\ beat' = "failed"
    /\ UNCHANGED <<mode, agent, subscribed, seen>>

(* The mode read for the second time: on to REST, or the round is over.    *)
(* The two comparisons of the code's condition are taken as one read.      *)
BeatFallsBack ==
    /\ beat \in {"skipped", "failed"}
    /\ beat' = IF EnableRESTFallback
                  /\ (mode \in {ModeREST, ModeHybrid} \/ beat = "failed")
               THEN "rest" ELSE "wait"
    /\ UNCHANGED <<vars, mode, agent, subscribed, seen>>

(* sendHeartbeatREST, whatever comes of it.                                *)
BeatPosted ==
    /\ beat = "rest"
    /\ beat' = "wait"
    /\ UNCHANGED <<vars, mode, agent, subscribed, seen>>

(* The key's 30 seconds are over.                                          *)
HeartbeatExpires ==
    /\ seen
    /\ seen' = FALSE
    /\ UNCHANGED <<vars, mode, agent, subscribed, beat>>

-----------------------------------------------------------------------------
LinkInit ==
    /\ Init
    /\ mode = ModeRedis
    /\ agent = "new"
    /\ subscribed = "no"
    /\ beat = "wait"
    /\ seen = FALSE

sendHeartbeat ==
    \/ BeatAdmitted \/ BeatRefused \/ BeatChecked \/ BeatStored \/ BeatLost
    \/ BeatFallsBack \/ BeatPosted

LinkNext ==
    \/ \E l \in Loops : ClientRuns(LoopStep(l))
    \/ ClientRuns(HealthStep)
    \/ ClientRuns(Environment)
    \/ AgentStart \/ commandLoop \/ AgentStop
    \/ BeatBegins \/ sendHeartbeat
    \/ HeartbeatExpires

(* The goroutines run, the tickers tick and the breaker's timeout elapses. *)
(* Nothing makes the agent start or stop, or the server recover.           *)
LinkFairness ==
    /\ \A l \in Loops : WF_linkVars(ClientRuns(LoopStep(l)))
    /\ WF_linkVars(ClientRuns(HealthStep))
    /\ WF_linkVars(ClientRuns(OpenTimeoutElapses))
    /\ WF_linkVars(commandLoop)
    /\ WF_linkVars(BeatBegins \/ sendHeartbeat)

LinkSpec == LinkInit /\ [][LinkNext]_linkVars /\ LinkFairness

-----------------------------------------------------------------------------
(* Properties *)

(* Redis stays up: the agent leaves the REST fallback for good.            *)
LeavesFallback ==
    <>[]redisUp => <>[](mode # ModeREST)

(* Redis stays up and stops losing requests: the agent's heartbeat is in   *)
(* Redis again and again, although the breaker may have opened and the     *)
(* mode may have changed in the outage.                                    *)
HeartbeatsResume ==
    <>[](redisUp /\ agent = "online") /\ <>[][~BeatLost]_linkVars => []<>seen

(* "6. On Redis recovery the agent goes back to ModeRedis by itself"       *)
(* (pipeline-agent/README.md).  Nothing leads out of ModeHybrid but the    *)
(* next outage.                                                            *)
ModeReturns ==
    <>[]redisUp => <>[](mode = ModeRedis)

=============================================================================
