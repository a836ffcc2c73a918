---------------------------- MODULE AgentPipelines ----------------------------
(***************************************************************************)
(* The pipelines of an agent: its map of instances, guarded by a.mu, and   *)
(* the Runner, with its actor system, below each instance.  The HTTP API   *)
(* and the commands from Redis call the same operations, at any time and   *)
(* in any order.  a.mu is held from the beginning of an operation to its   *)
(* end; only a stop lets others see steps in between, because it waits for *)
(* the dispatcher of the actor system.  The goroutines of the actors are   *)
(* not waited for: they end some time after their context is cancelled.    *)
(* What happens inside of the actor system is modelled in ActorSystem.     *)
(***************************************************************************)
EXTENDS Naturals, Sequences, FiniteSets, Relation

CONSTANTS
    Ids,          \* ids of pipelines
    Transforms,   \* names of the transforms of a flat configuration
    MaxRunners    \* bound: runners that are ever created

Free == [op |-> "free"]
NoReply == [cfg |-> [type |-> "none"], result |-> "none"]

VARIABLES
    instances,   \* a.pipelines: id -> [runner, status]
    runners,     \* every runner created so far, a sequence
    mu,          \* a.mu: Free, or the operation that holds it
    status,      \* of the agent
    reply       \* to the last request to start a pipeline

agentVars == <<instances, runners, mu, status, reply>>

-----------------------------------------------------------------------------
(* Configurations.  A flat one has the source "src", one input of each     *)
(* transform, a sink behind every transform, and a sink that has the name  *)
(* of the source or a name of its own; "?" is a name nobody has.           *)
Flat == [type : {"flat"}, inputs : [Transforms -> Transforms \cup {"src", "?"}], sameName : BOOLEAN]
Configs == Flat \cup [type : {"actor"}, definition : BOOLEAN] \cup [type : {"stream"}]

Orders == {o \in [1..Cardinality(Transforms) -> Transforms] : \A i, j \in DOMAIN o : o[i] = o[j] => i = j}

(* The transforms are visited in the order Go's map gives them, which is   *)
(* another one at each call; an input is available when it is a source or  *)
(* a transform visited before.  Every input of the sinks is available then.*)
validateFlat(cfg, order) ==
    \A i \in DOMAIN order : cfg.inputs[order[i]] \in {"src"} \cup {order[j] : j \in 1..(i - 1)}

validateActor(cfg) == cfg.definition

(* There is no case for the type stream. *)
Validate(cfg, order) ==
    \/ cfg.type = "flat" /\ validateFlat(cfg, order)
    \/ cfg.type = "actor" /\ validateActor(cfg)

AgentInit ==
    /\ instances = [i \in {} |-> Free]
    /\ runners = <<>>
    /\ mu = Free
    /\ status = "online"
    /\ reply = NoReply

Has(id) == id \in DOMAIN instances
RunnerOf(id) == runners[instances[id].runner]
Becomes(id, r) == runners' = [runners EXCEPT ![instances[id].runner] = r]

-----------------------------------------------------------------------------
(* Runner.Start after the actor system has been started.  Flat: all actors *)
(* are registered below the same path, so two of the same name are refused *)
(* when some of the others run already.  Actor: the root is spawned, and   *)
(* asked to spawn its children.                                            *)
startFlatPipeline(cfg) == ~cfg.sameName
startActorPipeline(cfg) == cfg.definition

Started(cfg) == IF cfg.type = "flat" THEN startFlatPipeline(cfg) ELSE startActorPipeline(cfg)

(* When a spawn fails, the actor system is stopped, and with it the actors *)
(* spawned so far.                                                         *)
RunnerStart(cfg) ==
    [status |-> IF Started(cfg) THEN "running" ELSE "pending", cancelled |-> ~Started(cfg), alive |-> TRUE]

NewRunner(cfg) ==
    /\ Len(runners) < MaxRunners
    /\ runners' = Append(runners, RunnerStart(cfg))

(* Variant: the map is not looked at first. *)
StartPipeline_NoCheck(id, cfg, order) ==
    /\ mu = Free /\ Validate(cfg, order) /\ Started(cfg)
    /\ NewRunner(cfg)
    /\ instances' = [i \in DOMAIN instances \cup {id} |->
                        IF i = id THEN [runner |-> Len(runners'), status |-> "running"] ELSE instances[i]]
    /\ reply' = [cfg |-> cfg, result |-> "started"]
    /\ UNCHANGED <<mu, status>>

StartPipeline(id, cfg, order) ==
    /\ mu = Free
    /\ \/ /\ Has(id)
          /\ reply' = [NoReply EXCEPT !.result = "exists"]
          /\ UNCHANGED <<instances, runners>>
       \/ /\ ~Has(id) /\ ~Validate(cfg, order)
          /\ reply' = [cfg |-> cfg, result |-> "invalid"]
          /\ UNCHANGED <<instances, runners>>
       \/ /\ ~Has(id) /\ Validate(cfg, order) /\ ~Started(cfg)
          /\ NewRunner(cfg)
          /\ reply' = [cfg |-> cfg, result |-> "failed"]
          /\ UNCHANGED instances
       \/ /\ ~Has(id) /\ Validate(cfg, order) /\ Started(cfg)
          /\ NewRunner(cfg)
          /\ instances' = [i \in DOMAIN instances \cup {id} |->
                              IF i = id THEN [runner |-> Len(runners'), status |-> "running"] ELSE instances[i]]
          /\ reply' = [cfg |-> cfg, result |-> "started"]
    /\ UNCHANGED <<mu, status>>

(* Runner.Pause and Runner.Resume change the status and nothing else: no   *)
(* actor is told.                                                          *)
Pause(r) == [r EXCEPT !.status = "paused"]
Resume(r) == [r EXCEPT !.status = "running"]

PausePipeline(id) ==
    /\ mu = Free /\ Has(id) /\ RunnerOf(id).status = "running"
    /\ Becomes(id, Pause(RunnerOf(id)))
    /\ instances' = [instances EXCEPT ![id].status = "paused"]
    /\ UNCHANGED <<mu, status, reply>>

(* Variant: the runner is asked, and the instance keeps its status. *)
ResumePipeline_KeepsStatus(id) ==
    /\ mu = Free /\ Has(id) /\ RunnerOf(id).status = "paused"
    /\ Becomes(id, Resume(RunnerOf(id)))
    /\ UNCHANGED <<instances, mu, status, reply>>

ResumePipeline(id) ==
    /\ mu = Free /\ Has(id) /\ RunnerOf(id).status = "paused"
    /\ Becomes(id, Resume(RunnerOf(id)))
    /\ instances' = [instances EXCEPT ![id].status = "running"]
    /\ UNCHANGED <<mu, status, reply>>

-----------------------------------------------------------------------------
(* Runner.Stop on behalf of op: the contexts of the actors are cancelled   *)
(* and their mailboxes closed, and then the dispatcher is waited for.      *)
StopBegins(op, id) ==
    /\ Becomes(id, [RunnerOf(id) EXCEPT !.cancelled = TRUE])
    /\ mu' = [op |-> op, id |-> id, pc |-> "wait"]
    /\ UNCHANGED <<instances, status, reply>>

Active(id) == RunnerOf(id).status \in {"running", "paused"}
Without(id) == [i \in DOMAIN instances \ {id} |-> instances[i]]

StopPipeline(id) == mu = Free /\ Has(id) /\ Active(id) /\ StopBegins("stop", id)

(* Agent.Stop takes a.mu and goes through the instances; the instance is   *)
(* deleted also when its runner refuses to stop.                           *)
AgentStop ==
    /\ mu = Free /\ status = "online"
    /\ mu' = [op |-> "agent", pc |-> "next"]
    /\ UNCHANGED <<instances, runners, status, reply>>

StopsNext(id) ==
    /\ mu # Free /\ mu.pc = "next" /\ Has(id)
    /\ IF Active(id) THEN StopBegins("agent", id)
       ELSE instances' = Without(id) /\ UNCHANGED <<runners, mu, status, reply>>

(* The dispatcher has come to its end, and the instance is deleted.        *)
StopEnds ==
    /\ mu # Free /\ mu.pc = "wait"
    /\ Becomes(mu.id, [RunnerOf(mu.id) EXCEPT !.status = "stopped"])
    /\ instances' = Without(mu.id)
    /\ mu' = IF mu.op = "stop" THEN Free ELSE [op |-> "agent", pc |-> "next"]
    /\ UNCHANGED <<status, reply>>

AgentStopped ==
    /\ mu # Free /\ mu.pc = "next" /\ DOMAIN instances = {}
    /\ mu' = Free /\ status' = "offline"
    /\ UNCHANGED <<instances, runners, reply>>

(* runActor of every actor of the runner notices ctx.Done and returns.     *)
ActorsEnd(n) ==
    /\ runners[n].alive /\ runners[n].cancelled
    /\ runners' = [runners EXCEPT ![n].alive = FALSE]
    /\ UNCHANGED <<instances, mu, status, reply>>

-----------------------------------------------------------------------------
(* The handlers of the API call the four operations, and do so until the   *)
(* process exits.  handleCommand calls three of them: the payload of a     *)
(* start command is not a *config.PipelineConfig after it went through     *)
(* JSON, so that command does nothing.                                     *)
Requested(id) ==
    \/ \E cfg \in Configs, order \in Orders : StartPipeline(id, cfg, order)
    \/ StopPipeline(id) \/ PausePipeline(id) \/ ResumePipeline(id)
handleCommand(id) == StopPipeline(id) \/ PausePipeline(id) \/ ResumePipeline(id)

AgentNext ==
    \/ \E id \in Ids : Requested(id) \/ handleCommand(id) \/ StopsNext(id)
    \/ StopEnds \/ AgentStop \/ AgentStopped
    \/ \E n \in DOMAIN runners : ActorsEnd(n)

AgentSpec == AgentInit /\ [][AgentNext]_agentVars

-----------------------------------------------------------------------------
Known(n) == \E id \in DOMAIN instances : instances[id].runner = n

(* Actors that no instance of the agent leads to any more, because their   *)
(* start failed halfway, or they were stopped, or the agent was, have been *)
(* told to end: no pipeline runs on where nobody can stop it by its id.    *)
NoOrphan ==
    \A n \in DOMAIN runners : runners[n].alive /\ ~runners[n].cancelled => Known(n)

(* When nobody holds a.mu, the status the agent reports of a pipeline is   *)
(* that of its Runner, and the contexts of the Runner are live: what the   *)
(* agent allows next by the one is not refused by the other.               *)
StatusesAgree ==
    mu = Free => \A id \in DOMAIN instances :
        Active(id) /\ instances[id].status = RunnerOf(id).status /\ ~RunnerOf(id).cancelled

Reaches(cfg) == TransitiveClosure([t, u \in Transforms |-> cfg.inputs[u] = t], Transforms)

(* docs/standalone-usage.md: the input of a transform is the name of a     *)
(* source or of a transform.  So a configuration whose inputs name sources *)
(* and transforms, without a cycle, is not refused as invalid.             *)
ChainsAreValid ==
    reply.cfg.type = "flat" /\ reply.result = "invalid" =>
        \E t \in Transforms : reply.cfg.inputs[t] = "?" \/ Reaches(reply.cfg)[t, t]
=============================================================================
