----------------------------- MODULE MCCommands -----------------------------
(* The commands the control plane sends to an agent, the cache of the      *)
(* client both sides use, the pipelines of the agent, and the actors of a  *)
(* pipeline do not share state: each behaviour is of one of them           *)
(* (subject), the others keep their initial state.                         *)
(* Of the actors, one message waits to be routed while the child works on  *)
(* another: both can fail, and the two failures are handled by two workers *)
(* at once.                                                                *)
EXTENDS CommandQueue, LocalCache, Supervision, AgentPipelines

VARIABLE subject

MCWaiting == <<DataMsg("d1")>>
MCRouted == <<DataMsg("d2")>>
Default == [overflow |-> "backpressure", strategy |-> "one_for_one", maxRestarts |-> 2]
MCSettings ==
    {Default,
     [overflow |-> "drop_oldest", strategy |-> "one_for_all", maxRestarts |-> 2],
     [overflow |-> "drop_newest", strategy |-> "one_for_one", maxRestarts |-> 1]}

MCInit ==
    /\ QueueInit /\ CacheInit /\ AgentInit /\ SupInit
    /\ subject \in {"commands", "cache", "agent", "actors"}
    /\ subject # "actors" => overflow = Default.overflow
    /\ subject # "commands" => connected

MCNext ==
    /\ UNCHANGED subject
    /\ \/ subject = "commands" /\ QueueNext /\ UNCHANGED <<cacheVars, agentVars, treeVars>>
       \/ subject = "cache" /\ CacheNext /\ UNCHANGED <<queueVars, agentVars, treeVars>>
       \/ subject = "agent" /\ AgentNext /\ UNCHANGED <<queueVars, cacheVars, treeVars>>
       \/ subject = "actors" /\ SupNext /\ UNCHANGED <<queueVars, cacheVars, agentVars>>

MCSpec == MCInit /\ [][MCNext]_<<subject, queueVars, cacheVars, agentVars, treeVars>>

=============================================================================
