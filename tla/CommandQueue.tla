---------------------------- MODULE CommandQueue ----------------------------
(***************************************************************************)
(* RedisService of the control plane: SendCommandToAgent publishes a       *)
(* command, or queues it when Publish fails; every return to the Connected *)
(* state spawns a retryPendingCommands that goes through a snapshot of the *)
(* queue.  Publish may refuse a command (not connected, circuit open), may *)
(* lose it, or may deliver it and lose the answer.                         *)
(***************************************************************************)
EXTENDS Naturals, FiniteSets

CONSTANTS
    Commands,   \* the calls of SendCommandToAgent, each with its own uuid
    Retries,    \* goroutines in retryPendingCommands
    NoCommand

ASSUME CommandsAssumption == NoCommand \notin Commands

VARIABLES
    connected,  \* the client is in the Connected state
    blocked,    \* its circuit breaker refuses requests
    sender,     \* where each SendCommandToAgent is
    pending,    \* s.pendingCommands
    old,        \* commands created more than 24 hours ago
    retry,      \* each goroutine: "idle", "spawned" or "walking" its batch
    batch,      \* the commands each retry has still to go through
    inHand,     \* the command a retry has published and not yet removed
    published   \* commands whose Publish has answered without an error

queueVars == <<connected, blocked, sender, pending, old, retry, batch, inHand, published>>

retryVars == <<retry, batch, inHand>>

Accepts == connected /\ ~blocked

-----------------------------------------------------------------------------
(* SendCommandToAgent *)

Send(c) ==
    /\ sender[c] = "unsent"
    /\ Accepts
    /\ published' = published \cup {c}
    /\ sender' = [sender EXCEPT ![c] = "returned"]
    /\ UNCHANGED <<connected, blocked, pending, old, retryVars>>

SendFails(c) ==
    /\ sender[c] = "unsent"
    /\ sender' = [sender EXCEPT ![c] = "failed"]
    /\ UNCHANGED <<connected, blocked, pending, old, retryVars, published>>

queuePendingCommand(c) ==
    /\ sender[c] = "failed"
    /\ pending' = pending \cup {c}
    /\ sender' = [sender EXCEPT ![c] = "returned"]
    /\ UNCHANGED <<connected, blocked, old, retryVars, published>>

-----------------------------------------------------------------------------
(* OnStateChange and retryPendingCommands *)

ConnectionLost ==
    /\ connected
    /\ connected' = FALSE
    /\ UNCHANGED <<blocked, sender, pending, old, retryVars, published>>

(* The callback spawns the retry; the loop that reconnected resets the     *)
(* circuit breaker only after the callback (Unblocked).                    *)
ConnectionRestored(r) ==
    /\ ~connected
    /\ retry[r] = "idle"
    /\ connected' = TRUE
    /\ retry' = [retry EXCEPT ![r] = "spawned"]
    /\ UNCHANGED <<blocked, sender, pending, old, batch, inHand, published>>

RetryBegin(r) ==
    /\ retry[r] = "spawned"
    /\ retry' = [retry EXCEPT ![r] = "walking"]
    /\ batch' = [batch EXCEPT ![r] = pending]
    /\ UNCHANGED <<connected, blocked, sender, pending, old, inHand, published>>

(* The next command of the snapshot, which is in no particular order.      *)
Takes(r, c) ==
    /\ inHand[r] = NoCommand
    /\ c \in batch[r]
    /\ batch' = [batch EXCEPT ![r] = @ \ {c}]
    /\ UNCHANGED <<connected, blocked, sender, old, retry>>

(* Variant: what fails again is given up.                                  *)
RetryFails_Drops(r, c) ==
    /\ Takes(r, c)
    /\ c \notin old
    /\ pending' = pending \ {c}
    /\ UNCHANGED <<inHand, published>>

RetryFails(r, c) ==
    /\ Takes(r, c)
    /\ c \notin old
    /\ UNCHANGED <<pending, inHand, published>>

RetryPublish(r, c) ==
    /\ Takes(r, c)
    /\ c \notin old
    /\ Accepts
    /\ inHand' = [inHand EXCEPT ![r] = c]
    /\ published' = published \cup {c}
    /\ UNCHANGED pending

RetryRemove(r) ==
    /\ inHand[r] # NoCommand
    /\ pending' = pending \ {inHand[r]}
    /\ inHand' = [inHand EXCEPT ![r] = NoCommand]
    /\ UNCHANGED <<connected, blocked, sender, old, retry, batch, published>>

RetryExpires(r, c) ==
    /\ Takes(r, c)
    /\ c \in old
    /\ pending' = pending \ {c}
    /\ UNCHANGED <<inHand, published>>

RetryEnds(r) ==
    /\ retry[r] = "walking"
    /\ batch[r] = {}
    /\ inHand[r] = NoCommand
    /\ retry' = [retry EXCEPT ![r] = "idle"]
    /\ UNCHANGED <<connected, blocked, sender, pending, old, batch, inHand, published>>

-----------------------------------------------------------------------------
CircuitOpens ==
    /\ ~blocked
    /\ blocked' = TRUE
    /\ UNCHANGED <<connected, sender, pending, old, retryVars, published>>

Unblocked ==
    /\ blocked
    /\ blocked' = FALSE
    /\ UNCHANGED <<connected, sender, pending, old, retryVars, published>>

ADayPasses(c) ==
    /\ c \in pending \ old
    /\ old' = old \cup {c}
    /\ UNCHANGED <<connected, blocked, sender, pending, retryVars, published>>

QueueInit ==
    /\ connected \in BOOLEAN
    /\ blocked = FALSE
    /\ sender = [c \in Commands |-> "unsent"]
    /\ pending = {}
    /\ old = {}
    /\ retry = [r \in Retries |-> "idle"]
    /\ batch = [r \in Retries |-> {}]
    /\ inHand = [r \in Retries |-> NoCommand]
    /\ published = {}

SendStep(c) == Send(c) \/ SendFails(c) \/ queuePendingCommand(c)

RetryStep(r) ==
    \/ RetryBegin(r)
    \/ \E c \in Commands : RetryFails(r, c) \/ RetryPublish(r, c) \/ RetryExpires(r, c)
    \/ RetryRemove(r)
    \/ RetryEnds(r)

QueueNext ==
    \/ \E c \in Commands : SendStep(c) \/ ADayPasses(c)
    \/ \E r \in Retries : RetryStep(r) \/ ConnectionRestored(r)
    \/ ConnectionLost
    \/ CircuitOpens
    \/ Unblocked

(* The goroutines run.                                                     *)
QueueFairness ==
    /\ \A c \in Commands : WF_queueVars(queuePendingCommand(c))
    /\ \A r \in Retries : WF_queueVars(RetryStep(r))

QueueSpec == QueueInit /\ [][QueueNext]_queueVars /\ QueueFairness

-----------------------------------------------------------------------------
(* Properties *)

(* Every variable stays in its range.  A command is in the queue only once *)
(* its sender has returned, a retry removes only what it has published,    *)
(* and one that is not walking its batch holds nothing.                    *)
QueueTypeOK ==
    /\ connected \in BOOLEAN
    /\ blocked \in BOOLEAN
    /\ sender \in [Commands -> {"unsent", "failed", "returned"}]
    /\ pending \in SUBSET Commands
    /\ old \in SUBSET Commands
    /\ retry \in [Retries -> {"idle", "spawned", "walking"}]
    /\ batch \in [Retries -> SUBSET Commands]
    /\ inHand \in [Retries -> Commands \cup {NoCommand}]
    /\ published \in SUBSET Commands
    /\ \A c \in pending : sender[c] = "returned"
    /\ \A r \in Retries :
          /\ inHand[r] \in published \cup {NoCommand}
          /\ retry[r] # "walking" => batch[r] = {} /\ inHand[r] = NoCommand

(* No command is lost inside the control plane: once SendCommandToAgent    *)
(* has returned, the command has been published, or it is in the queue, or *)
(* it was dropped after a day, whatever retries overlap                    *)
(* (SendCommandToAgent, retryPendingCommands).                             *)
NoCommandLost ==
    \A c \in Commands :
        sender[c] = "returned" => c \in published \cup pending \cup old

(* "Redis Recovery: batch resend pending commands, automatic"              *)
(* (README.md): once the connection is back for good and the circuit is    *)
(* closed for good, the queue empties.  A command whose retry was refused  *)
(* before the circuit was reset, or that was queued while the client was   *)
(* connected, waits for the next outage.                                   *)
PendingIsResent ==
    <>[](connected /\ ~blocked) => <>[](pending = {})

=============================================================================
