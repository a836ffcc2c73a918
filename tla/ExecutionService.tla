-------------------------- MODULE ExecutionService --------------------------
(***************************************************************************)
(* The execution service of the control plane, for one workflow: the table *)
(* of running workflows, the goroutine of each execution and the status of *)
(* the execution's and of the workflow's row.  Requests hold s.mu from     *)
(* their first to their last statement; the goroutine takes it only in     *)
(* cleanupExecution.                                                       *)
(***************************************************************************)
EXTENDS Naturals

CONSTANTS
    MaxExec,         \* bound: executions started
    PipelineCount,   \* number of pipelines of the workflow
    MaxTicks         \* bound: polls of the realtime loops

ASSUME ServiceAssumption == MaxExec \in Nat

Execs == 1..MaxExec

VARIABLES
    type,        \* of the workflow
    started,     \* executions started so far
    tracked,     \* runningWorkflows[workflowID], 0 for no entry
    ctx,         \* the context of each execution: "no", or who cancelled it
    at,          \* where its goroutine is
    done,        \* pipelines a batch execution has run
    row,         \* status of each row of workflow_executions
    wfStatus,    \* status of the row of the workflow
    ticks,       \* polls done
    samples      \* sample_count of the hour's row of statistics

serviceVars == <<type, started, tracked, ctx, at, done, row, wfStatus, ticks, samples>>

ServiceInit ==
    /\ type \in {"batch", "realtime", "unknown"}
    /\ started = 0 /\ tracked = 0
    /\ ctx = [e \in Execs |-> "no"]
    /\ at = [e \in Execs |-> "none"]
    /\ done = [e \in Execs |-> 0]
    /\ row = [e \in Execs |-> "none"]
    /\ wfStatus = "idle"
    /\ ticks = 0 /\ samples = 0

-----------------------------------------------------------------------------
(* Requests *)

StartExecution ==
    /\ tracked = 0
    /\ started < MaxExec
    /\ LET e == started + 1 IN
       /\ started' = e
       /\ tracked' = e
       /\ row' = [row EXCEPT ![e] = "running"]
       /\ at' = [at EXCEPT ![e] = "run"]
    /\ wfStatus' = "running"
    /\ UNCHANGED <<type, ctx, done, ticks, samples>>

(* Variant: the entry stays in the table.                                  *)
StopExecution_KeepsEntry ==
    /\ tracked # 0
    /\ ctx' = [ctx EXCEPT ![tracked] = "stop"]
    /\ row' = [row EXCEPT ![tracked] = "stopped"]
    /\ wfStatus' = "stopped"
    /\ UNCHANGED <<type, started, tracked, at, done, ticks, samples>>

(* Variant: the row of the execution is not updated.                       *)
StopExecution_KeepsRow ==
    /\ tracked # 0
    /\ ctx' = [ctx EXCEPT ![tracked] = "stop"]
    /\ wfStatus' = "stopped"
    /\ tracked' = 0
    /\ UNCHANGED <<type, started, row, at, done, ticks, samples>>

StopExecution ==
    /\ tracked # 0
    /\ ctx' = [ctx EXCEPT ![tracked] = "stop"]
    /\ row' = [row EXCEPT ![tracked] = "stopped"]
    /\ wfStatus' = "stopped"
    /\ tracked' = 0
    /\ UNCHANGED <<type, started, at, done, ticks, samples>>

(* The context of an execution is derived from the caller's, which may be  *)
(* cancelled on its own.                                                   *)
CallerCancels(e) ==
    /\ at[e] # "none" /\ ctx[e] = "no"
    /\ ctx' = [ctx EXCEPT ![e] = "caller"]
    /\ UNCHANGED <<type, started, tracked, at, done, row, wfStatus, ticks, samples>>

PauseExecution ==
    /\ tracked # 0
    /\ wfStatus' = "paused"
    /\ UNCHANGED <<type, started, tracked, ctx, at, done, row, ticks, samples>>

ResumeExecution ==
    /\ tracked # 0
    /\ wfStatus' = "running"
    /\ UNCHANGED <<type, started, tracked, ctx, at, done, row, ticks, samples>>

-----------------------------------------------------------------------------
(* The goroutine of an execution *)

Goes(e, from, to) == at[e] = from /\ at' = [at EXCEPT ![e] = to]

(* runBatchExecution: the context is tested before each pipeline.          *)
BatchPipeline(e) ==
    /\ type = "batch" /\ at[e] = "run" /\ done[e] < PipelineCount
    /\ IF ctx[e] # "no"
       THEN Goes(e, "run", "cleanup") /\ UNCHANGED done
       ELSE done' = [done EXCEPT ![e] = @ + 1] /\ UNCHANGED at
    /\ UNCHANGED <<type, started, tracked, ctx, row, wfStatus, ticks, samples>>

BatchCompletesRow(e) ==
    /\ type = "batch" /\ done[e] = PipelineCount
    /\ Goes(e, "run", "workflow")
    /\ row' = [row EXCEPT ![e] = "completed"]
    /\ UNCHANGED <<type, started, tracked, ctx, done, wfStatus, ticks, samples>>

BatchCompletesWorkflow(e) ==
    /\ Goes(e, "workflow", "cleanup")
    /\ wfStatus' = "completed"
    /\ UNCHANGED <<type, started, tracked, ctx, done, row, ticks, samples>>

(* runRealtimeExecution: a poll counts a sample in updateHourlyStats,      *)
(* which reads the row and then writes what it has read plus one.  The     *)
(* select may take a tick although the context is done.                    *)
RealtimeReads(e) ==
    /\ type = "realtime" /\ ticks < MaxTicks
    /\ Goes(e, "run", "stats")
    /\ done' = [done EXCEPT ![e] = samples]
    /\ ticks' = ticks + 1
    /\ UNCHANGED <<type, started, tracked, ctx, row, wfStatus, samples>>

RealtimeWrites(e) ==
    /\ Goes(e, "stats", "run")
    /\ samples' = done[e] + 1
    /\ UNCHANGED <<type, started, tracked, ctx, done, row, wfStatus, ticks>>

RealtimeEnds(e) ==
    /\ type = "realtime" /\ ctx[e] # "no"
    /\ Goes(e, "run", "cleanup")
    /\ UNCHANGED <<type, started, tracked, ctx, done, row, wfStatus, ticks, samples>>

(* runExecution of a type it does not know.                                *)
UnknownType(e) ==
    /\ type = "unknown"
    /\ Goes(e, "run", "cleanup")
    /\ UNCHANGED <<type, started, tracked, ctx, done, row, wfStatus, ticks, samples>>

(* The entry of the workflow is deleted, whichever execution it is of.     *)
cleanupExecution(e) ==
    /\ Goes(e, "cleanup", "ended")
    /\ tracked' = 0
    /\ UNCHANGED <<type, started, ctx, done, row, wfStatus, ticks, samples>>

runExecution(e) ==
    \/ BatchPipeline(e) \/ BatchCompletesRow(e) \/ BatchCompletesWorkflow(e)
    \/ RealtimeReads(e) \/ RealtimeWrites(e) \/ RealtimeEnds(e)
    \/ UnknownType(e) \/ cleanupExecution(e)

ServiceNext ==
    \/ StartExecution \/ StopExecution \/ PauseExecution \/ ResumeExecution
    \/ \E e \in Execs : runExecution(e) \/ CallerCancels(e)

(* The goroutine of an execution runs on.                                  *)
ServiceFairness == \A e \in Execs : WF_serviceVars(runExecution(e))

ServiceSpec == ServiceInit /\ [][ServiceNext]_serviceVars /\ ServiceFairness

-----------------------------------------------------------------------------
Live(e) == at[e] \notin {"none", "ended"} /\ ctx[e] = "no"

(* An entry of runningWorkflows is the last execution started and no       *)
(* request has stopped it: what Stop finds is what runs, if it finds       *)
(* anything, although the goroutine of an earlier execution may delete the *)
(* entry of a later one.                                                   *)
TrackedIsLatest == tracked # 0 => tracked = started /\ ctx[tracked] # "stop"

(* The row of a batch execution does not stay at running: its goroutine    *)
(* completes it or the request that cancels it marks it stopped, unless    *)
(* the context of the caller ends first: that leaves the row as it is.     *)
BatchRowEnds ==
    \A e \in Execs : (type = "batch" /\ row[e] = "running")
                       ~> (row[e] \in {"completed", "stopped"} \/ ctx[e] = "caller")

(* "workflow is already running": a workflow has at most one execution     *)
(* that goes on.                                                           *)
OneExecution == \A e, f \in Execs : Live(e) /\ Live(f) => e = f
=============================================================================
