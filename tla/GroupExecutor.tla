---------------------------- MODULE GroupExecutor ----------------------------
(***************************************************************************)
(* The executor of a group of pipelines: in parallel, one after the other  *)
(* by priority, or in the order of their dependencies.  Start refuses only *)
(* a group whose status is running, so that a run may begin while another  *)
(* goes on; the jobs and the end of a run write to the execution that is   *)
(* then current.                                                           *)
(***************************************************************************)
EXTENDS Naturals, FiniteSets

CONSTANTS
    Pipelines,   \* 1..n, in the order of the group's list
    Graphs,      \* the functions DependsOn considered; 0 is an unknown id
    MaxRuns      \* bound: runs started

Runs == 1..MaxRuns

VARIABLES
    mode, policy, deps, prio,  \* the group; without a policy it stops at an error, as
                               \* with stop_all, and retry goes on like skip
    status,      \* e.status
    current,     \* the run e.execution belongs to, 0 for none
    execution,   \* status of the executions
    cancelled,   \* the context of each run
    run,         \* where the goroutine of each run is
    remaining,   \* pipelines of a run that are still to start
    job,         \* the pipelines of each run
    results      \* PipelineResults of the executions: of which run's job

vars == <<mode, policy, deps, prio, status, current, execution, cancelled, run, remaining, job, results>>
group == <<mode, policy, deps, prio>>

Init ==
    /\ mode \in {"parallel", "sequential", "dag"}
    /\ policy \in {"nil", "continue", "skip"}
    /\ deps \in Graphs
    /\ prio \in [Pipelines -> 0..1]
    /\ mode # "dag" => deps = [p \in Pipelines |-> {}]
    /\ mode # "sequential" => prio = [p \in Pipelines |-> 0]
    /\ status = "idle" /\ current = 0
    /\ execution = [r \in Runs |-> "none"]
    /\ cancelled = [r \in Runs |-> FALSE]
    /\ run = [r \in Runs |-> "none"]
    /\ remaining = [r \in Runs |-> Pipelines]
    /\ job = [r \in Runs |-> [p \in Pipelines |-> "no"]]
    /\ results = [r \in Runs |-> {}]

-----------------------------------------------------------------------------
(* Requests *)

Start ==
    /\ status # "running"
    /\ \E r \in Runs :
         /\ run[r] = "none" /\ \A q \in Runs : q < r => run[q] # "none"
         /\ run' = [run EXCEPT ![r] = "loop"]
         /\ current' = r
         /\ execution' = [execution EXCEPT ![r] = "running"]
    /\ status' = "running"
    /\ UNCHANGED <<group, cancelled, remaining, job, results>>

Stop ==
    /\ status' = "stopped"
    /\ cancelled' = IF current = 0 THEN cancelled ELSE [cancelled EXCEPT ![current] = TRUE]
    /\ UNCHANGED <<group, current, execution, run, remaining, job, results>>

Pause ==
    /\ status' = "paused"
    /\ UNCHANGED <<group, current, execution, cancelled, run, remaining, job, results>>

Resume ==
    /\ status = "paused"
    /\ status' = "running"
    /\ UNCHANGED <<group, current, execution, cancelled, run, remaining, job, results>>

-----------------------------------------------------------------------------
(* runPipeline *)

State(r, p) == job[r][p]
Finished(r, p) == State(r, p) \in {"completed", "failed", "canceled"}
Busy(r) == \E p \in Pipelines : State(r, p) = "running"
Errs(r) == {p \in Pipelines : State(r, p) \in {"failed", "canceled"}}

(* A job fails when its source cannot be created or opened, is canceled    *)
(* with the run's context and completes at the end of its source.  What it *)
(* reads goes to every sink: applyStage and sendToSink change nothing.     *)
(* The result is appended to the execution that is then current.           *)
runPipeline(r, p) ==
    /\ State(r, p) = "running"
    /\ \/ job' = [job EXCEPT ![r][p] = "failed"]
       \/ cancelled[r] /\ job' = [job EXCEPT ![r][p] = "canceled"]
       \/ job' = [job EXCEPT ![r][p] = "completed"]
    /\ results' = [results EXCEPT ![current] = @ \cup {<<r, p>>}]
    /\ UNCHANGED <<group, status, current, execution, cancelled, run, remaining>>

-----------------------------------------------------------------------------
(* The goroutine of a run *)

StartJobs(r, ps) ==
    /\ job' = [job EXCEPT ![r] = [p \in Pipelines |->
                 IF p \in ps THEN "running" ELSE job[r][p]]]
    /\ remaining' = [remaining EXCEPT ![r] = @ \ ps]

Returns(r, result) == run' = [run EXCEPT ![r] = result]

(* runParallel *)
ParallelStarts(r) ==
    /\ mode = "parallel" /\ run[r] = "loop" /\ remaining[r] # {}
    /\ StartJobs(r, remaining[r])
    /\ UNCHANGED <<group, status, current, execution, cancelled, run, results>>

ParallelEnds(r) ==
    /\ mode = "parallel" /\ run[r] = "loop" /\ remaining[r] = {} /\ ~Busy(r)
    /\ Returns(r, IF Errs(r) # {} /\ policy # "continue" THEN "err" ELSE "nil")
    /\ UNCHANGED <<group, status, current, execution, cancelled, remaining, job, results>>

(* sortByPriority is stable: the next pipeline is the first of the list    *)
(* among those of the lowest priority.                                     *)
Before(p, q) == prio[p] < prio[q] \/ (prio[p] = prio[q] /\ p <= q)
NextByPriority(r) == CHOOSE p \in remaining[r] : \A q \in remaining[r] : Before(p, q)

(* runSequential: an error ends the run unless the policy goes on; the     *)
(* context is tested before each pipeline.                                 *)
SequentialStep(r) ==
    /\ mode = "sequential" /\ run[r] = "loop" /\ ~Busy(r)
    /\ IF Errs(r) # {} /\ policy = "nil"
          THEN Returns(r, "err") /\ UNCHANGED <<remaining, job>>
       ELSE IF remaining[r] = {} THEN Returns(r, "nil") /\ UNCHANGED <<remaining, job>>
       ELSE IF cancelled[r] THEN Returns(r, "err") /\ UNCHANGED <<remaining, job>>
       ELSE StartJobs(r, {NextByPriority(r)}) /\ UNCHANGED run
    /\ UNCHANGED <<group, status, current, execution, cancelled, results>>

(* Variant: a dependency that has failed counts as completed.              *)
canRun_Finished(r, p) == \A d \in deps[p] : d \in Pipelines /\ Finished(r, d)

canRun(r, p) == \A d \in deps[p] : d \in Pipelines /\ State(r, d) = "completed"

(* Variant: with nothing to run the loop goes round again.                 *)
DAGStep_Waits(r) ==
    /\ mode = "dag" /\ run[r] = "loop" /\ ~Busy(r)
    /\ LET toRun == {p \in remaining[r] : canRun(r, p)} IN
       IF Errs(r) # {} /\ policy = "nil"
          THEN Returns(r, "err") /\ UNCHANGED <<remaining, job>>
       ELSE IF remaining[r] = {} THEN Returns(r, "nil") /\ UNCHANGED <<remaining, job>>
       ELSE IF cancelled[r] THEN Returns(r, "err") /\ UNCHANGED <<remaining, job>>
       ELSE StartJobs(r, toRun) /\ UNCHANGED run
    /\ UNCHANGED <<group, status, current, execution, cancelled, results>>

(* runDAG: a round starts every pipeline whose dependencies have completed *)
(* and waits for all of them; nothing to start is an error.                *)
DAGStep(r) ==
    /\ mode = "dag" /\ run[r] = "loop" /\ ~Busy(r)
    /\ LET toRun == {p \in remaining[r] : canRun(r, p)} IN
       IF Errs(r) # {} /\ policy = "nil"
          THEN Returns(r, "err") /\ UNCHANGED <<remaining, job>>
       ELSE IF remaining[r] = {} THEN Returns(r, "nil") /\ UNCHANGED <<remaining, job>>
       ELSE IF cancelled[r] \/ toRun = {} THEN Returns(r, "err") /\ UNCHANGED <<remaining, job>>
       ELSE StartJobs(r, toRun) /\ UNCHANGED run
    /\ UNCHANGED <<group, status, current, execution, cancelled, results>>

(* The end of the goroutine, under e.mu: the current execution is closed.  *)
RunEnds(r) ==
    /\ run[r] \in {"nil", "err"}
    /\ run' = [run EXCEPT ![r] = IF @ = "nil" THEN "ended ok" ELSE "ended in error"]
    /\ LET s == IF run[r] = "nil" THEN "completed" ELSE "error" IN
       /\ status' = s
       /\ execution' = [execution EXCEPT ![current] = s]
    /\ UNCHANGED <<group, current, cancelled, remaining, job, results>>

RunStep(r) ==
    ParallelStarts(r) \/ ParallelEnds(r) \/ SequentialStep(r) \/ DAGStep(r) \/ RunEnds(r)

Next ==
    \/ Start \/ Stop \/ Pause \/ Resume
    \/ \E r \in Runs : RunStep(r) \/ \E p \in Pipelines : runPipeline(r, p)

(* A goroutine that can go on does; a source ends.                         *)
Fairness ==
    \A r \in Runs : /\ WF_vars(RunStep(r))
                    /\ \A p \in Pipelines : WF_vars(runPipeline(r, p))

Spec == Init /\ [][Next]_vars /\ Fairness

-----------------------------------------------------------------------------
(* A pipeline of a DAG starts only when every pipeline it depends on has   *)
(* completed without error in the same run, whatever the failure policy,   *)
(* also while another run of the group is under way.                       *)
DependenciesFirst ==
    mode = "dag" =>
        \A r \in Runs, p \in Pipelines :
            State(r, p) # "no" => \A d \in deps[p] : d \in Pipelines /\ State(r, d) = "completed"

(* Every run that is started ends, also when the dependencies are circular *)
(* or name a pipeline that is not there.                                   *)
RunTerminates ==
    \A r \in Runs : (run[r] # "none") ~> (run[r] \in {"ended ok", "ended in error"})
=============================================================================
