------------------------------ MODULE Scheduler ------------------------------
(***************************************************************************)
(* SchedulerService of the control plane: the cron jobs that start batch   *)
(* workflows, over the workflow rows of the database.  A job that fires    *)
(* runs in a goroutine of its own and works on the row it loaded at its    *)
(* start.  The service's mutex guards the map of jobs; Stop keeps it while *)
(* it waits for the jobs that run.  The requests of the API that change    *)
(* the same rows and the same jobs are in WorkflowRequests.                *)
(***************************************************************************)
EXTENDS Naturals, FiniteSets

CONSTANTS
    Workflows,      \* batch workflows
    Fires,          \* goroutines in which cron runs a job
    MaxStarts       \* bound: executions created

ASSUME SchedulerAssumption == MaxStarts \in Nat

VARIABLES
    wf,         \* the workflows table
    running,    \* workflow_executions: how many of a workflow are "running"
    starts,     \* executions created so far
    entries,    \* cron: how many entries a workflow has
    jobs,       \* s.jobs: the workflows with an entry ID
    fire,       \* the job that each goroutine of cron executes
    stop        \* Stop: "no", "waiting" with the mutex held, "done"

schedVars == <<wf, running, starts, entries, jobs, fire, stop>>

(* The schedule of a row, as the code tells schedules apart: no cron       *)
(* expression; one that cron accepts, with schedule_type "cron" or with    *)
(* another type; one that cron rejects.                                    *)
Schedules == {"none", "cron", "other", "bad"}
HasExpression(s) == s # "none"
Parses(s) == s \in {"cron", "other"}
OfCronType(s) == s \in {"cron", "bad"}

Statuses == {"idle", "running", "paused", "stopped"}
Row == [life : {"new", "live", "deleted"}, enabled : BOOLEAN,
        sched : Schedules, status : Statuses]
Exists(w) == wf[w].life = "live"

NoFire == [at |-> "none"]
MutexFree == stop # "waiting"
EntryCount(w, n) == entries' = [entries EXCEPT ![w] = n]

(* An UPDATE of some columns: it misses a row that is deleted by now.      *)
Update(w, row) ==
    wf' = IF Exists(w) THEN [wf EXCEPT ![w] = row] ELSE wf

(* A new execution record, with status "running".                          *)
CreateExecution(w) ==
    /\ starts < MaxStarts
    /\ starts' = starts + 1
    /\ running' = [running EXCEPT ![w] = @ + 1]

-----------------------------------------------------------------------------
(* Variant: the entry that the workflow has already is left in cron.       *)
addScheduleInternal_KeepsOld(w, row) ==
    IF row.enabled /\ HasExpression(row.sched) /\ Parses(row.sched)
    THEN EntryCount(w, entries[w] + 1) /\ jobs' = jobs \cup {w}
    ELSE UNCHANGED <<entries, jobs>>

(* The old entry goes first, so an expression that cron rejects leaves the *)
(* workflow without one.                                                   *)
addScheduleInternal(w, row) ==
    LET left == entries[w] - (IF w \in jobs THEN 1 ELSE 0) IN
    IF row.enabled /\ HasExpression(row.sched) /\ Parses(row.sched)
    THEN EntryCount(w, left + 1) /\ jobs' = jobs \cup {w}
    ELSE EntryCount(w, left) /\ jobs' = jobs \ {w}

AddSchedule(w, row) == MutexFree /\ addScheduleInternal(w, row)

RemoveSchedule(w) ==
    /\ MutexFree
    /\ EntryCount(w, IF w \in jobs THEN entries[w] - 1 ELSE entries[w])
    /\ jobs' = jobs \ {w}

(* loadSchedules, when the process starts: the rows it selects, each       *)
(* through addScheduleInternal.                                            *)
Loaded ==
    {w \in Workflows : /\ Exists(w) /\ wf[w].enabled
                       /\ OfCronType(wf[w].sched) /\ Parses(wf[w].sched)}

Start ==
    /\ jobs' = Loaded
    /\ entries' = [w \in Workflows |-> IF w \in Loaded THEN 1 ELSE 0]
    /\ fire' = [f \in Fires |-> NoFire]
    /\ stop' = "no"
    /\ UNCHANGED <<wf, running, starts>>

-----------------------------------------------------------------------------
(* An entry's time comes: cron starts its job in a new goroutine.          *)
CronFires(f, w) ==
    /\ stop = "no"
    /\ entries[w] > 0
    /\ fire[f] = NoFire
    /\ fire' = [fire EXCEPT ![f] = [at |-> "load", w |-> w]]
    /\ UNCHANGED <<wf, running, starts, entries, jobs, stop>>

JobAt(f, w, point) ==
    fire' = [fire EXCEPT ![f] = IF point = "none" THEN NoFire
                                ELSE [at |-> point, w |-> w]]

(* Variant: a job whose schedule is disabled just ends.                    *)
JobLoads_Forgets(f) ==
    LET w == fire[f].w IN
    /\ fire[f].at = "load"
    /\ JobAt(f, w, IF Exists(w) /\ wf[w].enabled /\ wf[w].status # "running"
                   THEN "create" ELSE "none")
    /\ UNCHANGED <<wf, running, starts, entries, jobs, stop>>

(* Run: load the row; a deleted or a running workflow ends the job, a      *)
(* disabled one is unregistered.                                           *)
JobLoads(f) ==
    LET w == fire[f].w IN
    /\ fire[f].at = "load"
    /\ JobAt(f, w, CASE ~Exists(w) -> "none"
                     [] Exists(w) /\ ~wf[w].enabled -> "remove"
                     [] Exists(w) /\ wf[w].enabled ->
                           IF wf[w].status = "running" THEN "none" ELSE "create")
    /\ UNCHANGED <<wf, running, starts, entries, jobs, stop>>

JobRemoves(f) ==
    /\ fire[f].at = "remove"
    /\ RemoveSchedule(fire[f].w)
    /\ JobAt(f, fire[f].w, "none")
    /\ UNCHANGED <<wf, running, starts, stop>>

JobCreates(f) ==
    /\ fire[f].at = "create"
    /\ \/ CreateExecution(fire[f].w) /\ JobAt(f, fire[f].w, "mark")
       \/ UNCHANGED <<running, starts>> /\ JobAt(f, fire[f].w, "none")
    /\ UNCHANGED <<wf, entries, jobs, stop>>

JobMarks(f) ==
    LET w == fire[f].w IN
    /\ fire[f].at = "mark"
    /\ Update(w, [wf[w] EXCEPT !.status = "running"])
    /\ JobAt(f, w, "next")
    /\ UNCHANGED <<running, starts, entries, jobs, stop>>

(* next_run_at under the read lock, then the command for the agents.       *)
JobEnds(f) ==
    /\ fire[f].at = "next"
    /\ MutexFree
    /\ JobAt(f, fire[f].w, "none")
    /\ UNCHANGED <<wf, running, starts, entries, jobs, stop>>

Job(f) == JobLoads(f) \/ JobRemoves(f) \/ JobCreates(f) \/ JobMarks(f) \/ JobEnds(f)

(* Stop: no entry fires any more; wait, with the mutex, for those running. *)
Stop ==
    /\ stop = "no"
    /\ stop' = "waiting"
    /\ UNCHANGED <<wf, running, starts, entries, jobs, fire>>

StopReturns ==
    /\ stop = "waiting"
    /\ \A f \in Fires : fire[f] = NoFire
    /\ stop' = "done"
    /\ UNCHANGED <<wf, running, starts, entries, jobs, fire>>

=============================================================================
