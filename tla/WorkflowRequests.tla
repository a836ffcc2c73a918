-------------------------- MODULE WorkflowRequests --------------------------
(***************************************************************************)
(* The API's requests on a workflow and its schedule (WorkflowHandler,     *)
(* ScheduleHandler) beside the scheduler.  A request loads the row, checks *)
(* it and answers with an error, or goes on to write; nothing keeps other  *)
(* requests and jobs out in between.  A request that ends with an error    *)
(* changes nothing and is not shown.  Save writes every column back as it  *)
(* was loaded; Update writes the columns it names.                         *)
(***************************************************************************)
EXTENDS Scheduler

CONSTANTS
    Requests,           \* requests being served
    Asked               \* the schedules that requests ask for

ASSUME AskedAssumption == Asked \subseteq Schedules

VARIABLES req           \* what each request has left to do

reqVars == <<schedVars, req>>

NoReq == [at |-> "none"]
ReqAt(r, point, w) == req' = [req EXCEPT ![r] = [at |-> point, w |-> w]]
ReqWith(r, point, w, row) ==
    req' = [req EXCEPT ![r] = [at |-> point, w |-> w, row |-> row]]
Timing(row) == [enabled |-> row.enabled, sched |-> row.sched]
Answer(r) == req' = [req EXCEPT ![r] = NoReq]

(* Load the row of w; ok is what the handler asks of it before it goes on. *)
(* What a handler does not use of the row after that is not kept.          *)
Load(r, w, point, ok) ==
    /\ req[r] = NoReq
    /\ Exists(w)
    /\ ok
    /\ CASE point \in {"start", "stop", "pause", "resume", "update"} ->
                ReqWith(r, point, w, wf[w])
         [] point \in {"reschedule", "enable"} ->
                ReqWith(r, point, w, Timing(wf[w]))
         [] OTHER -> ReqAt(r, point, w)
    /\ UNCHANGED schedVars

(* The whole row, as loaded: of a workflow deleted meanwhile, gorm may     *)
(* bring the row back.                                                     *)
Save(w, row) ==
    \/ wf' = [wf EXCEPT ![w] = row]
    \/ ~Exists(w) /\ UNCHANGED wf

OnlyRows == UNCHANGED <<running, starts, entries, jobs, fire, stop>>

-----------------------------------------------------------------------------
(* WorkflowHandler *)

(* enabled is TRUE whatever the request says: the column's default takes   *)
(* the place of a FALSE.  The scheduler is not told.                       *)
CreateWorkflow(r, w) ==
    /\ req[r] = NoReq
    /\ wf[w].life = "new"
    /\ \E s \in Asked :
          wf' = [wf EXCEPT ![w] = [life |-> "live", enabled |-> TRUE,
                                   sched |-> s, status |-> "idle"]]
    /\ UNCHANGED req /\ OnlyRows

StartWorkflow(r, w) == Load(r, w, "start", wf[w].status # "running")
StopWorkflow(r, w) == Load(r, w, "stop", wf[w].status = "running")
PauseWorkflow(r, w) == Load(r, w, "pause", wf[w].status = "running")
ResumeWorkflow(r, w) == Load(r, w, "resume", wf[w].status = "paused")
UpdateWorkflow(r, w) == Load(r, w, "update", wf[w].status # "running")
DeleteWorkflow(r, w) == Load(r, w, "delete", wf[w].status # "running")

StartCreates(r) ==
    LET w == req[r].w IN
    /\ req[r].at = "start"
    /\ \/ CreateExecution(w) /\ ReqWith(r, "started", w, req[r].row)
       \/ UNCHANGED <<running, starts>> /\ Answer(r)
    /\ UNCHANGED <<wf, entries, jobs, fire, stop>>

(* The status a request saves.                                             *)
Saved == [started |-> "running", stop |-> "stopped", pause |-> "paused",
          resume |-> "running"]

SaveStatus(r) ==
    LET w == req[r].w IN
    /\ req[r].at \in DOMAIN Saved
    /\ Save(w, [req[r].row EXCEPT !.status = Saved[req[r].at]])
    /\ IF req[r].at = "stop" THEN ReqAt(r, "stopped", w) ELSE Answer(r)
    /\ OnlyRows

(* StopWorkflow's second write: every running execution of the workflow.   *)
StopExecutions(r) ==
    /\ req[r].at = "stopped"
    /\ running' = [running EXCEPT ![req[r].w] = 0]
    /\ Answer(r)
    /\ UNCHANGED <<wf, starts, entries, jobs, fire, stop>>

(* UpdateWorkflow with a schedule in it; the scheduler is not told.        *)
UpdateSaves(r) ==
    /\ req[r].at = "update"
    /\ \E s \in Asked, e \in BOOLEAN :
          Save(req[r].w, [req[r].row EXCEPT !.sched = s, !.enabled = e])
    /\ Answer(r) /\ OnlyRows

Delete(r) ==
    /\ req[r].at = "delete"
    /\ wf' = [wf EXCEPT ![req[r].w].life = "deleted"]
    /\ Answer(r) /\ OnlyRows

-----------------------------------------------------------------------------
(* ScheduleHandler *)

(* UpdateSchedule: the columns named in the request, ...                   *)
UpdateSchedule(r, w) == Load(r, w, "reschedule", TRUE)

UpdateColumns(r) ==
    LET w == req[r].w IN
    /\ req[r].at = "reschedule"
    /\ \E s \in Asked, e \in BOOLEAN :
          /\ HasExpression(s) \/ s = wf[w].sched
          /\ Update(w, [wf[w] EXCEPT !.sched = s, !.enabled = e])
          /\ ReqWith(r, "reload", w, [req[r].row EXCEPT !.sched = s, !.enabled = e])
    /\ OnlyRows

(* ... the row again, or the old one if it is gone, and the scheduler.     *)
Reload(r) ==
    LET w == req[r].w IN
    /\ req[r].at = "reload"
    /\ ReqWith(r, "add", w, IF Exists(w) THEN Timing(wf[w]) ELSE req[r].row)
    /\ UNCHANGED schedVars

Register(r) ==
    /\ req[r].at = "add"
    /\ AddSchedule(req[r].w, req[r].row)
    /\ Answer(r)
    /\ UNCHANGED <<wf, running, starts, fire, stop>>

EnableSchedule(r, w) == Load(r, w, "enable", HasExpression(wf[w].sched))
DisableSchedule(r, w) == Load(r, w, "disable", TRUE)

SetEnabled(r) ==
    LET w == req[r].w  on == req[r].at = "enable" IN
    /\ req[r].at \in {"enable", "disable"}
    /\ Update(w, [wf[w] EXCEPT !.enabled = on])
    /\ IF on THEN ReqWith(r, "add", w, [req[r].row EXCEPT !.enabled = TRUE])
             ELSE ReqAt(r, "remove", w)
    /\ OnlyRows

Unregister(r) ==
    /\ req[r].at = "remove"
    /\ RemoveSchedule(req[r].w)
    /\ Answer(r)
    /\ UNCHANGED <<wf, running, starts, fire, stop>>

(* TriggerNow: SchedulerService starts the workflow at once.               *)
TriggerNow(r, w) == Load(r, w, "trigger", wf[w].status # "running")

TriggerCreates(r) ==
    LET w == req[r].w IN
    /\ req[r].at = "trigger"
    /\ \/ CreateExecution(w) /\ ReqAt(r, "mark", w)
       \/ UNCHANGED <<running, starts>> /\ Answer(r)
    /\ UNCHANGED <<wf, entries, jobs, fire, stop>>

TriggerMarks(r) ==
    LET w == req[r].w IN
    /\ req[r].at = "mark"
    /\ Update(w, [wf[w] EXCEPT !.status = "running"])
    /\ Answer(r) /\ OnlyRows

-----------------------------------------------------------------------------
(* The process dies and is started again: the table is all that is left.   *)
Restart ==
    /\ Start
    /\ req' = [r \in Requests |-> NoReq]

Init ==
    /\ wf = [w \in Workflows |-> [life |-> "new", enabled |-> TRUE,
                                  sched |-> "none", status |-> "idle"]]
    /\ running = [w \in Workflows |-> 0]
    /\ starts = 0
    /\ entries = [w \in Workflows |-> 0]
    /\ jobs = {}
    /\ fire = [f \in Fires |-> NoFire]
    /\ stop = "no"
    /\ req = [r \in Requests |-> NoReq]

Arrives(r, w) ==
    \/ CreateWorkflow(r, w) \/ StartWorkflow(r, w) \/ StopWorkflow(r, w)
    \/ PauseWorkflow(r, w) \/ ResumeWorkflow(r, w) \/ UpdateWorkflow(r, w)
    \/ DeleteWorkflow(r, w) \/ UpdateSchedule(r, w) \/ EnableSchedule(r, w)
    \/ DisableSchedule(r, w) \/ TriggerNow(r, w)

Serve(r) ==
    \/ StartCreates(r) \/ SaveStatus(r) \/ StopExecutions(r) \/ UpdateSaves(r)
    \/ Delete(r) \/ UpdateColumns(r) \/ Reload(r) \/ Register(r)
    \/ SetEnabled(r) \/ Unregister(r) \/ TriggerCreates(r) \/ TriggerMarks(r)

Scheduling ==
    /\ \/ \E f \in Fires : (\E w \in Workflows : CronFires(f, w)) \/ Job(f)
       \/ Stop \/ StopReturns
    /\ UNCHANGED req

Next ==
    \/ \E r \in Requests : Serve(r) \/ \E w \in Workflows : Arrives(r, w)
    \/ Scheduling
    \/ Restart

(* Goroutines run; an entry whose time comes again and again fires again   *)
(* and again.  Nothing makes requests arrive, or the process stop.         *)
Fairness ==
    /\ \A r \in Requests : WF_reqVars(Serve(r))
    /\ \A f \in Fires : WF_reqVars(Job(f) /\ UNCHANGED req)
    /\ \A w \in Workflows :
          SF_reqVars(\E f \in Fires : CronFires(f, w) /\ UNCHANGED req)
    /\ WF_reqVars(StopReturns /\ UNCHANGED req)

Spec == Init /\ [][Next]_reqVars /\ Fairness

-----------------------------------------------------------------------------
(* Properties *)

(* Every variable stays in its range, with no more executions running than *)
(* were created.                                                           *)
TypeOK ==
    /\ wf \in [Workflows -> Row]
    /\ running \in [Workflows -> 0..starts]
    /\ starts \in 0..MaxStarts
    /\ entries \in [Workflows -> Nat]
    /\ jobs \subseteq Workflows
    /\ stop \in {"no", "waiting", "done"}

(* cron and s.jobs agree: a workflow has one entry if it is in the map and *)
(* none otherwise, however requests and jobs add and remove schedules      *)
(* (addScheduleInternal, RemoveSchedule).  Otherwise a workflow would fire *)
(* twice, or an entry would be out of reach.                               *)
OneEntry ==
    \A w \in Workflows : entries[w] = IF w \in jobs THEN 1 ELSE 0

(* Once Stop has returned no job is in flight (Stop waits for cron).       *)
StoppedIsQuiet ==
    stop = "done" => \A f \in Fires : fire[f] = NoFire

(* A workflow whose schedule stays disabled loses its entry in the end,    *)
(* even if the scheduler was never told (UpdateWorkflow), or was told of   *)
(* an Enable and a Disable in the wrong order: the job removes itself.     *)
DisabledIsUnscheduled ==
    \A w \in Workflows :
        <>[](Exists(w) /\ ~wf[w].enabled /\ stop = "no") => <>[](w \notin jobs)

(* "Stop: stops the scheduler" (SchedulerService.Stop).  It holds the      *)
(* mutex while it waits for a job that needs the mutex to finish.          *)
StopTerminates == stop = "waiting" ~> stop # "waiting"

=============================================================================
