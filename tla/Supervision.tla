----------------------------- MODULE Supervision -----------------------------
(***************************************************************************)
(* The supervisor of an actor pipeline: it routes data to its children and *)
(* decides, within a restart limit, what becomes of a child that failed.   *)
(* Its Receive runs in the dispatcher's pool, so several of its messages   *)
(* are handled at once.                                                    *)
(***************************************************************************)
EXTENDS ActorSystem

CONSTANTS
    Waiting,      \* data messages in the supervisor's mailbox at first
    Routed,       \* and in the mailboxes of the children
    Settings,     \* the configurations considered: records of the mailboxes'
                  \* overflow strategy, the supervisor's strategy and maxRestarts
    MaxAged       \* bound: restart times that leave the window

ASSUME TreeAssumption ==
    /\ IsFiniteSet(Kids) /\ NoKid \notin Kids
    /\ MaxInc \in Nat /\ Cardinality(Kids) <= MaxInc
    /\ Capacity \in Nat \ {0}   \* NewMailbox replaces any other by its default
    /\ {Waiting, Routed} \subseteq Seq({DataMsg(d) : d \in Data})

VARIABLES
    maxRestarts, \* restarts of a child within the window
    strategy,    \* "one_for_one" (also what rest_for_one does), "one_for_all"
    ref,         \* ChildInfo.Ref of each child
    ctxKids,     \* children of the supervisor's actorContext
    restarts,    \* how many of the child's RestartTimes are within the window
    aged,        \* restart times that have left the window
    given        \* history: children the supervisor has decided to stop

supVars == <<maxRestarts, strategy, ref, ctxKids, restarts, aged, given>>
treeVars == <<sysVars, actorVars, mailVars, poolVars, failures, crashed, supVars>>

FirstInc == CHOOSE f \in [Kids -> 1..MaxInc] :
    \A k, j \in Kids : /\ k # j => f[k] # f[j]
                       /\ f[k] <= Cardinality(Kids)

(* The pipeline has been started: StartChildren has spawned and added the  *)
(* children, whose loops have not begun, some data has been routed to them *)
(* and some waits in the supervisor's mailbox.                             *)
SupInit ==
    /\ \E c \in Settings : /\ overflow = c.overflow
                          /\ strategy = c.strategy
                          /\ maxRestarts = c.maxRestarts
    /\ running = TRUE /\ stopping = "no" /\ crashed = FALSE
    /\ registered = FirstInc /\ ref = FirstInc /\ ctxKids = FirstInc
    /\ kidOf = [i \in Incs |-> IF \E k \in Kids : FirstInc[k] = i
                               THEN CHOOSE k \in Kids : FirstInc[k] = i ELSE NoKid]
    /\ loop = [i \in Incs |-> IF i = 0 THEN "pop"
                              ELSE IF kidOf[i] # NoKid THEN "start" ELSE "unused"]
    /\ hand = [i \in Incs |-> ZeroMsg(i)]
    /\ cancelled = [i \in Incs |-> FALSE] /\ closed = [i \in Incs |-> FALSE]
    /\ box = [i \in Incs |-> IF i = Supervisor THEN Waiting
                             ELSE IF kidOf[i] # NoKid THEN Routed ELSE <<>>]
    /\ pushes = {} /\ queue = <<>> /\ tasks = {} /\ failures = 0
    /\ restarts = [k \in Kids |-> 0] /\ aged = 0 /\ given = {}

-----------------------------------------------------------------------------
(* Tasks: Receive in the dispatcher's pool *)

Who(t) == <<"task", t.at, t.msg>>
Idle(t) == ~Pushing(Who(t))
TaskIs(t, u) == tasks' = (tasks \ {t}) \cup {u}
TaskEnds(t) == tasks' = tasks \ {t}

(* A child handles a message, or fails at it and its parent is told.       *)
ChildReceive(t) ==
    /\ t.at # Supervisor /\ t.pc = "receive"
    /\ \/ /\ TaskEnds(t)
          /\ UNCHANGED <<pushes, failures>>
       \/ /\ t.msg.kind = "data" /\ failures < MaxFailures
          /\ failures' = failures + 1
          /\ TaskIs(t, [t EXCEPT !.pc = "told"])
          /\ pushes' = pushes \cup {Push(Who(t), Supervisor, FailedMsg(t.at, t.msg.of))}
    /\ UNCHANGED <<sysVars, actorVars, box, queue, crashed, supVars>>

ChildTold(t) ==
    /\ t.pc = "told" /\ Idle(t)
    /\ TaskEnds(t)
    /\ UNCHANGED <<sysVars, actorVars, mailVars, queue, failures, crashed, supVars>>

(* routeMessage: the message goes to every child of the context, one after *)
(* the other.                                                              *)
routeMessage(t) ==
    /\ t.at = Supervisor /\ t.pc = "receive" /\ t.msg.kind # "failed"
    /\ TaskIs(t, [t EXCEPT !.pc = "route", !.todo = {ctxKids[k] : k \in Kids}])
    /\ UNCHANGED <<sysVars, actorVars, mailVars, queue, failures, crashed, supVars>>

RouteNext(t) ==
    /\ t.pc = "route" /\ Idle(t)
    /\ \/ \E i \in t.todo :
            /\ TaskIs(t, [t EXCEPT !.todo = @ \ {i}])
            /\ pushes' = pushes \cup {Push(Who(t), i, t.msg)}
       \/ t.todo = {} /\ TaskEnds(t) /\ UNCHANGED pushes
    /\ UNCHANGED <<sysVars, actorVars, box, queue, failures, crashed, supVars>>

(* HandleFailure, under the supervisor's mutex, then executeDecision: stop *)
(* the child, restart it, or restart all of them.                          *)
HandleFailure(t) ==
    /\ t.at = Supervisor /\ t.pc = "receive" /\ t.msg.kind = "failed"
    /\ LET k == kidOf[t.msg.of[1]] IN
       IF restarts[k] >= maxRestarts
       THEN /\ TaskIs(t, [t EXCEPT !.pc = "drop", !.kid = k])
            /\ given' = given \cup {k}
            /\ UNCHANGED restarts
       ELSE /\ restarts' = [restarts EXCEPT ![k] = @ + 1]
            /\ \/ /\ strategy = "one_for_one"
                  /\ TaskIs(t, [t EXCEPT !.pc = "stop", !.kid = k])
               \/ /\ strategy = "one_for_all"
                  /\ TaskIs(t, [t EXCEPT !.pc = "next", !.todo = Kids])
            /\ UNCHANGED given
    /\ UNCHANGED <<sysVars, actorVars, mailVars, queue, failures, crashed,
                   maxRestarts, strategy, ref, ctxKids, aged>>

(* DecisionStop *)
StopChild(t) ==
    /\ t.pc = "drop" /\ SystemMutexFree
    /\ StopActor(t.kid, ref[t.kid])
    /\ TaskEnds(t)
    /\ UNCHANGED <<overflow, running, stopping, kidOf, loop, hand, mailVars, queue,
                   failures, crashed, supVars>>

(* restartAll goes from child to child.                                    *)
restartAll(t) ==
    /\ t.pc = "next"
    /\ \/ \E k \in t.todo : TaskIs(t, [t EXCEPT !.pc = "stop", !.kid = k, !.todo = @ \ {k}])
       \/ t.todo = {} /\ TaskEnds(t)
    /\ UNCHANGED <<sysVars, actorVars, mailVars, queue, failures, crashed, supVars>>

After(t) == IF strategy = "one_for_all" THEN TaskIs(t, [t EXCEPT !.pc = "next"]) ELSE TaskEnds(t)

(* restartSingle: stop; an error of the stop is only logged.               *)
RestartStops(t) ==
    /\ t.pc = "stop" /\ SystemMutexFree
    /\ StopActor(t.kid, ref[t.kid])
    /\ TaskIs(t, [t EXCEPT !.pc = "spawn"])
    /\ UNCHANGED <<overflow, running, stopping, kidOf, loop, hand, mailVars, queue,
                   failures, crashed, supVars>>

(* Variant: a restart whose spawn finds the path taken stops the actor it  *)
(* finds there.                                                            *)
RestartSpawns_StopsOther(t) ==
    /\ t.pc = "spawn" /\ SystemMutexFree
    /\ IF registered[t.kid] # 0 THEN StopActor(t.kid, registered[t.kid]) /\ UNCHANGED <<kidOf, loop>>
       ELSE SpawnActor(t.kid) /\ UNCHANGED <<cancelled, closed>>
    /\ IF running /\ registered[t.kid] = 0
       THEN TaskIs(t, [t EXCEPT !.pc = "note", !.new = NextInc])
       ELSE After(t)
    /\ UNCHANGED <<overflow, running, stopping, hand, mailVars, queue,
                   failures, crashed, supVars>>

(* then spawn; a path that is taken, or a system that is stopped, ends it. *)
RestartSpawns(t) ==
    /\ t.pc = "spawn" /\ SystemMutexFree
    /\ SpawnActor(t.kid)
    /\ IF running /\ registered[t.kid] = 0
       THEN TaskIs(t, [t EXCEPT !.pc = "note", !.new = NextInc])
       ELSE After(t)
    /\ UNCHANGED <<overflow, running, stopping, hand, cancelled, closed, mailVars, queue,
                   failures, crashed, supVars>>

(* The context's table first, ChildInfo.Ref after it.                      *)
RestartNotes(t) ==
    \/ /\ t.pc = "note"
       /\ ctxKids' = [ctxKids EXCEPT ![t.kid] = t.new]
       /\ TaskIs(t, [t EXCEPT !.pc = "refer"])
       /\ UNCHANGED <<sysVars, actorVars, mailVars, queue, failures, crashed,
                      maxRestarts, strategy, ref, restarts, aged, given>>
    \/ /\ t.pc = "refer"
       /\ ref' = [ref EXCEPT ![t.kid] = t.new]
       /\ After(t)
       /\ UNCHANGED <<sysVars, actorVars, mailVars, queue, failures, crashed,
                      maxRestarts, strategy, ctxKids, restarts, aged, given>>

(* The oldest restart time of a child leaves the window.                   *)
WindowPasses(k) ==
    /\ restarts[k] > 0 /\ aged < MaxAged
    /\ restarts' = [restarts EXCEPT ![k] = @ - 1]
    /\ aged' = aged + 1
    /\ UNCHANGED <<sysVars, actorVars, mailVars, poolVars, failures, crashed,
                   maxRestarts, strategy, ref, ctxKids, given>>
-----------------------------------------------------------------------------
TaskStep(t) ==
    \/ ChildReceive(t) \/ ChildTold(t) \/ routeMessage(t) \/ RouteNext(t)
    \/ HandleFailure(t) \/ StopChild(t) \/ restartAll(t)
    \/ RestartStops(t) \/ RestartSpawns(t) \/ RestartNotes(t)

SupNext ==
    /\ ~crashed
    /\ \/ \E t \in tasks : TaskStep(t)
       \/ \E k \in Kids : WindowPasses(k)
       \/ /\ \/ \E p \in pushes : PushStep(p)
             \/ \E i \in Incs : runActor(i)
             \/ worker
             \/ Stop \/ StopReturns
          /\ UNCHANGED supVars

SupSpec == SupInit /\ [][SupNext]_treeVars

-----------------------------------------------------------------------------
(* At most one incarnation of a child runs with a live context, and it is  *)
(* the one its path leads to, however restarts of the same child           *)
(* interleave: stop looks the actor up by path, not by the reference the   *)
(* supervisor holds, which may be stale.                                   *)
OneLiveIncarnation ==
    \A i \in Incs \ {Supervisor} :
        (loop[i] # "unused" /\ ~cancelled[i]) => registered[kidOf[i]] = i

(* A child that failed is not lost: while the system runs a child without  *)
(* an actor at its path has been given up, or a restart of it is about to  *)
(* spawn.                                                                  *)
ChildNotLost ==
    (running /\ ~crashed) =>
        \A k \in Kids : \/ registered[k] # 0
                       \/ k \in given
                       \/ \E t \in tasks : t.pc = "spawn" /\ t.kid = k

=============================================================================
