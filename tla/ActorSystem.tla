----------------------------- MODULE ActorSystem -----------------------------
(***************************************************************************)
(* The actor system of pipeline-core: mailboxes, the loop of each actor    *)
(* and the dispatcher's pool that handles the messages.  A supervisor and  *)
(* its children run in it; what the supervisor does with a message is in   *)
(* Supervision.                                                            *)
(*                                                                         *)
(* An incarnation is one actor object with its mailbox and context; number *)
(* 0 is the supervisor.  A message is a record that names where it comes   *)
(* from, so that no two are equal.  Sending on a closed channel ends the   *)
(* process (crashed).                                                      *)
(***************************************************************************)
EXTENDS Naturals, Sequences, FiniteSets

CONSTANTS
    Kids,         \* names of the supervisor's children
    Data,         \* data messages
    MaxInc,       \* bound: incarnations of children
    MaxFailures,  \* bound: failures of PreStart and Receive
    Capacity,     \* of a mailbox
    Workers,      \* goroutines of the dispatcher
    QueueSize     \* capacity of the dispatcher's channel

Incs == 0..MaxInc
NoKid == "none"
Supervisor == 0

VARIABLES
    overflow,    \* the mailboxes' overflow strategy
    running,     \* s.running of the system
    stopping,    \* System.Stop: "no", "waiting" with s.mu held, "done"
    registered,  \* s.actors: the incarnation at each child's path, 0 for none
    kidOf,       \* the child each incarnation is of
    loop,        \* where runActor is
    hand,        \* the message runActor has popped
    cancelled,   \* the context of each incarnation
    closed,      \* its mailbox is closed
    box,         \* what is in the mailbox
    pushes,      \* the calls of Push under way
    queue,       \* tasks in the dispatcher's channel
    tasks,       \* tasks being executed
    failures,    \* failures so far
    crashed

mailVars == <<box, pushes>>
actorVars == <<kidOf, loop, hand, cancelled, closed>>
poolVars == <<queue, tasks>>
sysVars == <<overflow, running, stopping, registered>>

DataMsg(d) == [kind |-> "data", of |-> d]
ZeroMsg(i) == [kind |-> "zero", of |-> i]
FailedMsg(i, m) == [kind |-> "failed", of |-> <<i, m>>]

(* s.mu is held from the beginning of Stop to its end.                     *)
SystemMutexFree == stopping # "waiting"

(* A panic nobody recovers from: the process and what was in flight in it  *)
(* are gone.                                                               *)
Panic ==
    /\ crashed' = TRUE
    /\ box' = [i \in Incs |-> <<>>] /\ hand' = [i \in Incs |-> ZeroMsg(i)]
    /\ loop' = [i \in Incs |-> IF loop[i] = "unused" THEN "unused" ELSE "done"]
    /\ pushes' = {} /\ queue' = <<>> /\ tasks' = {}
    /\ UNCHANGED <<sysVars, kidOf, cancelled, closed, failures>>

-----------------------------------------------------------------------------
(* Mailbox.Push, by a task, a loop or a sender outside (who).              *)

Push(who, to, m) == [who |-> who, to |-> to, msg |-> m, at |-> "check"]
Pushing(who) == \E p \in pushes : p.who = who
PushDone(p) == pushes' = pushes \ {p}
PushGoes(p, at) == pushes' = (pushes \ {p}) \cup {[p EXCEPT !.at = at]}

(* closed is read under the read lock, which is then released.             *)
PushCheck(p) ==
    /\ p.at = "check"
    /\ IF closed[p.to] THEN PushDone(p) ELSE PushGoes(p, "send")
    /\ UNCHANGED box

PushSends(p) ==
    /\ p.at \in {"send", "block"}
    /\ ~closed[p.to]
    /\ Len(box[p.to]) < Capacity
    /\ box' = [box EXCEPT ![p.to] = Append(@, p.msg)]
    /\ PushDone(p)

(* A full mailbox: wait, drop the oldest message and then wait, or drop    *)
(* the new one.                                                            *)
PushFull(p) ==
    /\ p.at = "send"
    /\ ~closed[p.to]
    /\ Len(box[p.to]) = Capacity
    /\ \/ overflow = "backpressure" /\ PushGoes(p, "block") /\ UNCHANGED box
       \/ /\ overflow = "drop_oldest"
          /\ PushGoes(p, "block")
          /\ box' = [box EXCEPT ![p.to] = Tail(@)]
       \/ overflow = "drop_newest" /\ PushDone(p) /\ UNCHANGED box

PushStep(p) ==
    \/ /\ PushCheck(p) \/ PushSends(p) \/ PushFull(p)
       /\ UNCHANGED <<sysVars, actorVars, poolVars, failures, crashed>>
    \/ p.at \in {"send", "block"} /\ closed[p.to] /\ Panic

-----------------------------------------------------------------------------
(* runActor *)

LoopGoes(i, from, to) ==
    /\ loop[i] = from
    /\ loop' = [loop EXCEPT ![i] = to]

(* Between two messages the loop tests its context and then tries to pop;  *)
(* "pop" is the place of a loop whose last test found the context live.    *)
Polls(i) == IF cancelled[i] THEN "done" ELSE "pop"

PreStart(i) ==
    /\ LoopGoes(i, "start", Polls(i))
    /\ UNCHANGED <<sysVars, kidOf, hand, cancelled, closed, mailVars, poolVars, failures, crashed>>

(* PreStart fails: the parent is told and nobody reads the mailbox.        *)
PreStartFails(i) ==
    /\ i # Supervisor /\ failures < MaxFailures
    /\ failures' = failures + 1
    /\ LoopGoes(i, "start", "dead")
    /\ pushes' = pushes \cup {Push(<<"loop", i>>, Supervisor, FailedMsg(i, "start"))}
    /\ UNCHANGED <<sysVars, kidOf, hand, cancelled, closed, box, poolVars, crashed>>

(* PostStop and return.                                                    *)
LoopEnds(i) ==
    /\ cancelled[i]
    /\ LoopGoes(i, "pop", "done")
    /\ UNCHANGED <<sysVars, kidOf, hand, cancelled, closed, mailVars, poolVars, failures, crashed>>

(* TryPop of a closed and empty channel gives the zero Message.            *)
TryPop(i) ==
    /\ box[i] # <<>> \/ closed[i]
    /\ LoopGoes(i, "pop", "dispatch")
    /\ IF box[i] # <<>>
       THEN /\ hand' = [hand EXCEPT ![i] = Head(box[i])]
            /\ box' = [box EXCEPT ![i] = Tail(@)]
       ELSE UNCHANGED <<hand, box>>
    /\ UNCHANGED <<sysVars, kidOf, cancelled, closed, pushes, poolVars, failures, crashed>>

Task(i, m, pool) ==
    [at |-> i, msg |-> m, pool |-> pool, pc |-> "receive", todo |-> {}, kid |-> NoKid, new |-> 0]

(* Dispatch: into the channel, or a goroutine of its own when that is      *)
(* full; a closed channel ends the process.                                *)
Dispatch(i) ==
    \/ /\ running
       /\ LoopGoes(i, "dispatch", Polls(i))
       /\ hand' = [hand EXCEPT ![i] = ZeroMsg(i)]
       /\ IF Len(queue) < QueueSize
          THEN queue' = Append(queue, Task(i, hand[i], TRUE)) /\ UNCHANGED tasks
          ELSE tasks' = tasks \cup {Task(i, hand[i], FALSE)} /\ UNCHANGED queue
       /\ UNCHANGED <<sysVars, kidOf, cancelled, closed, mailVars, failures, crashed>>
    \/ ~running /\ loop[i] = "dispatch" /\ Panic

runActor(i) ==
    PreStart(i) \/ PreStartFails(i) \/ LoopEnds(i) \/ TryPop(i) \/ Dispatch(i)

(* A worker takes the next task of the channel.                            *)
worker ==
    /\ queue # <<>>
    /\ Cardinality({t \in tasks : t.pool}) < Workers
    /\ tasks' = tasks \cup {Head(queue)}
    /\ queue' = Tail(queue)
    /\ UNCHANGED <<sysVars, actorVars, mailVars, failures, crashed>>

-----------------------------------------------------------------------------
(* System.stop and System.spawn of a child, each under s.mu.               *)

(* The actor is looked up by its path, the mailbox that is closed is that  *)
(* of the reference: the two may be different incarnations.                *)
StopActor(k, ref) ==
    IF registered[k] = 0 THEN UNCHANGED <<registered, cancelled, closed>>
    ELSE /\ cancelled' = [cancelled EXCEPT ![registered[k]] = TRUE]
         /\ closed' = [closed EXCEPT ![ref] = TRUE]
         /\ registered' = [registered EXCEPT ![k] = 0]

Fresh == {i \in Incs : loop[i] = "unused"}
NextInc == CHOOSE i \in Fresh : \A j \in Fresh : i <= j

(* Variant: the path is taken over from the actor that is there.           *)
SpawnActor_NoCheck(k) ==
    /\ Fresh # {}
    /\ registered' = [registered EXCEPT ![k] = NextInc]
    /\ kidOf' = [kidOf EXCEPT ![NextInc] = k]
    /\ loop' = [loop EXCEPT ![NextInc] = "start"]

SpawnActor(k) ==
    IF ~running \/ registered[k] # 0 THEN UNCHANGED <<registered, kidOf, loop>>
    ELSE /\ Fresh # {}
         /\ registered' = [registered EXCEPT ![k] = NextInc]
         /\ kidOf' = [kidOf EXCEPT ![NextInc] = k]
         /\ loop' = [loop EXCEPT ![NextInc] = "start"]

(* System.Stop: every context is cancelled, then every registered mailbox  *)
(* and the dispatcher's channel are closed; it waits for the workers.      *)
Stop ==
    /\ running
    /\ running' = FALSE
    /\ stopping' = "waiting"
    /\ cancelled' = [i \in Incs |-> TRUE]
    /\ closed' = [i \in Incs |-> \/ closed[i] \/ i = Supervisor
                                 \/ \E k \in Kids : registered[k] = i]
    /\ UNCHANGED <<overflow, registered, kidOf, loop, hand, mailVars, poolVars, failures, crashed>>

StopReturns ==
    /\ stopping = "waiting"
    /\ queue = <<>> /\ \A t \in tasks : ~t.pool
    /\ stopping' = "done"
    /\ UNCHANGED <<overflow, running, registered, actorVars, mailVars, poolVars, failures, crashed>>

=============================================================================
