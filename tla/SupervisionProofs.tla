------------------------- MODULE SupervisionProofs --------------------------
(***************************************************************************)
(* The supervisor and its children, for any number of children, messages,  *)
(* workers, failures, incarnations and every capacity.                     *)
(***************************************************************************)
EXTENDS Supervision, FiniteSetTheorems, TLAPS

(* What the actors send each other.  A failure is reported for an          *)
(* incarnation that has been spawned.                                      *)
Started(i) == i # Supervisor /\ loop[i] # "unused"

Causes == Data \cup {"start"}
Messages ==
    [kind : {"data"}, of : Data] \cup [kind : {"zero"}, of : Incs]
        \cup [kind : {"failed"}, of : {i \in Incs : Started(i)} \X Causes]

(* What a task knows at each of its places: which child it deals with, and *)
(* which it has still to deal with.                                        *)
Places == {"receive", "told", "route", "drop", "next", "stop", "spawn", "note", "refer"}
WithKid == {"drop", "stop", "spawn", "note", "refer"}
WithKids == {"next", "stop", "spawn", "note", "refer"}
Tasks ==
    {t \in [at : Incs, msg : Messages, pool : BOOLEAN, pc : Places,
            todo : SUBSET (Incs \cup Kids), kid : Kids \cup {NoKid}, new : Incs] :
        /\ t.at # Supervisor => Started(t.at)
        /\ t.pc \in WithKid => t.kid \in Kids
        /\ t.pc \in WithKids => t.todo \subseteq Kids
        /\ t.pc = "receive" => t.todo = {}
        /\ t.pc = "route" => t.todo \subseteq Incs
        /\ t.pc = "drop" => t.kid \in given}
NewTasks == {t \in Tasks : t.pc = "receive"}

Pushers == ({"task"} \X Incs \X Messages) \cup ({"loop"} \X Incs)
Pushes == [who : Pushers, to : Incs, msg : Messages, at : {"check", "send", "block"}]

LoopPlaces == {"unused", "start", "pop", "dispatch", "done", "dead"}

(* Messages on their way are messages, and tasks are tasks.                *)
MailInv ==
    /\ hand \in [Incs -> Messages] /\ box \in [Incs -> Seq(Messages)]
    /\ pushes \subseteq Pushes
    /\ queue \in Seq(NewTasks) /\ tasks \subseteq Tasks
    /\ ctxKids \in [Kids -> Incs]

(* A path leads to an incarnation of its child; an incarnation that runs   *)
(* is one of a child, and its path leads to it unless it is cancelled.     *)
PathInv ==
    /\ registered \in [Kids -> Incs]
    /\ kidOf \in [Incs -> Kids \cup {NoKid}]
    /\ loop \in [Incs -> LoopPlaces] /\ loop[Supervisor] # "unused"
    /\ cancelled \in [Incs -> BOOLEAN]
    /\ \A i \in Incs : Started(i) => kidOf[i] \in Kids
    /\ \A k \in Kids : registered[k] # 0 => kidOf[registered[k]] = k /\ Started(registered[k])
    /\ OneLiveIncarnation

TreeInv == MailInv /\ PathInv /\ ChildNotLost

-----------------------------------------------------------------------------
(* Least numbers, for the incarnation that a spawn takes.                  *)
LEMMA LeastExists ==
    ASSUME NEW n \in Nat, NEW S \in SUBSET (0..n), S # {}
    PROVE  \E x \in S : \A y \in S : x <= y
  <1> DEFINE U == 0..n
             Below(x) == {y \in S : y < x}
             T == {Below(x) : x \in S}
  <1>1. IsWellFoundedOn(StrictSubsetOrdering(U), FiniteSubsetsOf(U))
    BY FS_StrictSubsetOrderingWellFounded
  <1>2. IsFiniteSet(U)
    BY FS_Interval
  <1>3. FiniteSubsetsOf(U) = SUBSET U
    BY <1>2, FS_FiniteSubsetsOfFinite
  <1>4. T \subseteq FiniteSubsetsOf(U) /\ T # {}
    <2>1. \A x \in S : Below(x) \in FiniteSubsetsOf(U)
      BY <1>3
    <2> QED
      BY <2>1
  <1> HIDE DEF T
  <1>5. PICK b \in T : \A c \in T : ~(<<c, b>> \in StrictSubsetOrdering(U))
    BY <1>1, <1>4, WFMin
  <1>6. PICK x \in S : b = Below(x)
    BY DEF T
  <1>7. ASSUME NEW y \in S, y < x PROVE FALSE
    <2>1. Below(y) \in T
      BY DEF T
    <2>2. Below(y) \subseteq Below(x) /\ y \in Below(x) /\ y \notin Below(y)
      <3>1. \A z \in S : z < y => z < x
        BY <1>7
      <3>2. ~(y < y)
        OBVIOUS
      <3> QED
        BY <1>7, <3>1, <3>2
    <2>3. Below(y) \in SUBSET U /\ Below(x) \in SUBSET U
      OBVIOUS
    <2>4. <<Below(y), b>> \in StrictSubsetOrdering(U)
      BY <1>6, <2>2, <2>3 DEF StrictSubsetOrdering
    <2> QED
      BY <1>5, <2>1, <2>4
  <1> QED
    BY <1>7

LEMMA NextIncIsFresh ==
    ASSUME Fresh # {}
    PROVE  NextInc \in Incs /\ loop[NextInc] = "unused"
  <1>1. Fresh \in SUBSET (0..MaxInc) /\ MaxInc \in Nat
    BY TreeAssumption DEF Fresh, Incs
  <1>2. \E i \in Fresh : \A j \in Fresh : i <= j
    BY <1>1, LeastExists
  <1>3. NextInc \in Fresh
    BY <1>2 DEF NextInc
  <1> QED
    BY <1>3 DEF Fresh

(* The children that StartChildren spawns have numbers of their own.       *)
LEMMA FirstIncNumbers ==
    /\ FirstInc \in [Kids -> 1..MaxInc]
    /\ \A k, j \in Kids : k # j => FirstInc[k] # FirstInc[j]
  <1> DEFINE n == Cardinality(Kids)
  <1>1. n \in Nat /\ ExistsBijection(1..n, Kids)
    BY TreeAssumption, FS_CardinalityType
  <1>2. PICK g : g \in Bijection(1..n, Kids)
    BY <1>1 DEF ExistsBijection
  <1>3. g \in [1..n -> Kids] /\ \A k \in Kids : \E i \in 1..n : g[i] = k
    BY <1>2 DEF Bijection, Injection, Surjection
  <1> DEFINE f == [k \in Kids |-> CHOOSE i \in 1..n : g[i] = k]
  <1>4. \A k \in Kids : f[k] \in 1..n /\ g[f[k]] = k
    BY <1>3
  <1> HIDE DEF f
  <1>5. f \in [Kids -> 1..MaxInc]
    BY <1>1, <1>4, TreeAssumption DEF f
  <1>6. \A k, j \in Kids : (k # j => f[k] # f[j]) /\ f[k] <= Cardinality(Kids)
    BY <1>1, <1>4
  <1> QED
    BY <1>5, <1>6 DEF FirstInc

-----------------------------------------------------------------------------
(* PathInv: spawns, stops and the loops, each in its own step.             *)
LEMMA StopActorKeepsPaths ==
    ASSUME PathInv, NEW k \in Kids, NEW r, StopActor(k, r), UNCHANGED <<kidOf, loop>>
    PROVE  PathInv'
  <1>1. CASE registered[k] = 0
    BY <1>1 DEF StopActor, PathInv, OneLiveIncarnation, Started
  <1>2. CASE registered[k] # 0
    <2>1. /\ registered' = [registered EXCEPT ![k] = 0]
          /\ cancelled' = [cancelled EXCEPT ![registered[k]] = TRUE]
      BY <1>2 DEF StopActor
    <2>2. OneLiveIncarnation'
      BY <1>2, <2>1 DEF PathInv, OneLiveIncarnation, Started
    <2>3. registered' \in [Kids -> Incs] /\ cancelled' \in [Incs -> BOOLEAN]
      BY <2>1, TreeAssumption DEF PathInv, Incs
    <2> QED
      BY <1>2, <2>1, <2>2, <2>3 DEF PathInv, Started
  <1> QED
    BY <1>1, <1>2

LEMMA SpawnActorKeepsPaths ==
    ASSUME PathInv, NEW k \in Kids, SpawnActor(k), UNCHANGED cancelled
    PROVE  PathInv'
  <1>1. CASE ~running \/ registered[k] # 0
    BY <1>1 DEF SpawnActor, PathInv, OneLiveIncarnation, Started
  <1>2. CASE running /\ registered[k] = 0
    <2> DEFINE n == NextInc
    <2>1. n \in Incs /\ loop[n] = "unused" /\ n # Supervisor
      BY <1>2, NextIncIsFresh DEF SpawnActor, PathInv
    <2>2. /\ registered' = [registered EXCEPT ![k] = n]
          /\ kidOf' = [kidOf EXCEPT ![n] = k]
          /\ loop' = [loop EXCEPT ![n] = "start"]
      BY <1>2 DEF SpawnActor
    <2> HIDE DEF n
    <2>3. /\ registered' \in [Kids -> Incs] /\ kidOf' \in [Incs -> Kids \cup {NoKid}]
          /\ loop' \in [Incs -> LoopPlaces] /\ loop'[Supervisor] # "unused"
      BY <2>1, <2>2 DEF PathInv, LoopPlaces
    <2>4. \A i \in Incs : Started(i)' => kidOf'[i] \in Kids
      BY <2>1, <2>2 DEF PathInv, Started
    <2>5. \A j \in Kids : registered'[j] # 0 => kidOf'[registered'[j]] = j /\ loop'[registered'[j]] # "unused"
      BY <2>1, <2>2 DEF PathInv, Started, Supervisor
    <2>6. OneLiveIncarnation'
      BY <1>2, <2>1, <2>2 DEF PathInv, OneLiveIncarnation, Started, Supervisor
    <2> QED
      BY <2>3, <2>4, <2>5, <2>6 DEF PathInv, Started, Supervisor
  <1> QED
    BY <1>1, <1>2

LEMMA LoopKeepsPaths ==
    ASSUME PathInv, NEW i \in Incs, NEW from \in LoopPlaces \ {"unused"}, NEW to \in LoopPlaces \ {"unused"},
           LoopGoes(i, from, to), UNCHANGED <<registered, kidOf, cancelled>>
    PROVE  PathInv'
  <1>1. loop' \in [Incs -> LoopPlaces] /\ \A j \in Incs : loop'[j] = "unused" <=> loop[j] = "unused"
    BY DEF LoopGoes, PathInv
  <1> QED
    BY <1>1, TreeAssumption DEF PathInv, OneLiveIncarnation, Started, Incs, Supervisor

LEMMA PanicKeepsPaths == PathInv /\ Panic => PathInv'
  <1> SUFFICES ASSUME PathInv, Panic PROVE PathInv'
    OBVIOUS
  <1>1. loop' \in [Incs -> LoopPlaces] /\ \A j \in Incs : loop'[j] = "unused" <=> loop[j] = "unused"
    BY DEF Panic, PathInv, LoopPlaces
  <1> QED
    BY <1>1, TreeAssumption DEF Panic, PathInv, OneLiveIncarnation, Started, Incs, Supervisor, sysVars

LEMMA NextPathInv ==
    ASSUME MailInv, PathInv, [SupNext]_treeVars
    PROVE  PathInv'
  <1> USE DEF sysVars, actorVars
  <1> DEFINE paths == <<registered, kidOf, loop, cancelled>>
  <1>1. CASE UNCHANGED paths
    BY <1>1 DEF PathInv, OneLiveIncarnation, Started
  <1>2. ASSUME NEW t \in tasks, TaskStep(t) PROVE PathInv'
    <2>1. t \in Tasks
      BY DEF MailInv
    <2>2. CASE ChildReceive(t) \/ ChildTold(t) \/ routeMessage(t) \/ RouteNext(t)
      BY <1>1, <2>2 DEF ChildReceive, ChildTold, routeMessage, RouteNext
    <2>3. CASE HandleFailure(t) \/ restartAll(t) \/ RestartNotes(t)
      BY <1>1, <2>3 DEF HandleFailure, restartAll, RestartNotes
    <2>4. CASE StopChild(t)
      BY <2>1, <2>4, StopActorKeepsPaths DEF StopChild, Tasks, WithKid
    <2>5. CASE RestartStops(t)
      BY <2>1, <2>5, StopActorKeepsPaths DEF RestartStops, Tasks, WithKid
    <2>6. CASE RestartSpawns(t)
      BY <2>1, <2>6, SpawnActorKeepsPaths DEF RestartSpawns, Tasks, WithKid
    <2> QED
      BY <1>2, <2>2, <2>3, <2>4, <2>5, <2>6 DEF TaskStep
  <1>3. ASSUME NEW k \in Kids, WindowPasses(k) PROVE PathInv'
    BY <1>1, <1>3 DEF WindowPasses
  <1>4. ASSUME NEW p \in pushes, PushStep(p) PROVE PathInv'
    BY <1>1, <1>4, PanicKeepsPaths DEF PushStep
  <1>5. ASSUME NEW i \in Incs, runActor(i) PROVE PathInv'
    <2> USE DEF LoopPlaces
    <2>1. Polls(i) \in LoopPlaces \ {"unused"}
      BY DEF Polls
    <2>2. CASE PreStart(i)
      BY <2>1, <2>2, LoopKeepsPaths DEF PreStart
    <2>3. CASE PreStartFails(i)
      BY <2>3, LoopKeepsPaths DEF PreStartFails
    <2>4. CASE LoopEnds(i)
      BY <2>4, LoopKeepsPaths DEF LoopEnds
    <2>5. CASE TryPop(i)
      BY <2>5, LoopKeepsPaths DEF TryPop
    <2>6. CASE Dispatch(i)
      BY <2>1, <2>6, LoopKeepsPaths, PanicKeepsPaths DEF Dispatch
    <2> QED
      BY <1>5, <2>2, <2>3, <2>4, <2>5, <2>6 DEF runActor
  <1>6. CASE worker
    BY <1>1, <1>6 DEF worker
  <1>7. CASE Stop
    <2>1. cancelled' = [i \in Incs |-> TRUE] /\ UNCHANGED <<registered, kidOf, loop>>
      BY <1>7 DEF Stop
    <2> QED
      BY <2>1 DEF PathInv, OneLiveIncarnation, Started
  <1>8. CASE StopReturns
    BY <1>1, <1>8 DEF StopReturns
  <1>9. CASE UNCHANGED treeVars
    BY <1>1, <1>9 DEF treeVars
  <1> QED
    BY <1>2, <1>3, <1>4, <1>5, <1>6, <1>7, <1>8, <1>9 DEF SupNext

-----------------------------------------------------------------------------
(* MailInv: an incarnation that has been spawned stays so, and a child     *)
(* that is given up stays so; what was a message or a task is one still.   *)
Grows ==
    /\ \A i \in Incs : loop[i] # "unused" => loop'[i] # "unused"
    /\ given \subseteq given'

LEMMA SeqGrows ==
    ASSUME NEW S, NEW T, S \subseteq T, NEW q \in Seq(S)
    PROVE  q \in Seq(T)
  <1>1. Len(q) \in Nat /\ q = [n \in 1..Len(q) |-> q[n]] /\ \A n \in 1..Len(q) : q[n] \in S
    OBVIOUS
  <1>2. \A n \in 1..Len(q) : q[n] \in T
    BY <1>1
  <1> QED
    BY <1>1, <1>2

LEMMA KnownGrows ==
    ASSUME Grows
    PROVE  Messages \subseteq Messages' /\ Tasks \subseteq Tasks' /\ NewTasks \subseteq NewTasks' /\ Pushes \subseteq Pushes'
  <1>1. \A i \in Incs : Started(i) => Started(i)'
    BY DEF Grows, Started
  <1>2. {i \in Incs : Started(i)} \X Causes \subseteq {i \in Incs : Started(i)'} \X Causes
    BY <1>1
  <1>3. Messages \subseteq Messages'
    BY <1>2 DEF Messages
  <1>4. Tasks \subseteq Tasks'
    <2> SUFFICES ASSUME NEW t \in Tasks PROVE t \in Tasks'
      OBVIOUS
    <2>1. t.msg \in Messages'
      BY <1>3 DEF Tasks
    <2>2. t \in [at : Incs, msg : Messages', pool : BOOLEAN, pc : Places,
                 todo : SUBSET (Incs \cup Kids), kid : Kids \cup {NoKid}, new : Incs]
      BY <2>1 DEF Tasks
    <2> QED
      BY <1>1, <2>2 DEF Tasks, Grows
  <1>5. Pushes \subseteq Pushes'
    BY <1>3 DEF Pushes, Pushers
  <1> QED
    BY <1>3, <1>4, <1>5 DEF NewTasks

LEMMA MailGrows ==
    ASSUME Grows, MailInv
    PROVE  /\ hand \in [Incs -> Messages'] /\ box \in [Incs -> Seq(Messages')]
           /\ pushes \subseteq Pushes'
           /\ queue \in Seq(NewTasks') /\ tasks \subseteq Tasks'
           /\ ctxKids \in [Kids -> Incs]
  <1>1. \A i \in Incs : hand[i] \in Messages' /\ box[i] \in Seq(Messages')
    BY KnownGrows, SeqGrows DEF MailInv
  <1>2. queue \in Seq(NewTasks')
    BY KnownGrows, SeqGrows DEF MailInv
  <1> QED
    BY <1>1, <1>2, KnownGrows DEF MailInv

LEMMA NextGrows ==
    ASSUME MailInv, PathInv, [SupNext]_treeVars
    PROVE  Grows
  <1> USE DEF Grows, sysVars, actorVars, supVars
  <1>1. CASE UNCHANGED <<loop, given>>
    BY <1>1
  <1>2. CASE Panic /\ UNCHANGED supVars
    BY <1>2 DEF Panic
  <1>3. ASSUME NEW t \in tasks, TaskStep(t) PROVE Grows
    <2>1. CASE ChildReceive(t) \/ ChildTold(t) \/ routeMessage(t) \/ RouteNext(t)
      BY <1>1, <2>1 DEF ChildReceive, ChildTold, routeMessage, RouteNext
    <2>2. CASE HandleFailure(t)
      BY <2>2 DEF HandleFailure
    <2>3. CASE restartAll(t) \/ RestartNotes(t) \/ StopChild(t) \/ RestartStops(t)
      BY <1>1, <2>3 DEF restartAll, RestartNotes, StopChild, RestartStops
    <2>4. CASE RestartSpawns(t)
      <3>1. loop' = loop \/ loop' = [loop EXCEPT ![NextInc] = "start"]
        BY <2>4 DEF RestartSpawns, SpawnActor
      <3> QED
        BY <2>4, <3>1 DEF RestartSpawns, PathInv
    <2> QED
      BY <1>3, <2>1, <2>2, <2>3, <2>4 DEF TaskStep
  <1>4. ASSUME NEW k \in Kids, WindowPasses(k) PROVE Grows
    BY <1>1, <1>4 DEF WindowPasses
  <1>5. ASSUME NEW p \in pushes, PushStep(p), UNCHANGED supVars PROVE Grows
    BY <1>1, <1>2, <1>5 DEF PushStep
  <1>6. ASSUME NEW i \in Incs, runActor(i), UNCHANGED supVars PROVE Grows
    <2>1. ASSUME NEW from, NEW to, to # "unused", LoopGoes(i, from, to) PROVE Grows
      BY <1>6, <2>1 DEF LoopGoes, PathInv
    <2> QED
      BY <1>2, <1>6, <2>1 DEF runActor, PreStart, PreStartFails, LoopEnds, TryPop, Dispatch, Polls
  <1>7. CASE (worker \/ Stop \/ StopReturns) /\ UNCHANGED supVars
    BY <1>1, <1>7 DEF worker, Stop, StopReturns
  <1>8. CASE UNCHANGED treeVars
    BY <1>1, <1>8 DEF treeVars
  <1> QED
    BY <1>3, <1>4, <1>5, <1>6, <1>7, <1>8 DEF SupNext

(* What a failure names is a child.                                        *)
LEMMA FailedIsOfKid ==
    ASSUME PathInv, NEW m \in Messages, m.kind = "failed"
    PROVE  kidOf[m.of[1]] \in Kids
  <1>1. m \in [kind : {"failed"}, of : {i \in Incs : Started(i)} \X Causes]
    BY DEF Messages
  <1> QED
    BY <1>1 DEF PathInv

LEMMA TaskKeepsMail ==
    ASSUME MailInv, PathInv, Grows, NEW t \in tasks, TaskStep(t)
    PROVE  MailInv'
  <1> USE DEF sysVars, actorVars, mailVars, supVars
  <1>0. t \in Tasks /\ t \in Tasks'
    BY MailGrows DEF MailInv
  <1>1. ASSUME NEW u \in Tasks', TaskIs(t, u) \/ TaskEnds(t) PROVE tasks' \subseteq Tasks'
    BY <1>1, MailGrows DEF TaskIs, TaskEnds
  <1>2. CASE ChildReceive(t)
    <2>1. tasks' \subseteq Tasks'
      <3>1. [t EXCEPT !.pc = "told"] \in Tasks'
        BY <1>0 DEF Tasks, Places, WithKid, WithKids
      <3> QED
        BY <1>0, <1>1, <1>2, <3>1 DEF ChildReceive
    <2>2. pushes' \subseteq Pushes'
      <3>1. CASE t.msg.kind = "data" /\ pushes' = pushes \cup {Push(Who(t), Supervisor, FailedMsg(t.at, t.msg.of))}
        <4>1. t.msg.of \in Data
          BY <1>0, <3>1 DEF Tasks, Messages
        <4>2. t.at \in Incs /\ Started(t.at)'
          BY <1>0, <1>2 DEF Tasks, ChildReceive
        <4>3. FailedMsg(t.at, t.msg.of) \in Messages'
          BY <4>1, <4>2 DEF FailedMsg, Messages, Causes
        <4>4. Who(t) \in Pushers'
          BY <1>0 DEF Who, Pushers, Tasks
        <4>5. Push(Who(t), Supervisor, FailedMsg(t.at, t.msg.of)) \in Pushes'
          BY <4>3, <4>4, TreeAssumption DEF Push, Pushes, Supervisor, Incs
        <4> QED
          BY <3>1, <4>5, MailGrows
      <3> QED
        BY <1>2, <3>1, MailGrows DEF ChildReceive
    <2> QED
      BY <1>2, <2>1, <2>2, MailGrows DEF ChildReceive, MailInv
  <1>3. CASE ChildTold(t)
    BY <1>0, <1>1, <1>3, MailGrows DEF ChildTold, MailInv
  <1>4. CASE routeMessage(t)
    <2> DEFINE all == {ctxKids[k] : k \in Kids}
    <2>0. all \subseteq Incs
      BY DEF MailInv
    <2> HIDE DEF all
    <2>1. [t EXCEPT !.pc = "route", !.todo = all] \in Tasks'
      BY <1>0, <2>0 DEF Tasks, Places, WithKid, WithKids
    <2> QED
      BY <1>1, <1>4, <2>1, MailGrows DEF routeMessage, MailInv, all
  <1>5. CASE RouteNext(t)
    <2>1. ASSUME NEW i \in t.todo PROVE [t EXCEPT !.todo = @ \ {i}] \in Tasks'
      BY <1>0 DEF Tasks
    <2>2. ASSUME NEW i \in t.todo PROVE Push(Who(t), i, t.msg) \in Pushes'
      BY <1>0, <1>5 DEF Tasks, RouteNext, Push, Pushes, Pushers, Who
    <2>3. tasks' \subseteq Tasks' /\ pushes' \subseteq Pushes'
      BY <1>0, <1>1, <1>5, <2>1, <2>2, MailGrows DEF RouteNext
    <2> QED
      BY <1>5, <2>3, MailGrows DEF RouteNext, MailInv
  <1>6. CASE HandleFailure(t)
    <2> DEFINE k == kidOf[t.msg.of[1]]
    <2>1. k \in Kids
      BY <1>0, <1>6, FailedIsOfKid DEF HandleFailure, Tasks
    <2> HIDE DEF k
    <2>2. k \in given' => [t EXCEPT !.pc = "drop", !.kid = k] \in Tasks'
      BY <1>0, <1>6, <2>1 DEF HandleFailure, Tasks, Places, WithKid, WithKids
    <2>3. [t EXCEPT !.pc = "next", !.todo = Kids] \in Tasks'
      BY <1>0 DEF Tasks, Places, WithKid, WithKids
    <2>4. CASE TaskIs(t, [t EXCEPT !.pc = "stop", !.kid = k])
      <3>1. [t EXCEPT !.pc = "stop", !.kid = k] \in Tasks'
        BY <1>0, <1>6, <2>1 DEF HandleFailure, Tasks, Places, WithKid, WithKids
      <3> QED
        BY <1>1, <1>6, <2>4, <3>1, MailGrows DEF HandleFailure, MailInv
    <2> QED
      BY <1>1, <1>6, <2>2, <2>3, <2>4, MailGrows DEF HandleFailure, MailInv, k
  <1>7. CASE StopChild(t)
    BY <1>0, <1>1, <1>7, MailGrows DEF StopChild, MailInv
  <1>8. CASE restartAll(t)
    <2>1. ASSUME NEW k \in t.todo PROVE [t EXCEPT !.pc = "stop", !.kid = k, !.todo = @ \ {k}] \in Tasks'
      BY <1>0, <1>8 DEF restartAll, Tasks, Places, WithKid, WithKids
    <2> QED
      BY <1>0, <1>1, <1>8, <2>1, MailGrows DEF restartAll, MailInv
  <1>9. CASE RestartStops(t)
    <2>1. [t EXCEPT !.pc = "spawn"] \in Tasks'
      BY <1>0, <1>9 DEF RestartStops, Tasks, Places, WithKid, WithKids
    <2> QED
      BY <1>1, <1>9, <2>1, MailGrows DEF RestartStops, MailInv
  <1>10. ASSUME t.pc \in {"spawn", "refer"} PROVE [t EXCEPT !.pc = "next"] \in Tasks'
    BY <1>0, <1>10 DEF Tasks, Places, WithKid, WithKids
  <1>11. CASE RestartSpawns(t)
    <2>1. CASE running /\ registered[t.kid] = 0
      <3>1. NextInc \in Incs
        BY <1>11, <2>1, NextIncIsFresh DEF RestartSpawns, SpawnActor
      <3>2. [t EXCEPT !.pc = "note", !.new = NextInc] \in Tasks'
        BY <1>0, <1>11, <3>1 DEF RestartSpawns, Tasks, Places, WithKid, WithKids
      <3> QED
        BY <1>1, <1>11, <2>1, <3>2, MailGrows DEF RestartSpawns, MailInv
    <2>2. CASE After(t)
      BY <1>0, <1>1, <1>10, <1>11, <2>2, MailGrows DEF RestartSpawns, After, MailInv
    <2> QED
      BY <1>11, <2>1, <2>2 DEF RestartSpawns
  <1>12. CASE RestartNotes(t)
    <2>1. CASE t.pc = "note"
      <3>1. [t EXCEPT !.pc = "refer"] \in Tasks' /\ t.new \in Incs
        BY <1>0, <2>1 DEF Tasks, Places, WithKid, WithKids
      <3>2. ctxKids' \in [Kids -> Incs] /\ TaskIs(t, [t EXCEPT !.pc = "refer"])
        BY <1>12, <2>1, <3>1 DEF RestartNotes, MailInv
      <3> QED
        BY <1>1, <1>12, <2>1, <3>1, <3>2, MailGrows DEF RestartNotes, MailInv
    <2>2. CASE t.pc = "refer"
      BY <1>0, <1>1, <1>10, <1>12, <2>2, MailGrows DEF RestartNotes, After, MailInv
    <2> QED
      BY <1>12, <2>1, <2>2 DEF RestartNotes
  <1> QED
    BY <1>2, <1>3, <1>4, <1>5, <1>6, <1>7, <1>8, <1>9, <1>11, <1>12 DEF TaskStep

LEMMA PanicKeepsMail ==
    ASSUME MailInv, Grows, Panic, UNCHANGED supVars
    PROVE  MailInv'
  <1>1. \A i \in Incs : ZeroMsg(i) \in Messages'
    BY DEF ZeroMsg, Messages
  <1> QED
    BY <1>1, MailGrows DEF Panic, MailInv, supVars

LEMMA PushKeepsMail ==
    ASSUME MailInv, Grows, NEW p \in pushes, PushStep(p), UNCHANGED supVars
    PROVE  MailInv'
  <1>1. CASE Panic
    BY <1>1, PanicKeepsMail
  <1>2. CASE (PushCheck(p) \/ PushSends(p) \/ PushFull(p)) /\ UNCHANGED <<sysVars, actorVars, poolVars, failures, crashed>>
    <2>1. p \in Pushes'
      BY MailGrows
    <2>2. ASSUME NEW at \in {"send", "block"}, PushGoes(p, at) PROVE pushes' \subseteq Pushes'
      BY <2>1, <2>2, MailGrows DEF PushGoes, Pushes
    <2>3. PushDone(p) => pushes' \subseteq Pushes'
      BY MailGrows DEF PushDone
    <2>4. pushes' \subseteq Pushes'
      BY <1>2, <2>2, <2>3 DEF PushCheck, PushSends, PushFull
    <2>5. box' \in [Incs -> Seq(Messages')]
      <3>1. CASE box' = box
        BY <3>1, MailGrows
      <3>2. CASE box' = [box EXCEPT ![p.to] = Append(@, p.msg)]
        BY <2>1, <3>2, MailGrows DEF Pushes
      <3>3. CASE box' = [box EXCEPT ![p.to] = Tail(@)] /\ Len(box[p.to]) = Capacity
        <4>1. box[p.to] \in Seq(Messages') /\ box[p.to] # <<>>
          BY <2>1, <3>3, MailGrows, TreeAssumption DEF Pushes
        <4>2. Tail(box[p.to]) \in Seq(Messages')
          BY <4>1
        <4> QED
          BY <3>3, <4>2, MailGrows
      <3> QED
        BY <1>2, <3>1, <3>2, <3>3 DEF PushCheck, PushSends, PushFull
    <2> QED
      BY <1>2, <2>4, <2>5, MailGrows DEF MailInv, actorVars, poolVars, supVars
  <1> QED
    BY <1>1, <1>2 DEF PushStep

LEMMA LoopKeepsMail ==
    ASSUME MailInv, PathInv, Grows, NEW i \in Incs, runActor(i), UNCHANGED supVars
    PROVE  MailInv'
  <1> USE DEF sysVars, mailVars, poolVars, supVars
  <1>1. CASE PreStart(i) \/ LoopEnds(i)
    BY <1>1, MailGrows DEF PreStart, LoopEnds, MailInv
  <1>2. CASE PreStartFails(i)
    <2>1. i # Supervisor /\ loop'[i] # "unused"
      BY <1>2 DEF PreStartFails, LoopGoes, PathInv
    <2>2. FailedMsg(i, "start") \in Messages'
      BY <2>1 DEF FailedMsg, Messages, Causes, Started
    <2>3. Push(<<"loop", i>>, Supervisor, FailedMsg(i, "start")) \in Pushes'
      BY <2>2, TreeAssumption DEF Push, Pushes, Pushers, Supervisor, Incs
    <2> QED
      BY <1>2, <2>3, MailGrows DEF PreStartFails, MailInv
  <1>3. CASE TryPop(i)
    <2>1. CASE box[i] # <<>>
      <3>1. Head(box[i]) \in Messages' /\ Tail(box[i]) \in Seq(Messages')
        BY <2>1, MailGrows
      <3>2. hand' \in [Incs -> Messages'] /\ box' \in [Incs -> Seq(Messages')]
        BY <1>3, <2>1, <3>1, MailGrows DEF TryPop
      <3> QED
        BY <1>3, <3>2, MailGrows DEF TryPop, MailInv
    <2>2. CASE box[i] = <<>>
      BY <1>3, <2>2, MailGrows DEF TryPop, MailInv
    <2> QED
      BY <2>1, <2>2
  <1>4. CASE Dispatch(i)
    <2>1. CASE Panic
      BY <2>1, PanicKeepsMail
    <2>2. CASE running /\ LoopGoes(i, "dispatch", Polls(i))
      <3>1. i # Supervisor => Started(i)'
        BY <2>2 DEF LoopGoes, Polls, Started, PathInv
      <3>2. ASSUME NEW pool \in BOOLEAN PROVE Task(i, hand[i], pool) \in NewTasks'
        BY <3>1, MailGrows, TreeAssumption DEF Task, NewTasks, Tasks, Places, WithKid, WithKids, Incs
      <3>3. ZeroMsg(i) \in Messages'
        BY DEF ZeroMsg, Messages
      <3>4. hand' \in [Incs -> Messages']
        BY <1>4, <2>2, <3>3, MailGrows DEF Dispatch, Panic
      <3>5. queue' \in Seq(NewTasks') /\ tasks' \subseteq Tasks'
        <4>1. CASE queue' = Append(queue, Task(i, hand[i], TRUE)) /\ UNCHANGED tasks
          <5> DEFINE u == Task(i, hand[i], TRUE)
          <5>1. u \in NewTasks'
            BY <3>2
          <5>2. queue' = Append(queue, u) /\ queue \in Seq(NewTasks') /\ tasks' \subseteq Tasks'
            BY <4>1, MailGrows
          <5> HIDE DEF u
          <5> QED
            BY <5>1, <5>2
        <4>2. CASE tasks' = tasks \cup {Task(i, hand[i], FALSE)} /\ UNCHANGED queue
          BY <3>2, <4>2, MailGrows DEF NewTasks
        <4>3. CASE Len(queue) < QueueSize
          BY <1>4, <2>2, <4>1, <4>3 DEF Dispatch
        <4>4. CASE ~(Len(queue) < QueueSize)
          BY <1>4, <2>2, <4>2, <4>4 DEF Dispatch
        <4> QED
          BY <4>3, <4>4
      <3> QED
        BY <1>4, <2>2, <3>4, <3>5, MailGrows DEF Dispatch, MailInv
    <2> QED
      BY <1>4, <2>1, <2>2 DEF Dispatch
  <1> QED
    BY <1>1, <1>2, <1>3, <1>4 DEF runActor

LEMMA NextMailInv ==
    ASSUME MailInv, PathInv, [SupNext]_treeVars
    PROVE  MailInv'
  <1>0. Grows
    BY NextGrows
  <1> USE DEF mailVars, poolVars, supVars, actorVars
  <1>1. ASSUME NEW t \in tasks, TaskStep(t) PROVE MailInv'
    BY <1>0, <1>1, TaskKeepsMail
  <1>2. ASSUME NEW k \in Kids, WindowPasses(k) PROVE MailInv'
    BY <1>0, <1>2, MailGrows DEF WindowPasses, MailInv
  <1>3. ASSUME NEW p \in pushes, PushStep(p), UNCHANGED supVars PROVE MailInv'
    BY <1>0, <1>3, PushKeepsMail
  <1>4. ASSUME NEW i \in Incs, runActor(i), UNCHANGED supVars PROVE MailInv'
    BY <1>0, <1>4, LoopKeepsMail
  <1>5. CASE worker /\ UNCHANGED supVars
    <2>1. Head(queue) \in NewTasks' /\ Tail(queue) \in Seq(NewTasks')
      BY <1>0, <1>5, MailGrows DEF worker
    <2> QED
      BY <1>0, <1>5, <2>1, MailGrows DEF worker, MailInv, NewTasks
  <1>6. CASE (Stop \/ StopReturns) /\ UNCHANGED supVars
    BY <1>0, <1>6, MailGrows DEF Stop, StopReturns, MailInv
  <1>7. CASE UNCHANGED treeVars
    BY <1>0, <1>7, MailGrows DEF treeVars, MailInv
  <1> QED
    BY <1>1, <1>2, <1>3, <1>4, <1>5, <1>6, <1>7 DEF SupNext

-----------------------------------------------------------------------------
(* ChildNotLost: a path is emptied only by a stop.  The one of a restart   *)
(* leaves its task about to spawn, the other one is of a child given up.   *)
Spawning(k) == \E t \in tasks : t.pc = "spawn" /\ t.kid = k
Kept(k) == registered[k] # 0 \/ k \in given \/ Spawning(k)

LEMMA NotLostIsKept == ChildNotLost <=> ((running /\ ~crashed) => \A k \in Kids : Kept(k))
  BY DEF ChildNotLost, Kept, Spawning

(* A task that is replaced, and is not about to spawn, takes no other with *)
(* it.                                                                     *)
LEMMA OthersGoOn ==
    ASSUME NEW t \in tasks, NEW u, TaskIs(t, u) \/ TaskEnds(t), NEW k, Spawning(k)
    PROVE  Spawning(k)' \/ (t.pc = "spawn" /\ t.kid = k)
  <1>1. PICK v \in tasks : v.pc = "spawn" /\ v.kid = k
    BY DEF Spawning
  <1>2. CASE v = t
    BY <1>1, <1>2
  <1>3. CASE v # t
    <2>1. v \in tasks'
      BY <1>3 DEF TaskIs, TaskEnds
    <2> QED
      BY <1>1, <2>1 DEF Spawning
  <1> QED
    BY <1>2, <1>3

LEMMA TaskKeepsKids ==
    ASSUME MailInv, PathInv, ChildNotLost, ~crashed, NEW t \in tasks, TaskStep(t), running'
    PROVE  \A k \in Kids : Kept(k)'
  <1> USE DEF sysVars, supVars
  <1>0. running /\ \A k \in Kids : Kept(k)
    <2>1. running' = running
      BY DEF TaskStep, ChildReceive, ChildTold, routeMessage, RouteNext, HandleFailure, StopChild, restartAll,
             RestartStops, RestartSpawns, RestartNotes
    <2> QED
      BY <2>1, NotLostIsKept
  <1>1. t \in Tasks
    BY DEF MailInv
  <1>2. ASSUME NEW u, TaskIs(t, u) \/ TaskEnds(t), t.pc # "spawn", registered' = registered, given \subseteq given'
        PROVE  \A k \in Kids : Kept(k)'
    BY <1>0, <1>2, OthersGoOn DEF Kept
  <1>3. CASE ChildReceive(t) \/ ChildTold(t) \/ routeMessage(t) \/ RouteNext(t)
    BY <1>2, <1>3 DEF ChildReceive, ChildTold, routeMessage, RouteNext
  <1>4. CASE HandleFailure(t) \/ restartAll(t)
    BY <1>2, <1>4 DEF HandleFailure, restartAll
  <1>5. CASE RestartNotes(t)
    BY <1>2, <1>5 DEF RestartNotes, After
  <1>6. CASE StopChild(t)
    <2>1. t.kid \in given /\ given' = given
      BY <1>1, <1>6 DEF Tasks, StopChild
    <2>2. \A k \in Kids : k # t.kid => registered'[k] = registered[k]
      BY <1>6 DEF StopChild, StopActor, PathInv
    <2> QED
      BY <1>0, <1>6, <2>1, <2>2, OthersGoOn DEF StopChild, Kept
  <1>7. CASE RestartStops(t)
    <2>1. [t EXCEPT !.pc = "spawn"] \in tasks' /\ given' = given
      BY <1>7 DEF RestartStops, TaskIs
    <2>2. [t EXCEPT !.pc = "spawn"].pc = "spawn" /\ [t EXCEPT !.pc = "spawn"].kid = t.kid
      BY <1>1 DEF Tasks
    <2>3. \A k \in Kids : k # t.kid => registered'[k] = registered[k]
      BY <1>7 DEF RestartStops, StopActor, PathInv
    <2>4. ASSUME NEW k \in Kids PROVE Kept(k)'
      <3>1. CASE k = t.kid
        BY <2>1, <2>2, <3>1 DEF Kept, Spawning
      <3>2. CASE k # t.kid
        BY <1>0, <1>7, <2>1, <2>3, <3>2, OthersGoOn DEF RestartStops, Kept
      <3> QED
        BY <3>1, <3>2
    <2> QED
      BY <2>4
  <1>8. CASE RestartSpawns(t)
    <2>1. t.kid \in Kids /\ given' = given
      BY <1>1, <1>8 DEF Tasks, WithKid, RestartSpawns
    <2>2. registered'[t.kid] # 0
      <3>1. CASE registered[t.kid] # 0
        BY <1>8, <3>1 DEF RestartSpawns, SpawnActor
      <3>2. CASE registered[t.kid] = 0
        <4>1. Fresh # {} /\ registered' = [registered EXCEPT ![t.kid] = NextInc]
          BY <1>0, <1>8, <3>2 DEF RestartSpawns, SpawnActor
        <4>2. NextInc # 0
          BY <4>1, NextIncIsFresh DEF PathInv, Supervisor
        <4> QED
          BY <2>1, <4>1, <4>2 DEF PathInv
      <3> QED
        BY <3>1, <3>2
    <2>3. \A k \in Kids : k # t.kid => registered'[k] = registered[k]
      BY <1>8 DEF RestartSpawns, SpawnActor, PathInv
    <2>4. \E u : TaskIs(t, u) \/ TaskEnds(t)
      BY <1>8 DEF RestartSpawns, After
    <2> QED
      BY <1>0, <2>1, <2>2, <2>3, <2>4, OthersGoOn DEF Kept
  <1> QED
    BY <1>3, <1>4, <1>5, <1>6, <1>7, <1>8 DEF TaskStep

LEMMA NextChildNotLost ==
    ASSUME MailInv, PathInv, ChildNotLost, [SupNext]_treeVars
    PROVE  ChildNotLost'
  <1> USE DEF sysVars, actorVars, poolVars, supVars
  <1>0. ASSUME running' => running, crashed' = crashed, UNCHANGED <<registered, given>>, tasks \subseteq tasks'
        PROVE  ChildNotLost'
    BY <1>0 DEF ChildNotLost
  <1>1. ASSUME NEW t \in tasks, TaskStep(t), ~crashed PROVE ChildNotLost'
    <2>1. running' => \A k \in Kids : Kept(k)'
      BY <1>1, TaskKeepsKids
    <2> QED
      BY <2>1 DEF ChildNotLost, Kept, Spawning
  <1>2. CASE Panic
    BY <1>2 DEF Panic, ChildNotLost
  <1>3. ASSUME NEW k \in Kids, WindowPasses(k) PROVE ChildNotLost'
    BY <1>0, <1>3 DEF WindowPasses
  <1>4. ASSUME NEW p \in pushes, PushStep(p), UNCHANGED supVars PROVE ChildNotLost'
    BY <1>0, <1>2, <1>4 DEF PushStep
  <1>5. ASSUME NEW i \in Incs, runActor(i), UNCHANGED supVars PROVE ChildNotLost'
    <2>1. CASE Dispatch(i)
      <3>1. CASE running /\ LoopGoes(i, "dispatch", Polls(i)) /\ UNCHANGED <<sysVars, kidOf, cancelled, closed, mailVars, failures, crashed>>
        <4>1. tasks \subseteq tasks'
          BY <1>2, <2>1, <3>1 DEF Dispatch
        <4> QED
          BY <1>0, <1>5, <3>1, <4>1
      <3> QED
        BY <1>2, <2>1, <3>1 DEF Dispatch
    <2>2. CASE PreStart(i) \/ PreStartFails(i) \/ LoopEnds(i) \/ TryPop(i)
      BY <1>0, <1>5, <2>2 DEF PreStart, PreStartFails, LoopEnds, TryPop
    <2> QED
      BY <1>5, <2>1, <2>2 DEF runActor
  <1>6. CASE worker /\ UNCHANGED supVars
    BY <1>0, <1>6 DEF worker
  <1>7. CASE (Stop \/ StopReturns) /\ UNCHANGED supVars
    BY <1>0, <1>7 DEF Stop, StopReturns
  <1>8. CASE UNCHANGED treeVars
    BY <1>0, <1>8 DEF treeVars
  <1> QED
    BY <1>1, <1>3, <1>4, <1>5, <1>6, <1>7, <1>8 DEF SupNext

-----------------------------------------------------------------------------
LEMMA InitTreeInv == SupInit => TreeInv
  <1> SUFFICES ASSUME SupInit PROVE TreeInv
    OBVIOUS
  <1> DEFINE Of(i) == IF \E k \in Kids : FirstInc[k] = i THEN CHOOSE k \in Kids : FirstInc[k] = i ELSE NoKid
  <1>1. /\ \A k \in Kids : FirstInc[k] \in 1..MaxInc /\ Of(FirstInc[k]) = k
        /\ FirstInc \in [Kids -> Incs]
    BY FirstIncNumbers, TreeAssumption DEF Incs
  <1>2. \A i \in Incs : Of(i) \in Kids \cup {NoKid} /\ (Of(i) # NoKid => Of(i) \in Kids /\ FirstInc[Of(i)] = i)
    OBVIOUS
  <1>3. kidOf = [i \in Incs |-> Of(i)] /\ registered = FirstInc /\ ctxKids = FirstInc
    BY DEF SupInit
  <1> HIDE DEF Of
  <1>4. /\ loop \in [Incs -> LoopPlaces] /\ loop[Supervisor] # "unused"
        /\ \A i \in Incs : Started(i) <=> i # Supervisor /\ Of(i) # NoKid
    BY <1>3, TreeAssumption DEF SupInit, LoopPlaces, Started, Supervisor, Incs
  <1>5. PathInv
    <2>1. cancelled \in [Incs -> BOOLEAN] /\ kidOf \in [Incs -> Kids \cup {NoKid}]
      BY <1>2, <1>3 DEF SupInit
    <2>2. \A k \in Kids : FirstInc[k] \in Incs /\ FirstInc[k] # 0 /\ Started(FirstInc[k]) /\ kidOf[FirstInc[k]] = k
      BY <1>1, <1>3, <1>4, TreeAssumption DEF Supervisor, Incs
    <2>3. \A i \in Incs : Started(i) => kidOf[i] \in Kids /\ registered[kidOf[i]] = i
      BY <1>2, <1>3, <1>4
    <2> QED
      BY <1>1, <1>3, <1>4, <2>1, <2>2, <2>3 DEF PathInv, OneLiveIncarnation, Started
  <1>6. MailInv
    <2>1. \A i \in Incs : ZeroMsg(i) \in Messages
      BY DEF ZeroMsg, Messages
    <2>2. {DataMsg(d) : d \in Data} \subseteq Messages
      BY DEF DataMsg, Messages
    <2>3. Waiting \in Seq(Messages) /\ Routed \in Seq(Messages)
      BY <2>2, SeqGrows, TreeAssumption
    <2>4. hand \in [Incs -> Messages] /\ box \in [Incs -> Seq(Messages)]
      BY <2>1, <2>3 DEF SupInit
    <2> QED
      BY <1>1, <1>3, <2>4 DEF SupInit, MailInv
  <1>7. ChildNotLost
    BY <1>1, <1>3 DEF ChildNotLost
  <1> QED
    BY <1>5, <1>6, <1>7 DEF TreeInv

LEMMA TreeInvariant == SupSpec => []TreeInv
  <1>1. TreeInv /\ [SupNext]_treeVars => TreeInv'
    BY NextMailInv, NextPathInv, NextChildNotLost DEF TreeInv
  <1> QED
    BY <1>1, InitTreeInv, PTL DEF SupSpec

(* At most one incarnation of a child runs with a live context, and its    *)
(* path leads to it, for any number of children, failures and workers.     *)
THEOREM OneIncarnationLives == SupSpec => []OneLiveIncarnation
  BY TreeInvariant, PTL DEF TreeInv, PathInv

(* While the system runs, a child without an actor has been given up or is *)
(* about to be spawned.                                                    *)
THEOREM NoChildIsLost == SupSpec => []ChildNotLost
  BY TreeInvariant, PTL DEF TreeInv
=============================================================================
