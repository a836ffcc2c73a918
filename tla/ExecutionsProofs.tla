--------------------------- MODULE ExecutionsProofs ---------------------------
(***************************************************************************)
(* The execution service, the group executor, the aggregator of statistics *)
(* and the stream processor, for any number of executions, runs, pipelines,*)
(* hours and records.                                                      *)
(***************************************************************************)
EXTENDS ExecutionService, GroupExecutor, StatsAggregator, StreamProcessor,
        FiniteSetTheorems, TLAPS

-----------------------------------------------------------------------------
(* The execution service *)

(* Executions are numbered in the order in which they start; nothing has   *)
(* happened to the ones to come.                                           *)
ServiceInv ==
    /\ started \in 0..MaxExec /\ tracked \in 0..MaxExec
    /\ ctx \in [Execs -> {"no", "stop", "caller"}]
    /\ DOMAIN at = Execs
    /\ \A e \in Execs : e > started => ctx[e] = "no" /\ at[e] = "none"
    /\ TrackedIsLatest

(* The goroutine of an execution that has started touches the table only   *)
(* to delete the entry.                                                    *)
LEMMA GoroutineKeeps ==
    ASSUME ServiceInv, NEW e \in Execs, runExecution(e)
    PROVE  ServiceInv'
<1>1. ctx' = ctx /\ started' = started /\ tracked' \in {tracked, 0}
  BY DEF runExecution, BatchPipeline, BatchCompletesRow, BatchCompletesWorkflow, RealtimeReads,
         RealtimeWrites, RealtimeEnds, UnknownType, cleanupExecution
<1>2. at' = at \/ (at[e] # "none" /\ \E to : at' = [at EXCEPT ![e] = to])
  BY DEF runExecution, BatchPipeline, BatchCompletesRow, BatchCompletesWorkflow, RealtimeReads,
         RealtimeWrites, RealtimeEnds, UnknownType, cleanupExecution, Goes
<1>3. DOMAIN at' = Execs /\ \A f \in Execs : f > started => at'[f] = "none"
  BY <1>2 DEF ServiceInv
<1> QED
  BY <1>1, <1>3, ServiceAssumption DEF ServiceInv, TrackedIsLatest

(* An entry of runningWorkflows is the last execution started and no       *)
(* request has stopped it (StartExecution, StopExecution,                  *)
(* cleanupExecution), for any number of executions and pipelines.          *)
THEOREM TrackedIsAlwaysLatest == ServiceSpec => []TrackedIsLatest
<1>1. ServiceInit => ServiceInv
  BY ServiceAssumption DEF ServiceInit, ServiceInv, TrackedIsLatest, Execs
<1>2. ServiceInv /\ [ServiceNext]_serviceVars => ServiceInv'
  <2> SUFFICES ASSUME ServiceInv, [ServiceNext]_serviceVars PROVE ServiceInv'
    OBVIOUS
  <2>1. CASE StartExecution
    BY <2>1, ServiceAssumption DEF StartExecution, ServiceInv, TrackedIsLatest, Execs
  <2>2. CASE StopExecution
    <3>1. tracked \in Execs /\ tracked = started
      BY <2>2, ServiceAssumption DEF StopExecution, ServiceInv, TrackedIsLatest, Execs
    <3>2. /\ ctx' \in [Execs -> {"no", "stop", "caller"}]
          /\ \A e \in Execs : e # tracked => ctx'[e] = ctx[e]
      BY <2>2, <3>1 DEF StopExecution, ServiceInv
    <3> QED
      BY <2>2, <3>1, <3>2, ServiceAssumption DEF StopExecution, ServiceInv, TrackedIsLatest, Execs
  <2>3. CASE PauseExecution \/ ResumeExecution
    BY <2>3 DEF PauseExecution, ResumeExecution, ServiceInv, TrackedIsLatest
  <2>4. ASSUME NEW e \in Execs, runExecution(e) PROVE ServiceInv'
    BY <2>4, GoroutineKeeps
  <2>5. ASSUME NEW e \in Execs, CallerCancels(e) PROVE ServiceInv'
    <3>1. /\ ctx' \in [Execs -> {"no", "stop", "caller"}]
          /\ ctx'[e] = "caller" /\ ~(e > started)
          /\ \A f \in Execs : f # e => ctx'[f] = ctx[f]
      BY <2>5 DEF CallerCancels, ServiceInv
    <3>2. tracked # 0 => tracked \in Execs
      BY ServiceAssumption DEF ServiceInv, Execs
    <3> QED
      BY <2>5, <3>1, <3>2 DEF CallerCancels, ServiceInv, TrackedIsLatest
  <2>6. CASE UNCHANGED serviceVars
    BY <2>6 DEF serviceVars, ServiceInv, TrackedIsLatest
  <2> QED
    BY <2>1, <2>2, <2>3, <2>4, <2>5, <2>6 DEF ServiceNext
<1>3. ServiceInv => TrackedIsLatest
  BY DEF ServiceInv
<1> QED
  BY <1>1, <1>2, <1>3, PTL DEF ServiceSpec

-----------------------------------------------------------------------------
(* The group executor: in DAG mode a pipeline starts after the pipelines   *)
(* it depends on.                                                          *)

States == {"no", "running", "completed", "failed", "canceled"}

(* What a run still has to start has no job in it: StartJobs never touches *)
(* a job that has completed.                                               *)
DAGInv ==
    mode = "dag" =>
        /\ job \in [Runs -> [Pipelines -> States]]
        /\ remaining \in [Runs -> SUBSET Pipelines]
        /\ \A r \in Runs : \A p \in remaining[r] : job[r][p] = "no"
        /\ DependenciesFirst

(* A step that leaves the group, its jobs and what remains alone.          *)
LEMMA OthersKeep == DAGInv /\ UNCHANGED <<group, remaining, job>> => DAGInv'
  BY DEF DAGInv, group, DependenciesFirst, State

(* A job that ends was running, and nothing depends on its not having      *)
(* completed.                                                              *)
LEMMA JobEndKeeps ==
    ASSUME NEW r \in Runs, NEW p \in Pipelines, DAGInv, runPipeline(r, p)
    PROVE  DAGInv'
  <1> SUFFICES ASSUME mode' = "dag" PROVE DAGInv'
    BY DEF DAGInv
  <1>1. mode = "dag" /\ deps' = deps /\ remaining' = remaining
    BY DEF runPipeline, group
  <1>2. PICK s \in {"failed", "canceled", "completed"} : job' = [job EXCEPT ![r][p] = s]
    BY DEF runPipeline
  <1>3. job[r][p] = "running"
    BY DEF runPipeline, State
  <1>4. job' \in [Runs -> [Pipelines -> States]]
    BY <1>1, <1>2 DEF DAGInv, States
  <1>5. \A q \in Runs : \A x \in Pipelines : (q # r \/ x # p) => job'[q][x] = job[q][x]
    BY <1>1, <1>2 DEF DAGInv
  <1>6. \A q \in Runs : \A x \in remaining'[q] : job'[q][x] = "no"
    BY <1>1, <1>3, <1>5 DEF DAGInv
  <1>7. DependenciesFirst'
    <2> SUFFICES ASSUME NEW q \in Runs, NEW x \in Pipelines, job'[q][x] # "no", NEW d \in deps[x]
                 PROVE  d \in Pipelines /\ job'[q][d] = "completed"
      BY <1>1 DEF DependenciesFirst, State
    <2>1. job[q][x] # "no"
      BY <1>3, <1>5
    <2>2. d \in Pipelines /\ job[q][d] = "completed"
      BY <2>1, <1>1 DEF DAGInv, DependenciesFirst, State
    <2> QED
      BY <2>2, <1>3, <1>5
  <1> QED
    BY <1>1, <1>4, <1>6, <1>7 DEF DAGInv

(* A round starts pipelines whose dependencies have completed; these are   *)
(* not among the ones it starts.                                           *)
LEMMA RoundKeeps ==
    ASSUME NEW r \in Runs, DAGInv, DAGStep(r)
    PROVE  DAGInv'
  <1> DEFINE toRun == {p \in remaining[r] : canRun(r, p)}
  <1>1. mode = "dag" /\ UNCHANGED group
    BY DEF DAGStep
  <1>2. CASE UNCHANGED <<remaining, job>>
    BY <1>1, <1>2, OthersKeep
  <1>3. CASE StartJobs(r, toRun)
    <2>1. /\ job' = [job EXCEPT ![r] = [p \in Pipelines |-> IF p \in toRun THEN "running" ELSE job[r][p]]]
          /\ remaining' = [remaining EXCEPT ![r] = @ \ toRun]
      BY <1>3 DEF StartJobs
    <2>2. job' \in [Runs -> [Pipelines -> States]]
      BY <1>1, <2>1 DEF DAGInv, States
    <2>3. remaining' \in [Runs -> SUBSET Pipelines]
      BY <1>1, <2>1 DEF DAGInv
    <2>4. \A q \in Runs : \A x \in Pipelines :
            job'[q][x] = IF q = r /\ x \in toRun THEN "running" ELSE job[q][x]
      BY <1>1, <2>1 DEF DAGInv
    <2>5. \A q \in Runs : \A x \in remaining'[q] : job'[q][x] = "no"
      BY <1>1, <2>1, <2>3, <2>4 DEF DAGInv
    <2>6. DependenciesFirst'
      <3> SUFFICES ASSUME NEW q \in Runs, NEW x \in Pipelines, job'[q][x] # "no", NEW d \in deps[x]
                   PROVE  d \in Pipelines /\ job'[q][d] = "completed"
        BY <1>1 DEF DependenciesFirst, State, group
      <3>1. d \in Pipelines /\ job[q][d] = "completed"
        <4>1. CASE q = r /\ x \in toRun
          BY <4>1 DEF canRun, State
        <4>2. CASE ~(q = r /\ x \in toRun)
          BY <4>2, <2>4, <1>1 DEF DAGInv, DependenciesFirst, State
        <4> QED
          BY <4>1, <4>2
      <3>2. ~(q = r /\ d \in toRun)
        BY <3>1, <1>1 DEF DAGInv
      <3> QED
        BY <3>1, <3>2, <2>4
    <2> QED
      BY <2>2, <2>3, <2>5, <2>6 DEF DAGInv
  <1> QED
    BY <1>2, <1>3 DEF DAGStep

(* A pipeline of a DAG starts only when every pipeline it depends on has   *)
(* completed without error in the same run (runDAG, canRun), for any       *)
(* pipelines, dependencies and runs.                                       *)
THEOREM DependenciesAlwaysFirst == Spec => []DependenciesFirst
<1>1. Init => DAGInv
  BY DEF Init, DAGInv, DependenciesFirst, State, States
<1>2. DAGInv /\ [Next]_vars => DAGInv'
  <2> SUFFICES ASSUME DAGInv, [Next]_vars PROVE DAGInv'
    OBVIOUS
  <2>1. CASE Start \/ Stop \/ Pause \/ Resume
    BY <2>1, OthersKeep DEF Start, Stop, Pause, Resume
  <2>2. ASSUME NEW r \in Runs, RunStep(r) PROVE DAGInv'
    <3>1. CASE ParallelStarts(r) \/ SequentialStep(r)
      BY <3>1 DEF ParallelStarts, SequentialStep, DAGInv, group
    <3>2. CASE ParallelEnds(r) \/ RunEnds(r)
      BY <3>2, OthersKeep DEF ParallelEnds, RunEnds
    <3>3. CASE DAGStep(r)
      BY <3>3, RoundKeeps
    <3> QED
      BY <2>2, <3>1, <3>2, <3>3 DEF RunStep
  <2>3. ASSUME NEW r \in Runs, NEW p \in Pipelines, runPipeline(r, p) PROVE DAGInv'
    BY <2>3, JobEndKeeps
  <2>4. CASE UNCHANGED vars
    BY <2>4, OthersKeep DEF vars, group
  <2> QED
    BY <2>1, <2>2, <2>3, <2>4 DEF Next
<1>3. DAGInv => DependenciesFirst
  BY DEF DAGInv, DependenciesFirst
<1> QED
  BY <1>1, <1>2, <1>3, PTL DEF Spec

-----------------------------------------------------------------------------
(* The aggregator of statistics *)

(* Beside the property: the bucket is never ahead of the clock, nothing is *)
(* known of later hours, and a bucket without samples is empty.            *)
BucketInv ==
    /\ now \in Hours /\ currentHour \in Hours /\ currentHour <= now
    /\ records \in Nat /\ sampleCount \in Nat
    /\ flushed \in [Hours -> Nat] /\ adds \in [Hours -> Nat]
    /\ \A h \in Hours : h > currentHour => flushed[h] = 0 /\ adds[h] = 0
    /\ sampleCount = 0 => records = 0
    /\ BucketsAddUp

(* Handing the bucket over completes its hour and changes no other.        *)
LEMMA FlushCompletes ==
    ASSUME MaxHour \in Nat, BucketInv
    PROVE  /\ flushLocked \in [Hours -> Nat]
           /\ flushLocked[currentHour] = adds[currentHour]
           /\ \A h \in Hours : h # currentHour => flushLocked[h] = flushed[h]
  BY DEF BucketInv, BucketsAddUp, flushLocked, Hours

(* Nothing added is lost or counted twice (RealtimeStatsAggregator.Add,    *)
(* Flush): every hour before the bucket's has been handed over in full,    *)
(* for any number of hours and of calls.                                   *)
THEOREM BucketsAlwaysAddUp ==
    ASSUME MaxHour \in Nat
    PROVE  StatsSpec => []BucketsAddUp
<1>1. StatsInit => BucketInv
  BY DEF StatsInit, BucketInv, BucketsAddUp, Hours
<1>2. BucketInv /\ [StatsNext]_statsVars => BucketInv'
  <2> SUFFICES ASSUME BucketInv, [StatsNext]_statsVars PROVE BucketInv'
    OBVIOUS
  <2>0. /\ flushLocked \in [Hours -> Nat]
        /\ flushLocked[currentHour] = adds[currentHour]
        /\ \A h \in Hours : h # currentHour => flushLocked[h] = flushed[h]
    BY FlushCompletes
  <2>1. CASE Tick
    BY <2>1 DEF Tick, BucketInv, BucketsAddUp, Hours
  <2>2. CASE Flush
    BY <2>2, <2>0 DEF Flush, BucketInv, BucketsAddUp, Hours
  <2>3. ASSUME NEW n \in 0..1, Add(n) PROVE BucketInv'
    <3>1. /\ adds' \in [Hours -> Nat] /\ adds'[now] = adds[now] + n
          /\ \A h \in Hours : h # now => adds'[h] = adds[h]
      BY <2>3 DEF Add, BucketInv, Hours
    <3>2. now' = now /\ currentHour' = now /\ now \in Hours
      BY <2>3 DEF Add, BucketInv
    <3>3. CASE now = currentHour
      <4>1. records' = records + n /\ sampleCount' = sampleCount + 1 /\ flushed' = flushed
        BY <2>3, <3>3 DEF Add
      <4> QED
        BY <3>1, <3>2, <3>3, <4>1 DEF BucketInv, BucketsAddUp, Hours
    <3>4. CASE now # currentHour
      <4>1. records' = n /\ sampleCount' = 1 /\ flushed' = flushLocked
        BY <2>3, <3>4 DEF Add
      <4>2. now > currentHour
        BY <3>4 DEF BucketInv, Hours
      <4>3. flushed' \in [Hours -> Nat] /\ flushed'[now] = 0 /\ adds[now] = 0
        BY <4>1, <4>2, <2>0 DEF BucketInv, Hours
      <4>4. \A h \in Hours : h < now => flushed'[h] = adds'[h]
        <5> SUFFICES ASSUME NEW h \in Hours, h < now PROVE flushed'[h] = adds'[h]
          OBVIOUS
        <5>1. adds'[h] = adds[h]
          BY <3>1 DEF Hours
        <5>2. CASE h = currentHour
          BY <5>1, <5>2, <4>1, <2>0
        <5>4. h # currentHour => flushed[h] = adds[h]
          BY <3>2 DEF BucketInv, BucketsAddUp, Hours
        <5>3. CASE h # currentHour
          BY <5>1, <5>3, <4>1, <2>0, <3>2, <4>2, <5>4
        <5> QED
          BY <5>2, <5>3
      <4>5. \A h \in Hours : h > now => flushed'[h] = 0 /\ adds'[h] = 0
        <5> SUFFICES ASSUME NEW h \in Hours, h > now PROVE flushed'[h] = 0 /\ adds'[h] = 0
          OBVIOUS
        <5>1. h > currentHour /\ h # now
          BY <4>2, <3>2 DEF Hours, BucketInv
        <5>2. flushed[h] = 0 /\ adds[h] = 0 /\ h # currentHour
          BY <5>1 DEF BucketInv, Hours
        <5> QED
          BY <5>1, <5>2, <3>1, <4>1, <2>0
      <4>6. records' = adds'[now] /\ records' \in Nat /\ flushed'[now] <= records'
        BY <3>1, <4>1, <4>3
      <4>7. BucketsAddUp'
        BY <3>2, <4>4, <4>6 DEF BucketsAddUp, Hours
      <4>8. now \in Nat /\ now <= now
        BY <3>2 DEF Hours
      <4> QED
        BY <3>1, <3>2, <4>1, <4>3, <4>5, <4>6, <4>7, <4>8 DEF BucketInv, Hours
    <3> QED
      BY <3>3, <3>4
  <2>4. CASE UNCHANGED statsVars
    BY <2>4 DEF statsVars, BucketInv, BucketsAddUp
  <2> QED
    BY <2>1, <2>2, <2>3, <2>4 DEF StatsNext
<1>3. BucketInv => BucketsAddUp
  BY DEF BucketInv
<1> QED
  BY <1>1, <1>2, <1>3, PTL DEF StatsSpec

-----------------------------------------------------------------------------
(* The stream processor *)

(* The places of EachRecordOnce as sets of records.                        *)
Held ==
    << Elems(channel), IF source = "send" THEN {made} ELSE {}, IF hand = 0 THEN {} ELSE {hand},
       Elems(buffer), Elems(taken["loop"]), Elems(taken["timer"]), Elems(taken["close"]),
       Elems(written), failed, skipped >>

Slots == 1..10
Apart(H) == \A i, j \in Slots : H[i] \cap H[j] # {} => i = j
AllOf(H) == UNION {H[k] : k \in Slots}
Once(s) == \A i, j \in 1..Len(s) : s[i] = s[j] => i = j

(* Records that go from one place to another stay apart from the rest, and *)
(* none comes or goes.                                                     *)
LEMMA MoveKeeps ==
    ASSUME NEW H, NEW G, Apart(H), NEW a \in Slots, NEW b \in Slots, a # b,
           NEW M, M \subseteq H[a], G[a] = H[a] \ M, G[b] = H[b] \cup M,
           \A k \in Slots \ {a, b} : G[k] = H[k]
    PROVE  Apart(G) /\ AllOf(G) = AllOf(H)
<1>1. \A k \in Slots : \A r : r \in G[k] => \E j \in Slots : r \in H[j] /\ (j = k \/ (j = a /\ k = b /\ r \in M))
  OBVIOUS
<1>2. \A k \in Slots : \A r : r \in H[k] => \E j \in Slots : r \in G[j]
  OBVIOUS
<1>3. Apart(G)
  <2> SUFFICES ASSUME NEW i \in Slots, NEW j \in Slots, NEW r, r \in G[i], r \in G[j]
               PROVE  i = j
    BY DEF Apart
  <2>0. \A x, y \in Slots : r \in H[x] /\ r \in H[y] => x = y
    BY DEF Apart
  <2>1. CASE r \in M
    BY <2>0, <2>1
  <2>2. CASE r \notin M
    BY <1>1, <2>0, <2>2
  <2> QED
    BY <2>1, <2>2
<1> QED
  BY <1>1, <1>2, <1>3 DEF AllOf

LEMMA ElemsOfAppend ==
    ASSUME NEW s \in Seq(Nat), NEW x \in Nat
    PROVE  /\ Append(s, x) \in Seq(Nat)
           /\ Elems(Append(s, x)) = Elems(s) \cup {x}
           /\ Once(s) /\ x \notin Elems(s) => Once(Append(s, x))
<1>1. Len(Append(s, x)) = Len(s) + 1 /\ Append(s, x)[Len(s) + 1] = x /\ Append(s, x) \in Seq(Nat)
  OBVIOUS
<1>2. \A i \in 1..Len(s) : Append(s, x)[i] = s[i]
  OBVIOUS
<1>3. Len(s) \in Nat
  OBVIOUS
<1>4. \A i \in 1..Len(s) + 1 : i \in 1..Len(s) \/ i = Len(s) + 1
  BY <1>3
<1>5. 1..Len(s) \subseteq 1..Len(s) + 1 /\ Len(s) + 1 \in 1..Len(s) + 1
  BY <1>3
<1>6. Elems(Append(s, x)) = Elems(s) \cup {x}
  BY <1>1, <1>2, <1>4, <1>5 DEF Elems
<1> QED
  BY <1>1, <1>2, <1>4, <1>6 DEF Once, Elems

LEMMA ElemsOfTail ==
    ASSUME NEW s \in Seq(Nat), s # <<>>, Once(s)
    PROVE  /\ Tail(s) \in Seq(Nat) /\ Head(s) \in Nat /\ Head(s) \in Elems(s)
           /\ Elems(Tail(s)) = Elems(s) \ {Head(s)}
           /\ Once(Tail(s))
<1>1. Len(s) \in Nat /\ Len(s) > 0 /\ Len(Tail(s)) = Len(s) - 1 /\ Tail(s) \in Seq(Nat) /\ Head(s) = s[1]
  OBVIOUS
<1>2. \A i \in 1..Len(Tail(s)) : Tail(s)[i] = s[i + 1] /\ i + 1 \in 1..Len(s) /\ i + 1 # 1
  BY <1>1
<1>3. \A i \in 1..Len(s) : i = 1 \/ (i - 1 \in 1..Len(Tail(s)) /\ Tail(s)[i - 1] = s[i])
  BY <1>1
<1>4. Head(s) \in Elems(s) /\ 1 \in 1..Len(s) /\ Head(s) \in Nat
  BY <1>1 DEF Elems
<1>5. Elems(Tail(s)) = Elems(s) \ {Head(s)}
  <2>1. ASSUME NEW r \in Elems(Tail(s)) PROVE r \in Elems(s) \ {Head(s)}
    <3>1. PICK i \in 1..Len(Tail(s)) : r = Tail(s)[i]
      BY <2>1 DEF Elems
    <3> QED
      BY <3>1, <1>1, <1>2, <1>4 DEF Elems, Once
  <2>2. ASSUME NEW r \in Elems(s), r # Head(s) PROVE r \in Elems(Tail(s))
    <3>1. PICK i \in 1..Len(s) : r = s[i]
      BY <2>2 DEF Elems
    <3> QED
      BY <3>1, <2>2, <1>1, <1>3 DEF Elems
  <2> QED
    BY <2>1, <2>2
<1>6. Once(Tail(s))
  <2> SUFFICES ASSUME NEW i \in 1..Len(Tail(s)), NEW j \in 1..Len(Tail(s)), Tail(s)[i] = Tail(s)[j]
               PROVE  i = j
    BY DEF Once
  <2>1. i + 1 = j + 1
    BY <1>2 DEF Once
  <2> QED
    BY <2>1
<1> QED
  BY <1>1, <1>4, <1>5, <1>6

LEMMA ElemsOfConcat ==
    ASSUME NEW s \in Seq(Nat), NEW t \in Seq(Nat)
    PROVE  /\ s \o t \in Seq(Nat)
           /\ Elems(s \o t) = Elems(s) \cup Elems(t)
           /\ Once(s) /\ Once(t) /\ Elems(s) \cap Elems(t) = {} => Once(s \o t)
<1> DEFINE m == Len(s)
           n == Len(t)
           u == s \o t
<1>1. m \in Nat /\ n \in Nat /\ Len(u) = m + n /\ u \in Seq(Nat)
  OBVIOUS
<1>2. \A i \in 1..m : u[i] = s[i] /\ i \in 1..Len(u)
  BY <1>1
<1>3. \A i \in 1..n : u[m + i] = t[i] /\ m + i \in 1..Len(u)
  BY <1>1
<1>4. \A i \in 1..Len(u) : i \in 1..m \/ (i - m \in 1..n /\ u[i] = t[i - m])
  BY <1>1
<1> HIDE DEF m, n, u
<1>5. Elems(u) = Elems(s) \cup Elems(t)
  <2>1. ASSUME NEW r \in Elems(u) PROVE r \in Elems(s) \cup Elems(t)
    BY <2>1, <1>2, <1>4 DEF Elems, m, n
  <2>2. ASSUME NEW r \in Elems(s) PROVE r \in Elems(u)
    BY <2>2, <1>2 DEF Elems, m
  <2>3. ASSUME NEW r \in Elems(t) PROVE r \in Elems(u)
    BY <2>3, <1>3 DEF Elems, n
  <2> QED
    BY <2>1, <2>2, <2>3
<1>6. ASSUME Once(s), Once(t), Elems(s) \cap Elems(t) = {} PROVE Once(u)
  <2> SUFFICES ASSUME NEW i \in 1..Len(u), NEW j \in 1..Len(u), u[i] = u[j] PROVE i = j
    BY DEF Once
  <2>1. CASE i \in 1..m /\ j \in 1..m
    BY <2>1, <1>2, <1>6 DEF Once, m
  <2>2. CASE i \notin 1..m /\ j \notin 1..m
    <3>1. i - m \in 1..n /\ j - m \in 1..n /\ t[i - m] = t[j - m]
      BY <2>2, <1>4
    <3>2. i - m = j - m
      BY <3>1, <1>6 DEF Once, n
    <3> QED
      BY <3>2, <1>1
  <2>3. CASE i \in 1..m /\ j \notin 1..m
    <3>1. u[i] \in Elems(s) /\ u[j] \in Elems(t)
      BY <2>3, <1>2, <1>4 DEF Elems, m, n
    <3> QED
      BY <3>1, <1>6
  <2>4. CASE i \notin 1..m /\ j \in 1..m
    <3>1. u[j] \in Elems(s) /\ u[i] \in Elems(t)
      BY <2>4, <1>2, <1>4 DEF Elems, m, n
    <3> QED
      BY <3>1, <1>6
  <2> QED
    BY <2>1, <2>2, <2>3, <2>4
<1> QED
  BY <1>1, <1>5, <1>6 DEF u

(* A sequence without repetition has as many records as places.            *)
LEMMA OnceCounts ==
    ASSUME NEW s \in Seq(Nat), Once(s)
    PROVE  Cardinality(Elems(s)) = Len(s)
<1> DEFINE f == [i \in 1..Len(s) |-> s[i]]
<1>1. f \in Bijection(1..Len(s), Elems(s))
  BY DEF Bijection, Injection, Surjection, Elems, Once, IsInjective
<1>2. IsFiniteSet(1..Len(s)) /\ Cardinality(1..Len(s)) = Len(s)
  <2>1. Len(s) \in Nat /\ 1 \in Int /\ Len(s) \in Int
    OBVIOUS
  <2>2. /\ IsFiniteSet(1..Len(s))
        /\ Cardinality(1..Len(s)) = IF 1 > Len(s) THEN 0 ELSE Len(s) - 1 + 1
    BY <2>1, FS_Interval
  <2> QED
    BY <2>1, <2>2
<1> HIDE DEF f
<1>3. ExistsBijection(1..Len(s), Elems(s))
  BY <1>1 DEF ExistsBijection
<1> QED
  BY <1>2, <1>3, FS_Bijection

(* Where the goroutines are tells which places are empty.                  *)
StreamTypes ==
    /\ made \in Nat /\ hand \in Nat
    /\ channel \in Seq(Nat) /\ buffer \in Seq(Nat) /\ written \in Seq(Nat)
    /\ taken \in [Flushers -> Seq(Nat)]
    /\ loop # "append" <=> hand = 0
    /\ loop \notin {"write", "lastWrite"} => taken["loop"] = <<>>
    /\ timer # "write" => taken["timer"] = <<>>
    /\ control # "write" => taken["close"] = <<>>

AllOnce ==
    /\ Once(channel) /\ Once(buffer) /\ Once(written)
    /\ \A f \in Flushers : Once(taken[f])

(* Each record made is held in one place and, until the context ends, all  *)
(* of them are held; a place that is a sequence has it once.               *)
Spread ==
    /\ AllOnce
    /\ Apart(Held)
    /\ AllOf(Held) \subseteq 1..made
    /\ ~ended => AllOf(Held) = 1..made

StreamInv == StreamTypes /\ Spread

(* The records M go from place a to place b.                               *)
Moves(a, b, M) ==
    /\ a \in Slots /\ b \in Slots /\ a # b /\ M \subseteq Held[a]
    /\ Held'[a] = Held[a] \ M /\ Held'[b] = Held[b] \cup M
    /\ \A k \in Slots \ {a, b} : Held'[k] = Held[k]
    /\ UNCHANGED <<made, ended>>

(* A step that only moves records from one place to another.               *)
LEMMA MoveSpreads ==
    ASSUME Spread, AllOnce', NEW a, NEW b, NEW M, Moves(a, b, M)
    PROVE  Spread'
<1>1. Apart(Held') /\ AllOf(Held') = AllOf(Held)
  <2> DEFINE H == Held
             G == Held'
  <2>1. /\ Apart(H) /\ M \subseteq H[a] /\ G[a] = H[a] \ M /\ G[b] = H[b] \cup M
        /\ \A k \in Slots \ {a, b} : G[k] = H[k]
    BY DEF Spread, Moves
  <2>2. a \in Slots /\ b \in Slots /\ a # b
    BY DEF Moves
  <2> HIDE DEF H, G
  <2>3. Apart(G) /\ AllOf(G) = AllOf(H)
    BY <2>1, <2>2, MoveKeeps
  <2> QED
    BY <2>3 DEF H, G
<1> QED
  BY <1>1 DEF Spread, AllOnce, Moves

(* The places one by one.                                                  *)
LEMMA HeldAt ==
    /\ Held[1] = Elems(channel) /\ Held'[1] = Elems(channel')
    /\ Held[2] = (IF source = "send" THEN {made} ELSE {})
    /\ Held'[2] = (IF source' = "send" THEN {made'} ELSE {})
    /\ Held[3] = (IF hand = 0 THEN {} ELSE {hand}) /\ Held'[3] = (IF hand' = 0 THEN {} ELSE {hand'})
    /\ Held[4] = Elems(buffer) /\ Held'[4] = Elems(buffer')
    /\ Held[5] = Elems(taken["loop"]) /\ Held'[5] = Elems(taken'["loop"])
    /\ Held[6] = Elems(taken["timer"]) /\ Held'[6] = Elems(taken'["timer"])
    /\ Held[7] = Elems(taken["close"]) /\ Held'[7] = Elems(taken'["close"])
    /\ Held[8] = Elems(written) /\ Held'[8] = Elems(written')
    /\ Held[9] = failed /\ Held'[9] = failed'
    /\ Held[10] = skipped /\ Held'[10] = skipped'
  BY DEF Held, Elems

LEMMA SlotsAre ==
    \A k : k \in Slots <=> k \in {1, 2, 3, 4, 5, 6, 7, 8, 9, 10}
  BY DEF Slots

(* A step that moves none.                                                 *)
LEMMA StillSpread ==
    ASSUME Spread, UNCHANGED <<source, made, channel, hand, buffer, taken, written, failed, skipped>>,
           ended => ended'
    PROVE  Spread'
<1>1. Held' = Held
  BY DEF Held, Elems
<1>2. AllOnce'
  BY DEF Spread, AllOnce, Once
<1>3. made' = made /\ (~ended' => ~ended)
  OBVIOUS
<1> QED
  BY <1>1, <1>2, <1>3 DEF Spread, Apart, AllOf

(* What the two sides of a place that is disjoint from another know.       *)
LEMMA ApartMeans ==
    ASSUME Spread, NEW i \in Slots, NEW j \in Slots, i # j
    PROVE  Held[i] \cap Held[j] = {}
  BY DEF Spread, Apart

(* The source makes a record that nothing holds yet.                       *)
LEMMA MakeSpreads ==
    ASSUME StreamInv, SourceMakes
    PROVE  Spread'
<1>1. /\ made' = made + 1 /\ made \in Nat /\ source = "tick" /\ source' = "send"
      /\ UNCHANGED <<ended, channel, hand, buffer, written, taken, failed, skipped>>
  BY DEF SourceMakes, sinkVars, StreamInv, StreamTypes
<1>2. Held'[2] = {made + 1} /\ Held[2] = {}
  BY <1>1, HeldAt
<1>7. \A k \in Slots \ {2} : Held'[k] = Held[k]
  BY <1>1, HeldAt, SlotsAre
<1>3. \A k \in Slots : Held[k] \subseteq 1..made
  BY DEF StreamInv, Spread, AllOf
<1>4. made + 1 \notin 1..made /\ 1..made + 1 = (1..made) \cup {made + 1}
  BY <1>1
<1>5. Apart(Held')
  <2> SUFFICES ASSUME NEW i \in Slots, NEW j \in Slots, NEW r, r \in Held'[i], r \in Held'[j]
               PROVE  i = j
    BY DEF Apart
  <2>1. CASE i # 2 /\ j # 2
    BY <2>1, <1>7 DEF StreamInv, Spread, Apart
  <2>2. CASE i = 2 \/ j = 2
    <3>1. r = made + 1
      BY <2>2, <1>2
    <3> QED
      BY <3>1, <1>7, <1>3, <1>4
  <2> QED
    BY <2>1, <2>2
<1>6. AllOf(Held') = AllOf(Held) \cup {made + 1}
  <2>1. 2 \in Slots
    BY DEF Slots
  <2> QED
    BY <1>2, <1>7, <2>1 DEF AllOf
<1>8. AllOnce'
  BY <1>1 DEF StreamInv, Spread, AllOnce
<1> QED
  BY <1>1, <1>4, <1>5, <1>6, <1>8 DEF StreamInv, Spread

LEMMA SendSpreads ==
    ASSUME StreamInv, SourceSends
    PROVE  Spread'
<1>1. /\ channel' = Append(channel, made) /\ made \in Nat /\ channel \in Seq(Nat)
      /\ source = "send" /\ source' = "tick"
      /\ UNCHANGED <<made, ended, hand, buffer, written, taken, failed, skipped>>
  BY DEF SourceSends, sinkVars, StreamInv, StreamTypes
<1>2. Held[2] = {made} /\ Held[1] = Elems(channel) /\ 1 \in Slots /\ 2 \in Slots
  BY <1>1, HeldAt, SlotsAre
<1>3. made \notin Elems(channel)
  BY <1>2, ApartMeans DEF StreamInv
<1>4. Elems(channel') = Elems(channel) \cup {made} /\ Once(channel')
  BY <1>1, <1>3, ElemsOfAppend DEF StreamInv, Spread, AllOnce
<1>5. Moves(2, 1, {made})
  <2>1. /\ Held'[3] = Held[3] /\ Held'[4] = Held[4] /\ Held'[5] = Held[5] /\ Held'[6] = Held[6]
        /\ Held'[7] = Held[7] /\ Held'[8] = Held[8] /\ Held'[9] = Held[9] /\ Held'[10] = Held[10]
    BY <1>1, <1>2, <1>4, HeldAt
  <2>2. \A k \in Slots \ {2, 1} : Held'[k] = Held[k]
    BY <2>1, SlotsAre
  <2>3. Held'[2] = {} /\ Held'[1] = Elems(channel) \cup {made}
    BY <1>1, <1>4, HeldAt
  <2> QED
    BY <1>1, <1>2, <2>2, <2>3 DEF Moves
<1>6. AllOnce'
  BY <1>1, <1>4 DEF StreamInv, Spread, AllOnce
<1> QED
  BY <1>5, <1>6, MoveSpreads DEF StreamInv

(* A send is given up only when the context has ended.                     *)
LEMMA EndSpreads ==
    ASSUME StreamInv, SourceStops \/ SourceEnds
    PROVE  Spread'
<1>1. UNCHANGED <<made, ended, channel, buffer, written, taken, hand, failed, skipped>> /\ source' = "done"
  BY DEF SourceStops, SourceEnds, sinkVars
<1>2. AllOnce' /\ Spread
  BY <1>1 DEF StreamInv, Spread, AllOnce
<1>3. \A k \in Slots : Held'[k] \subseteq Held[k]
  BY <1>1, HeldAt, SlotsAre
<1>4. Apart(Held') /\ AllOf(Held') \subseteq AllOf(Held)
  BY <1>2, <1>3 DEF Spread, Apart, AllOf
<1>5. CASE source # "send"
  <2>1. \A k \in Slots : Held'[k] = Held[k]
    BY <1>1, <1>5, HeldAt, SlotsAre
  <2>2. AllOf(Held') = AllOf(Held)
    BY <2>1 DEF AllOf
  <2> QED
    BY <1>1, <1>2, <1>4, <2>2 DEF Spread
<1>6. CASE source = "send"
  <2>1. ended
    BY <1>6 DEF SourceStops, SourceEnds
  <2> QED
    BY <1>1, <1>2, <1>4, <2>1 DEF Spread
<1> QED
  BY <1>5, <1>6

(* The loop receives the first record of the channel: it drops it or       *)
(* processes it.                                                           *)
LEMMA ReceiveSpreads ==
    ASSUME StreamInv, LoopDrains \/ LoopFilters \/ LoopProcesses
    PROVE  Spread'
<1>1. /\ channel \in Seq(Nat) /\ channel # <<>> /\ channel' = Tail(channel)
      /\ UNCHANGED <<made, ended, source, buffer, written, taken, failed>>
      /\ loop = "select" /\ hand = 0
  BY DEF LoopDrains, LoopFilters, LoopProcesses, Receive, sinkVars, StreamInv, StreamTypes
<1>2. /\ Head(channel) \in Nat /\ Head(channel) \in Elems(channel)
      /\ Elems(channel') = Elems(channel) \ {Head(channel)} /\ Once(channel')
  BY <1>1, ElemsOfTail DEF StreamInv, Spread, AllOnce
<1>3. AllOnce'
  BY <1>1, <1>2 DEF StreamInv, Spread, AllOnce
<1>4. CASE LoopDrains \/ LoopFilters
  <2>1. skipped' = skipped \cup {Head(channel)} /\ hand' = hand
    BY <1>4 DEF LoopDrains, LoopFilters
  <2>2. Moves(1, 10, {Head(channel)})
    <3>1. /\ Held'[2] = Held[2] /\ Held'[3] = Held[3] /\ Held'[4] = Held[4] /\ Held'[5] = Held[5]
          /\ Held'[6] = Held[6] /\ Held'[7] = Held[7] /\ Held'[8] = Held[8] /\ Held'[9] = Held[9]
      BY <1>1, <1>2, <2>1, HeldAt
    <3>2. \A k \in Slots \ {1, 10} : Held'[k] = Held[k]
      BY <3>1, SlotsAre
    <3>3. /\ Held[1] = Elems(channel) /\ Held'[1] = Elems(channel) \ {Head(channel)}
          /\ Held'[10] = Held[10] \cup {Head(channel)} /\ 1 \in Slots /\ 10 \in Slots
      BY <1>2, <2>1, HeldAt, SlotsAre
    <3> QED
      BY <1>1, <1>2, <3>2, <3>3 DEF Moves
  <2> QED
    BY <1>3, <2>2, MoveSpreads DEF StreamInv
<1>5. CASE LoopProcesses
  <2>1. hand' = Head(channel) /\ skipped' = skipped
    BY <1>5 DEF LoopProcesses
  <2>2. Head(channel) # 0
    <3>1. 1 \in Slots /\ Held[1] = Elems(channel)
      BY HeldAt, SlotsAre
    <3>2. Elems(channel) \subseteq 1..made
      BY <3>1 DEF StreamInv, Spread, AllOf
    <3> QED
      BY <3>2, <1>2 DEF StreamInv, StreamTypes
  <2>3. Moves(1, 3, {Head(channel)})
    <3>1. /\ Held'[2] = Held[2] /\ Held'[4] = Held[4] /\ Held'[5] = Held[5] /\ Held'[6] = Held[6]
          /\ Held'[7] = Held[7] /\ Held'[8] = Held[8] /\ Held'[9] = Held[9] /\ Held'[10] = Held[10]
      BY <1>1, <1>2, <2>1, <2>2, HeldAt
    <3>2. \A k \in Slots \ {1, 3} : Held'[k] = Held[k]
      BY <3>1, SlotsAre
    <3>3. /\ Held[1] = Elems(channel) /\ Held'[1] = Elems(channel) \ {Head(channel)}
          /\ Held[3] = {} /\ Held'[3] = {Head(channel)} /\ 1 \in Slots /\ 3 \in Slots
      BY <1>1, <1>2, <2>1, <2>2, HeldAt, SlotsAre
    <3> QED
      BY <1>1, <1>2, <3>2, <3>3 DEF Moves
  <2> QED
    BY <1>3, <2>3, MoveSpreads DEF StreamInv
<1> QED
  BY <1>4, <1>5

LEMMA AppendSpreads ==
    ASSUME StreamInv, LoopAppends
    PROVE  Spread'
<1>1. /\ buffer \in Seq(Nat) /\ hand \in Nat /\ hand # 0
      /\ buffer' = Append(buffer, hand) /\ hand' = 0
      /\ UNCHANGED <<made, ended, source, channel, written, taken, failed, skipped>>
  BY DEF LoopAppends, StreamInv, StreamTypes
<1>2. Held[3] = {hand} /\ Held[4] = Elems(buffer) /\ 3 \in Slots /\ 4 \in Slots
  BY <1>1, HeldAt, SlotsAre
<1>3. hand \notin Elems(buffer)
  BY <1>2, ApartMeans DEF StreamInv
<1>4. Elems(buffer') = Elems(buffer) \cup {hand} /\ Once(buffer')
  BY <1>1, <1>3, ElemsOfAppend DEF StreamInv, Spread, AllOnce
<1>5. Moves(3, 4, {hand})
  <2>1. /\ Held'[1] = Held[1] /\ Held'[2] = Held[2] /\ Held'[5] = Held[5] /\ Held'[6] = Held[6]
        /\ Held'[7] = Held[7] /\ Held'[8] = Held[8] /\ Held'[9] = Held[9] /\ Held'[10] = Held[10]
    BY <1>1, <1>2, <1>4, HeldAt
  <2>2. \A k \in Slots \ {3, 4} : Held'[k] = Held[k]
    BY <2>1, SlotsAre
  <2>3. Held'[3] = {} /\ Held'[4] = Elems(buffer) \cup {hand}
    BY <1>1, <1>4, HeldAt
  <2> QED
    BY <1>1, <1>2, <2>2, <2>3 DEF Moves
<1>6. AllOnce'
  BY <1>1, <1>4 DEF StreamInv, Spread, AllOnce
<1> QED
  BY <1>5, <1>6, MoveSpreads DEF StreamInv

(* The place of what a flusher has swapped out.                            *)
SlotOf(f) == IF f = "loop" THEN 5 ELSE IF f = "timer" THEN 6 ELSE 7

LEMMA HeldByFlusher ==
    ASSUME NEW f \in Flushers, DOMAIN taken = Flushers, NEW b, taken' = [taken EXCEPT ![f] = b]
    PROVE  /\ SlotOf(f) \in Slots \ {4, 8, 9}
           /\ Held[SlotOf(f)] = Elems(taken[f]) /\ Held'[SlotOf(f)] = Elems(b)
           /\ \A k \in {5, 6, 7} \ {SlotOf(f)} : Held'[k] = Held[k]
<1>1. "loop" \in Flushers /\ "timer" \in Flushers /\ "close" \in Flushers
  BY DEF Flushers
<1>2. taken'[f] = b /\ \A g \in Flushers : g # f => taken'[g] = taken[g]
  OBVIOUS
<1>3. CASE f = "loop"
  <2>1. SlotOf(f) = 5 /\ 5 \in Slots
    BY <1>3, SlotsAre DEF SlotOf
  <2>2. Held[5] = Elems(taken[f]) /\ Held'[5] = Elems(b) /\ Held'[6] = Held[6] /\ Held'[7] = Held[7]
    BY <1>1, <1>2, <1>3, HeldAt
  <2> QED
    BY <2>1, <2>2
<1>4. CASE f = "timer"
  <2>1. SlotOf(f) = 6 /\ 6 \in Slots
    BY <1>4, SlotsAre DEF SlotOf
  <2>2. Held[6] = Elems(taken[f]) /\ Held'[6] = Elems(b) /\ Held'[5] = Held[5] /\ Held'[7] = Held[7]
    BY <1>1, <1>2, <1>4, HeldAt
  <2> QED
    BY <2>1, <2>2
<1>5. CASE f = "close"
  <2>1. SlotOf(f) = 7 /\ 7 \in Slots
    BY <1>5, SlotsAre DEF SlotOf
  <2>2. Held[7] = Elems(taken[f]) /\ Held'[7] = Elems(b) /\ Held'[5] = Held[5] /\ Held'[6] = Held[6]
    BY <1>1, <1>2, <1>5, HeldAt
  <2> QED
    BY <2>1, <2>2
<1> QED
  BY <1>3, <1>4, <1>5 DEF Flushers

LEMMA EmptyOnce == Once(<<>>) /\ Elems(<<>>) = {}
  BY DEF Once, Elems

(* Swapping out takes the whole buffer: a flusher swaps when it has        *)
(* written what it took before.                                            *)
LEMMA SwapSpreads ==
    ASSUME StreamInv, NEW f \in Flushers, Swap(f), taken[f] = <<>>,
           UNCHANGED <<made, ended, source, channel, hand, skipped>>
    PROVE  Spread'
<1>1. /\ buffer \in Seq(Nat) /\ buffer' = <<>> /\ UNCHANGED <<written, failed>>
      /\ taken' = [taken EXCEPT ![f] = buffer] /\ DOMAIN taken = Flushers
  BY DEF Swap, StreamInv, StreamTypes
<1>2. Held[4] = Elems(buffer) /\ Held'[4] = {} /\ 4 \in Slots
  BY <1>1, HeldAt, SlotsAre, EmptyOnce
<1>3. /\ SlotOf(f) \in Slots /\ SlotOf(f) # 4
      /\ Held[SlotOf(f)] = {} /\ Held'[SlotOf(f)] = Elems(buffer)
      /\ \A k \in {5, 6, 7} \ {SlotOf(f)} : Held'[k] = Held[k]
  BY <1>1, HeldByFlusher, EmptyOnce
<1>4. \A k \in Slots \ {4, 5, 6, 7} : Held'[k] = Held[k]
  <2>1. /\ Held'[1] = Held[1] /\ Held'[2] = Held[2] /\ Held'[3] = Held[3]
        /\ Held'[8] = Held[8] /\ Held'[9] = Held[9] /\ Held'[10] = Held[10]
    BY <1>1, HeldAt
  <2> QED
    BY <2>1, SlotsAre
<1>5. \A k \in Slots \ {4, SlotOf(f)} : Held'[k] = Held[k]
  BY <1>3, <1>4
<1>6. Moves(4, SlotOf(f), Elems(buffer))
  BY <1>2, <1>3, <1>5 DEF Moves
<1>7. AllOnce'
  BY <1>1, EmptyOnce DEF StreamInv, Spread, AllOnce
<1> QED
  BY <1>6, <1>7, MoveSpreads DEF StreamInv

(* A batch is written behind what was written before, or fails as a whole. *)
LEMMA WriteSpreads ==
    ASSUME StreamInv, NEW f \in Flushers, WriteBatch(f),
           UNCHANGED <<made, ended, source, channel, hand, skipped>>
    PROVE  Spread'
<1>1. /\ written \in Seq(Nat) /\ taken[f] \in Seq(Nat) /\ buffer' = buffer
      /\ taken' = [taken EXCEPT ![f] = <<>>] /\ DOMAIN taken = Flushers
  BY DEF WriteBatch, StreamInv, StreamTypes
<1>2. /\ SlotOf(f) \in Slots \ {4, 8, 9}
      /\ Held[SlotOf(f)] = Elems(taken[f]) /\ Held'[SlotOf(f)] = {}
      /\ \A k \in {5, 6, 7} \ {SlotOf(f)} : Held'[k] = Held[k]
  BY <1>1, HeldByFlusher, EmptyOnce
<1>3. \A k \in Slots \ {5, 6, 7, 8, 9} : Held'[k] = Held[k]
  <2>1. Held'[1] = Held[1] /\ Held'[2] = Held[2] /\ Held'[3] = Held[3] /\ Held'[4] = Held[4] /\ Held'[10] = Held[10]
    BY <1>1, HeldAt
  <2> QED
    BY <2>1, SlotsAre
<1>4. \A k \in Slots \ {SlotOf(f), 8, 9} : Held'[k] = Held[k]
  BY <1>2, <1>3
<1>5. /\ 8 \in Slots /\ 9 \in Slots /\ Held[8] = Elems(written) /\ Held[9] = failed
      /\ Held'[8] = Elems(written') /\ Held'[9] = failed'
  BY HeldAt, SlotsAre
<1>6. Once(channel') /\ Once(buffer') /\ Once(written) /\ Once(taken[f]) /\ \A g \in Flushers : Once(taken'[g])
  BY <1>1, EmptyOnce DEF StreamInv, Spread, AllOnce
<1>7. CASE written' = written \o taken[f] /\ failed' = failed
  <2>1. Elems(written) \cap Elems(taken[f]) = {}
    BY <1>2, <1>5, ApartMeans DEF StreamInv
  <2>2. Elems(written') = Elems(written) \cup Elems(taken[f]) /\ Once(written')
    BY <1>1, <1>6, <1>7, <2>1, ElemsOfConcat
  <2>3. \A k \in Slots \ {SlotOf(f), 8} : Held'[k] = Held[k]
    BY <1>4, <1>5, <1>7
  <2>4. Moves(SlotOf(f), 8, Elems(taken[f]))
    BY <1>2, <1>5, <2>2, <2>3 DEF Moves
  <2>5. AllOnce'
    BY <1>6, <2>2 DEF AllOnce
  <2> QED
    BY <2>4, <2>5, MoveSpreads DEF StreamInv
<1>8. CASE failed' = failed \cup Elems(taken[f]) /\ written' = written
  <2>1. \A k \in Slots \ {SlotOf(f), 9} : Held'[k] = Held[k]
    BY <1>4, <1>5, <1>8
  <2>2. Moves(SlotOf(f), 9, Elems(taken[f]))
    BY <1>2, <1>5, <1>8, <2>1 DEF Moves
  <2>3. AllOnce'
    BY <1>6, <1>8 DEF AllOnce
  <2> QED
    BY <2>2, <2>3, MoveSpreads DEF StreamInv
<1> QED
  BY <1>7, <1>8 DEF WriteBatch

LEMMA WriteTypes ==
    ASSUME StreamTypes, NEW f \in Flushers, WriteBatch(f)
    PROVE  written' \in Seq(Nat) /\ taken' \in [Flushers -> Seq(Nat)]
<1>1. written \in Seq(Nat) /\ taken[f] \in Seq(Nat) /\ <<>> \in Seq(Nat)
  BY DEF StreamTypes
<1>2. written \o taken[f] \in Seq(Nat)
  BY <1>1, ElemsOfConcat
<1>3. taken' = [taken EXCEPT ![f] = <<>>] /\ written' \in {written, written \o taken[f]}
  BY DEF WriteBatch
<1>4. taken' \in [Flushers -> Seq(Nat)]
  BY <1>1, <1>3 DEF StreamTypes
<1> QED
  BY <1>1, <1>2, <1>3, <1>4

LEMMA NextStreamTypes ==
    ASSUME StreamInv, StreamNext
    PROVE  StreamTypes'
<1> USE DEF StreamInv, StreamTypes
<1>0. "loop" \in Flushers /\ "timer" \in Flushers /\ "close" \in Flushers
  BY DEF Flushers
<1>1. CASE sourceStart
  <2>1. CASE SourceSends
    BY <2>1, ElemsOfAppend DEF SourceSends, ctlVars, sinkVars
  <2>2. CASE SourceMakes \/ SourceStops \/ SourceEnds
    BY <2>2 DEF SourceMakes, SourceStops, SourceEnds, ctlVars, sinkVars
  <2> QED
    BY <1>1, <2>1, <2>2 DEF sourceStart
<1>2. CASE LoopDone
  BY <1>2 DEF LoopDone, ctlVars, sinkVars
<1>3. CASE LoopDrains \/ LoopFilters \/ LoopProcesses
  <2>1. /\ channel' \in Seq(Nat) /\ Head(channel) \in Nat /\ Head(channel) # 0
    <3>1. channel # <<>> /\ channel' = Tail(channel)
      BY <1>3 DEF LoopDrains, LoopFilters, LoopProcesses, Receive
    <3>2. 1 \in Slots /\ Held[1] = Elems(channel)
      BY HeldAt, SlotsAre
    <3>3. Elems(channel) \subseteq 1..made
      BY <3>2 DEF Spread, AllOf
    <3>4. Head(channel) \in Elems(channel) /\ channel' \in Seq(Nat)
      BY <3>1, ElemsOfTail DEF Spread, AllOnce
    <3> QED
      BY <3>3, <3>4
  <2> QED
    BY <1>3, <2>1 DEF LoopDrains, LoopFilters, LoopProcesses, Receive, ctlVars, sinkVars
<1>4. CASE LoopAppends
  BY <1>4, ElemsOfAppend DEF LoopAppends, ctlVars
<1>5. CASE LoopSwaps
  BY <1>5 DEF LoopSwaps, Swap, ctlVars, Flushers
<1>6. CASE LoopWrites
  <2>1. written' \in Seq(Nat) /\ taken' \in [Flushers -> Seq(Nat)]
    BY <1>6, <1>0, WriteTypes DEF LoopWrites
  <2> QED
    BY <1>6, <2>1 DEF LoopWrites, WriteBatch, ctlVars, Flushers
<1>7. CASE flushLoop
  <2>1. CASE TimerFires \/ TimerEnds
    BY <2>1 DEF TimerFires, TimerEnds, Swap, ctlVars, Flushers
  <2>2. CASE TimerWrites
    <3>1. written' \in Seq(Nat) /\ taken' \in [Flushers -> Seq(Nat)]
      BY <2>2, <1>0, WriteTypes DEF TimerWrites
    <3> QED
      BY <2>2, <3>1 DEF TimerWrites, WriteBatch, ctlVars, Flushers
  <2> QED
    BY <1>7, <2>1, <2>2 DEF flushLoop
<1>8. CASE RunnerPause \/ RunnerResume \/ RunnerStop
  BY <1>8 DEF RunnerPause, RunnerResume, RunnerStop, Control, sinkVars
<1>9. CASE CallGoesOn
  <2>1. CASE PauseSource \/ ResumeSource \/ StopProcessor \/ StopFinishes
    BY <2>1 DEF PauseSource, ResumeSource, StopProcessor, StopFinishes, Control, sinkVars
  <2>2. CASE StopWaits
    BY <2>2 DEF StopWaits, Control
  <2>3. CASE StopSwaps
    BY <2>3 DEF StopSwaps, Swap, Control, Flushers
  <2>4. CASE StopWrites
    <3>1. written' \in Seq(Nat) /\ taken' \in [Flushers -> Seq(Nat)]
      BY <2>4, <1>0, WriteTypes DEF StopWrites
    <3> QED
      BY <2>4, <3>1 DEF StopWrites, WriteBatch, Control, Flushers
  <2> QED
    BY <1>9, <2>1, <2>2, <2>3, <2>4 DEF CallGoesOn
<1> QED
  BY <1>1, <1>2, <1>3, <1>4, <1>5, <1>6, <1>7, <1>8, <1>9 DEF StreamNext, processLoop

LEMMA NextSpread ==
    ASSUME StreamInv, StreamNext
    PROVE  Spread'
<1>0. "loop" \in Flushers /\ "timer" \in Flushers /\ "close" \in Flushers
  BY DEF Flushers
<1>1. CASE sourceStart
  BY <1>1, MakeSpreads, SendSpreads, EndSpreads DEF sourceStart
<1>2. CASE LoopDone \/ TimerEnds \/ PauseSource \/ ResumeSource \/ StopProcessor \/ StopWaits \/ StopFinishes
  <2>1. UNCHANGED <<source, made, channel, hand, buffer, taken, written, failed, skipped>> /\ (ended => ended')
    <3>1. CASE LoopDone \/ TimerEnds
      BY <3>1 DEF LoopDone, TimerEnds, sinkVars
    <3>2. CASE PauseSource \/ ResumeSource
      BY <3>2 DEF PauseSource, ResumeSource, Control, sinkVars
    <3>3. CASE StopProcessor \/ StopWaits \/ StopFinishes
      BY <3>3 DEF StopProcessor, StopWaits, StopFinishes, Control, sinkVars
    <3> QED
      BY <1>2, <3>1, <3>2, <3>3
  <2> QED
    BY <2>1, StillSpread DEF StreamInv
<1>3. CASE RunnerPause \/ RunnerResume \/ RunnerStop
  <2>1. UNCHANGED <<source, made, channel, hand, buffer, taken, written, failed, skipped>> /\ (ended => ended')
    BY <1>3 DEF RunnerPause, RunnerResume, RunnerStop, Control, sinkVars
  <2> QED
    BY <2>1, StillSpread DEF StreamInv
<1>4. CASE LoopDrains \/ LoopFilters \/ LoopProcesses
  BY <1>4, ReceiveSpreads
<1>5. CASE LoopAppends
  BY <1>5, AppendSpreads
<1>6. CASE LoopSwaps
  BY <1>0, <1>6, SwapSpreads DEF LoopSwaps, StreamInv, StreamTypes
<1>7. CASE TimerFires
  BY <1>0, <1>7, SwapSpreads DEF TimerFires, StreamInv, StreamTypes
<1>8. CASE StopSwaps
  BY <1>0, <1>8, SwapSpreads DEF StopSwaps, Control, StreamInv, StreamTypes
<1>9. CASE LoopWrites
  BY <1>0, <1>9, WriteSpreads DEF LoopWrites
<1>10. CASE TimerWrites
  BY <1>0, <1>10, WriteSpreads DEF TimerWrites
<1>11. CASE StopWrites
  BY <1>0, <1>11, WriteSpreads DEF StopWrites, Control
<1> QED
  BY <1>1, <1>2, <1>3, <1>4, <1>5, <1>6, <1>7, <1>8, <1>9, <1>10, <1>11
     DEF StreamNext, processLoop, flushLoop, CallGoesOn

(* What is spread over the places is in exactly one of them.               *)
LEMMA SpreadIsOnce ==
    ASSUME StreamInv
    PROVE  EachRecordOnce
<1>1. Len(written) = Cardinality(Elems(written))
  BY OnceCounts DEF StreamInv, StreamTypes, Spread, AllOnce
<1>2. ASSUME NEW r \in 1..made
      PROVE  LET places == {i \in DOMAIN Places(r) : Places(r)[i]}
             IN  /\ Cardinality(places) <= 1
                 /\ ~ended => Cardinality(places) = 1
  <2> DEFINE places == {i \in DOMAIN Places(r) : Places(r)[i]}
  <2>1. DOMAIN Places(r) = Slots
    BY DEF Places, Slots
  <2>2. r # 0 /\ r \in Nat
    BY DEF StreamInv, StreamTypes
  <2>3. \A i \in Slots : Places(r)[i] <=> r \in Held[i]
    <3>1. /\ Places(r)[1] <=> r \in Held[1]
          /\ Places(r)[2] <=> r \in Held[2]
          /\ Places(r)[3] <=> r \in Held[3]
          /\ Places(r)[4] <=> r \in Held[4]
          /\ Places(r)[5] <=> r \in Held[5]
          /\ Places(r)[6] <=> r \in Held[6]
          /\ Places(r)[7] <=> r \in Held[7]
          /\ Places(r)[8] <=> r \in Held[8]
          /\ Places(r)[9] <=> r \in Held[9]
          /\ Places(r)[10] <=> r \in Held[10]
      BY <2>2, HeldAt DEF Places
    <3> QED
      BY <3>1, SlotsAre
  <2>4. \A i, j \in places : i = j
    BY <2>1, <2>3 DEF StreamInv, Spread, Apart
  <2>5. ~ended => places # {}
    BY <2>1, <2>3 DEF StreamInv, Spread, AllOf
  <2> HIDE DEF places
  <2>6. places = {} \/ \E i : places = {i}
    BY <2>4
  <2>7. Cardinality(places) \in {0, 1} /\ (places # {} => Cardinality(places) = 1)
    BY <2>6, FS_EmptySet, FS_Singleton
  <2>8. Cardinality(places) <= 1 /\ (~ended => Cardinality(places) = 1)
    BY <2>5, <2>7
  <2> QED
    BY <2>8 DEF places
<1> QED
  BY <1>1, <1>2 DEF EachRecordOnce

(* No record is lost while the processor runs and none is ever written     *)
(* twice (processLoop, BufferedSink.Write, Flush, Close), for any number   *)
(* of records, any size of the channel and any size of the batch.          *)
THEOREM EachRecordAlwaysOnce == StreamSpec => []EachRecordOnce
<1>1. StreamInit => StreamInv
  <2> SUFFICES ASSUME StreamInit PROVE StreamInv
    OBVIOUS
  <2>1. StreamTypes
    <3>1. "loop" \in Flushers /\ "timer" \in Flushers /\ "close" \in Flushers /\ <<>> \in Seq(Nat)
      BY DEF Flushers
    <3> QED
      BY <3>1 DEF StreamInit, StreamTypes
  <2>2. \A k \in Slots : Held[k] = {}
    <3>1. "loop" \in Flushers /\ "timer" \in Flushers /\ "close" \in Flushers
      BY DEF Flushers
    <3>2. /\ Held[1] = {} /\ Held[2] = {} /\ Held[3] = {} /\ Held[4] = {} /\ Held[5] = {}
          /\ Held[6] = {} /\ Held[7] = {} /\ Held[8] = {} /\ Held[9] = {} /\ Held[10] = {}
      BY <3>1, HeldAt, EmptyOnce DEF StreamInit
    <3> QED
      BY <3>2, SlotsAre
  <2>3. AllOf(Held) = {} /\ Apart(Held)
    BY <2>2 DEF AllOf, Apart
  <2>4. made = 0 /\ 1..0 = {} /\ AllOnce
    BY EmptyOnce DEF StreamInit, AllOnce
  <2> QED
    BY <2>1, <2>3, <2>4 DEF StreamInv, Spread
<1>2. StreamInv /\ [StreamNext]_streamVars => StreamInv'
  <2>1. StreamInv /\ StreamNext => StreamInv'
    BY NextStreamTypes, NextSpread DEF StreamInv
  <2>2. StreamInv /\ UNCHANGED streamVars => StreamInv'
    <3> SUFFICES ASSUME StreamInv, UNCHANGED streamVars PROVE StreamInv'
      OBVIOUS
    <3>1. Spread'
      BY StillSpread DEF streamVars, sinkVars, StreamInv
    <3> QED
      BY <3>1 DEF StreamInv, StreamTypes, streamVars, ctlVars, sinkVars
  <2> QED
    BY <2>1, <2>2
<1>3. StreamInv => EachRecordOnce
  BY SpreadIsOnce
<1> QED
  BY <1>1, <1>2, <1>3, PTL DEF StreamSpec
=============================================================================
