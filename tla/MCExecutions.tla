---------------------------- MODULE MCExecutions ----------------------------
(* The execution service, the group executor, the stream processor and the *)
(* aggregator of statistics do not share state: each behaviour is of one   *)
(* of them (subject), the others keep their initial state.                 *)
EXTENDS ExecutionService, GroupExecutor, StatsAggregator, StreamProcessor

VARIABLE subject

MCPipelines == 1..2
MCGraphs == {<<{}, {}>>, <<{}, {1}>>, <<{2}, {1}>>, <<{0}, {1}>>}

MCInit ==
    /\ ServiceInit /\ Init /\ StatsInit /\ StreamInit
    /\ subject \in {"service", "group", "stats", "stream"}
    /\ subject # "service" => type = "batch"
    /\ subject # "group" => mode = "parallel" /\ policy = "nil"
    /\ policy # "skip"   \* like continue, in parallel mode like nil
    /\ prio[2] = 0

MCNext ==
    /\ UNCHANGED subject
    /\ \/ subject = "service" /\ ServiceNext /\ UNCHANGED <<vars, statsVars, streamVars>>
       \/ subject = "group" /\ Next /\ UNCHANGED <<serviceVars, statsVars, streamVars>>
       \/ subject = "stats" /\ StatsNext /\ UNCHANGED <<serviceVars, vars, streamVars>>
       \/ subject = "stream" /\ StreamNext /\ UNCHANGED <<serviceVars, vars, statsVars>>

MCVars == <<subject, serviceVars, vars, statsVars, streamVars>>

(* The stream processor's goroutines run where it is the subject. *)
SubjectFairness ==
    /\ WF_streamVars(subject = "stream" /\ (SourceSends \/ SourceStops))
    /\ WF_streamVars(subject = "stream" /\ processLoop)
    /\ WF_streamVars(subject = "stream" /\ flushLoop)
    /\ WF_streamVars(subject = "stream" /\ CallGoesOn)

MCSpec == MCInit /\ [][MCNext]_MCVars /\ ServiceFairness /\ Fairness /\ SubjectFairness
=============================================================================
