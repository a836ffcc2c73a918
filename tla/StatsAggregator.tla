--------------------------- MODULE StatsAggregator ---------------------------
(***************************************************************************)
(* RealtimeStatsAggregator: statistics accumulated per hour and handed to  *)
(* onFlush when the hour changes or when Flush is called.  A bucket that   *)
(* is handed over again replaces the one before it (its key is the hour).  *)
(***************************************************************************)
EXTENDS Naturals

CONSTANTS MaxHour, MaxAdds    \* bounds: hours, calls of Add

VARIABLES
    now,          \* the hour of the clock
    currentHour,  \* of the bucket
    records,      \* recordsCollected of the bucket
    sampleCount,
    flushed,      \* what onFlush got last for each hour
    adds,         \* history: records added in each hour
    calls         \* calls of Add so far

statsVars == <<now, currentHour, records, sampleCount, flushed, adds, calls>>

Hours == 0..MaxHour

StatsInit ==
    /\ now = 0 /\ currentHour = 0 /\ records = 0 /\ sampleCount = 0
    /\ flushed = [h \in Hours |-> 0] /\ adds = [h \in Hours |-> 0] /\ calls = 0

Tick ==
    /\ now < MaxHour
    /\ now' = now + 1
    /\ UNCHANGED <<currentHour, records, sampleCount, flushed, adds, calls>>

flushLocked == IF sampleCount = 0 THEN flushed ELSE [flushed EXCEPT ![currentHour] = records]

(* Variant: the bucket is reset before it is flushed.                      *)
Add_ResetFirst(n) ==
    /\ calls < MaxAdds
    /\ calls' = calls + 1
    /\ adds' = [adds EXCEPT ![now] = @ + n]
    /\ currentHour' = now
    /\ IF now # currentHour
       THEN records' = n /\ sampleCount' = 1
       ELSE records' = records + n /\ sampleCount' = sampleCount + 1
    /\ UNCHANGED <<now, flushed>>

Add(n) ==
    /\ calls < MaxAdds
    /\ calls' = calls + 1
    /\ adds' = [adds EXCEPT ![now] = @ + n]
    /\ currentHour' = now
    /\ IF now # currentHour
       THEN flushed' = flushLocked /\ records' = n /\ sampleCount' = 1
       ELSE records' = records + n /\ sampleCount' = sampleCount + 1 /\ UNCHANGED flushed
    /\ UNCHANGED now

Flush ==
    /\ flushed' = flushLocked
    /\ UNCHANGED <<now, currentHour, records, sampleCount, adds, calls>>

StatsNext == Tick \/ Flush \/ \E n \in 0..1 : Add(n)

StatsSpec == StatsInit /\ [][StatsNext]_statsVars

(* Nothing added is lost or counted twice: every hour before the bucket's  *)
(* has been handed over in full, and the bucket holds all of its own hour, *)
(* whenever Flush was called in between.                                   *)
BucketsAddUp ==
    /\ \A h \in Hours : h < currentHour => flushed[h] = adds[h]
    /\ records = adds[currentHour]
    /\ flushed[currentHour] <= records
=============================================================================
