-------------------------- MODULE StreamProcessor --------------------------
(***************************************************************************)
(* A stream pipeline under its Runner: the source goroutine, the channel,  *)
(* the processing loop with its stage chain, and a BufferedSink with the   *)
(* goroutine of its flush timer.  The Runner's calls hold r.mu from end to *)
(* end, so one of them is under way at a time (control); the goroutines of *)
(* the pipeline run between its steps.                                     *)
(*                                                                         *)
(* Records are numbered in the order in which the source makes them.       *)
(***************************************************************************)
EXTENDS Naturals, Sequences, FiniteSets

CONSTANTS
    MaxRecords,     \* bound: the source makes no more records than this
    ChanSize,       \* capacity of the channel from the source to the loop
    BatchSize       \* batchSize of the sink

Records == 1..MaxRecords

VARIABLES
    runner,     \* r.status of the Runner
    state,      \* the processor's atomic state
    control,    \* the Runner's call: what it does next
    ended,      \* the processor's context
    paused,     \* the source's paused flag
    source,     \* "tick", "send" or "done"
    made,       \* records the source has made
    channel,    \* the channel
    loop,       \* where processLoop is
    hand,       \* the record processLoop works on, 0 for none
    buffer,     \* the sink's buffer
    timer,      \* the flush goroutine: "wait", "write" or "done"
    closed,     \* the sink's own context is cancelled
    taken,      \* the batch each flusher has swapped out and not yet written
    written,    \* what writeFunc has written, in order
    failed,     \* records of batches whose write failed
    skipped,    \* records drained while paused, filtered or failed in a stage
    stats       \* ProcessorStats

sinkVars == <<buffer, timer, closed, taken, written, failed>>
ctlVars == <<runner, state, control>>
streamVars == <<ctlVars, ended, paused, source, made, channel, loop, hand,
                sinkVars, skipped, stats>>

Flushers == {"loop", "timer", "close"}
Elems(s) == {s[i] : i \in 1..Len(s)}

-----------------------------------------------------------------------------
(* The source: a tick that finds it paused makes nothing; a send waits for *)
(* room or for the end of the context.                                     *)

SourceMakes ==
    /\ source = "tick"
    /\ ~paused
    /\ made < MaxRecords
    /\ made' = made + 1
    /\ source' = "send"
    /\ UNCHANGED <<ctlVars, ended, paused, channel, loop, hand, sinkVars, skipped, stats>>

SourceSends ==
    /\ source = "send"
    /\ Len(channel) < ChanSize
    /\ channel' = Append(channel, made)
    /\ source' = "tick"
    /\ UNCHANGED <<ctlVars, ended, paused, made, loop, hand, sinkVars, skipped, stats>>

(* Variant: the send does not watch the context.                           *)
SourceStops_OnTickOnly ==
    /\ ended
    /\ source = "tick"
    /\ source' = "done"
    /\ UNCHANGED <<ctlVars, ended, paused, made, channel, loop, hand, sinkVars, skipped, stats>>

SourceStops ==
    /\ ended
    /\ source # "done"
    /\ source' = "done"
    /\ UNCHANGED <<ctlVars, ended, paused, made, channel, loop, hand, sinkVars, skipped, stats>>

(* A finite source (FileSource) comes to its end; it closes the channel.   *)
SourceEnds ==
    /\ source = "tick"
    /\ source' = "done"
    /\ UNCHANGED <<ctlVars, ended, paused, made, channel, loop, hand, sinkVars, skipped, stats>>

-----------------------------------------------------------------------------
(* Flush, in its two halves: the buffer is swapped out under bufferMu, the *)
(* batch is written outside it.                                            *)

(* Variant: the batch is copied and the buffer is emptied after the write. *)
Swap_Copy(f) ==
    /\ taken' = [taken EXCEPT ![f] = buffer]
    /\ UNCHANGED <<buffer, closed, written, failed>>

Swap(f) ==
    /\ taken' = [taken EXCEPT ![f] = buffer]
    /\ buffer' = <<>>
    /\ UNCHANGED <<closed, written, failed>>

WriteBatch(f) ==
    /\ \/ /\ written' = written \o taken[f]
          /\ UNCHANGED failed
       \/ /\ taken[f] # <<>>
          /\ failed' = failed \cup Elems(taken[f])
          /\ UNCHANGED written
    /\ taken' = [taken EXCEPT ![f] = <<>>]
    /\ UNCHANGED <<buffer, closed>>

-----------------------------------------------------------------------------
(* processLoop *)

LoopDone ==
    /\ loop = "select"
    /\ ended \/ (channel = <<>> /\ source = "done")
    /\ loop' = "lastSwap"
    /\ UNCHANGED <<ctlVars, ended, paused, source, made, channel, hand, sinkVars, skipped, stats>>

Receive ==
    /\ loop = "select"
    /\ channel # <<>>
    /\ channel' = Tail(channel)

(* A paused processor goes on draining the channel.                        *)
LoopDrains ==
    /\ Receive
    /\ state = "paused"
    /\ skipped' = skipped \cup {Head(channel)}
    /\ UNCHANGED <<ctlVars, ended, paused, source, made, loop, hand, sinkVars, stats>>

(* processRecord: the stage chain drops the record, fails, or passes it.   *)
LoopFilters ==
    /\ Receive
    /\ state # "paused"
    /\ \E outcome \in {"filtered", "errors"} :
          stats' = [stats EXCEPT !.input = @ + 1, ![outcome] = @ + 1]
    /\ skipped' = skipped \cup {Head(channel)}
    /\ UNCHANGED <<ctlVars, ended, paused, source, made, loop, hand, sinkVars>>

LoopProcesses ==
    /\ Receive
    /\ state # "paused"
    /\ stats' = [stats EXCEPT !.input = @ + 1]
    /\ hand' = Head(channel)
    /\ loop' = "append"
    /\ UNCHANGED <<ctlVars, ended, paused, source, made, sinkVars, skipped>>

(* BufferedSink.Write: append and look at the length under the lock ...    *)
LoopAppends ==
    /\ loop = "append"
    /\ buffer' = Append(buffer, hand)
    /\ hand' = 0
    /\ IF Len(buffer') >= BatchSize
       THEN loop' = "swap" /\ UNCHANGED stats
       ELSE loop' = "select" /\ stats' = [stats EXCEPT !.output = @ + 1]
    /\ UNCHANGED <<ctlVars, ended, paused, source, made, channel,
                   timer, closed, taken, written, failed, skipped>>

(* ... then flush; by now the timer may have taken the records.            *)
LoopSwaps ==
    /\ loop \in {"swap", "lastSwap"}
    /\ Swap("loop")
    /\ loop' = IF loop = "swap" THEN "write" ELSE "lastWrite"
    /\ UNCHANGED <<ctlVars, ended, paused, source, made, channel, hand, timer, skipped, stats>>

LoopWrites ==
    /\ loop \in {"write", "lastWrite"}
    /\ WriteBatch("loop")
    /\ loop' = IF loop = "write" THEN "select" ELSE "exited"
    /\ stats' = IF loop = "lastWrite" THEN stats
                ELSE IF failed' = failed THEN [stats EXCEPT !.output = @ + 1]
                ELSE [stats EXCEPT !.errors = @ + 1]
    /\ UNCHANGED <<ctlVars, ended, paused, source, made, channel, hand, timer, skipped>>

-----------------------------------------------------------------------------
(* startFlushLoop *)

(* Variant: the timer leaves a batch that is not full to the next Write.   *)
TimerFires_FullOnly ==
    /\ timer = "wait"
    /\ ~closed
    /\ Len(buffer) >= BatchSize
    /\ Swap("timer")
    /\ timer' = "write"
    /\ UNCHANGED <<ctlVars, ended, paused, source, made, channel, loop, hand, skipped, stats>>

TimerFires ==
    /\ timer = "wait"
    /\ ~closed
    /\ buffer # <<>>
    /\ Swap("timer")
    /\ timer' = "write"
    /\ UNCHANGED <<ctlVars, ended, paused, source, made, channel, loop, hand, skipped, stats>>

TimerWrites ==
    /\ timer = "write"
    /\ WriteBatch("timer")
    /\ timer' = "wait"
    /\ UNCHANGED <<ctlVars, ended, paused, source, made, channel, loop, hand, skipped, stats>>

TimerEnds ==
    /\ timer = "wait"
    /\ closed
    /\ timer' = "done"
    /\ UNCHANGED <<ctlVars, ended, paused, source, made, channel, loop, hand,
                   buffer, closed, taken, written, failed, skipped, stats>>

-----------------------------------------------------------------------------
(* Runner.Pause, Resume and Stop, with the processor's                     *)

Control(from, to) ==
    /\ control = from
    /\ control' = to
    /\ UNCHANGED <<made, channel, loop, hand, skipped, stats>>

RunnerPause ==
    /\ runner = "running"
    /\ Control("idle", "pauseSource")
    /\ state' = "paused"
    /\ UNCHANGED <<runner, ended, paused, source, sinkVars>>

PauseSource ==
    /\ Control("pauseSource", "idle")
    /\ paused' = TRUE
    /\ runner' = "paused"
    /\ UNCHANGED <<state, ended, source, sinkVars>>

RunnerResume ==
    /\ runner = "paused"
    /\ Control("idle", "resumeSource")
    /\ state' = "running"
    /\ UNCHANGED <<runner, ended, paused, source, sinkVars>>

ResumeSource ==
    /\ Control("resumeSource", "idle")
    /\ paused' = FALSE
    /\ runner' = "running"
    /\ UNCHANGED <<state, ended, source, sinkVars>>

(* Runner.Stop cancels the context that the processor's derives from.      *)
RunnerStop ==
    /\ runner \in {"running", "paused"}
    /\ Control("idle", "casStopping")
    /\ ended' = TRUE
    /\ UNCHANGED <<runner, state, paused, source, sinkVars>>

StopProcessor ==
    /\ Control("casStopping", "wait")
    /\ state' = "stopping"
    /\ UNCHANGED <<runner, ended, paused, source, sinkVars>>

(* wg.Wait, then the source, the stages and the sink are closed.           *)
StopWaits ==
    /\ source = "done"
    /\ loop = "exited"
    /\ Control("wait", "swap")
    /\ closed' = TRUE
    /\ UNCHANGED <<runner, state, ended, paused, source,
                   buffer, timer, taken, written, failed>>

StopSwaps ==
    /\ Control("swap", "write")
    /\ Swap("close")
    /\ UNCHANGED <<runner, state, ended, paused, source, timer>>

StopWrites ==
    /\ Control("write", "finish")
    /\ WriteBatch("close")
    /\ UNCHANGED <<runner, state, ended, paused, source, timer>>

StopFinishes ==
    /\ Control("finish", "idle")
    /\ state' = "stopped"
    /\ runner' = "stopped"
    /\ UNCHANGED <<ended, paused, source, sinkVars>>

-----------------------------------------------------------------------------
(* Runner.Start has returned: the goroutines exist.                        *)
StreamInit ==
    /\ runner = "running" /\ state = "running" /\ control = "idle"
    /\ ended = FALSE
    /\ paused = FALSE
    /\ source = "tick"
    /\ made = 0
    /\ channel = <<>>
    /\ loop = "select"
    /\ hand = 0
    /\ buffer = <<>>
    /\ timer = "wait"
    /\ closed = FALSE
    /\ taken = [f \in Flushers |-> <<>>]
    /\ written = <<>>
    /\ failed = {}
    /\ skipped = {}
    /\ stats = [input |-> 0, output |-> 0, filtered |-> 0, errors |-> 0]

sourceStart == SourceMakes \/ SourceSends \/ SourceStops \/ SourceEnds

processLoop ==
    \/ LoopDone \/ LoopDrains \/ LoopFilters \/ LoopProcesses
    \/ LoopAppends \/ LoopSwaps \/ LoopWrites

flushLoop == TimerFires \/ TimerWrites \/ TimerEnds

(* A call of the Runner, once begun, goes on.                              *)
CallGoesOn ==
    \/ PauseSource \/ ResumeSource \/ StopProcessor \/ StopWaits
    \/ StopSwaps \/ StopWrites \/ StopFinishes

StreamNext ==
    \/ sourceStart \/ processLoop \/ flushLoop
    \/ RunnerPause \/ RunnerResume \/ RunnerStop
    \/ CallGoesOn

(* The goroutines run and the timer fires; nobody has to call the Runner.  *)
StreamFairness ==
    /\ WF_streamVars(SourceSends \/ SourceStops)
    /\ WF_streamVars(processLoop)
    /\ WF_streamVars(flushLoop)
    /\ WF_streamVars(CallGoesOn)

StreamSpec == StreamInit /\ [][StreamNext]_streamVars /\ StreamFairness

-----------------------------------------------------------------------------
(* Properties *)

(* Where each record that the source has made is; a send that the end of   *)
(* the context cut off, and what is left in the channel then, are lost.    *)
Places(r) ==
    << r \in Elems(channel), source = "send" /\ r = made, r = hand,
       r \in Elems(buffer), r \in Elems(taken["loop"]), r \in Elems(taken["timer"]),
       r \in Elems(taken["close"]), r \in Elems(written), r \in failed, r \in skipped >>

(* No record is lost and none is written twice while the processor runs:   *)
(* it is always in exactly one place, although the loop, the flush timer   *)
(* and Close swap the buffer and write outside its lock (Flush).           *)
EachRecordOnce ==
    /\ Len(written) = Cardinality(Elems(written))
    /\ \A r \in 1..made :
          LET places == {i \in DOMAIN Places(r) : Places(r)[i]}
          IN  /\ Cardinality(places) <= 1
              /\ ~ended => Cardinality(places) = 1

(* Stop returns, also when the source is blocked on a full channel.        *)
StopReturns == control = "casStopping" ~> runner = "stopped"

(* A record that the sink has buffered is written, or its write fails,     *)
(* without further records to push it out.                                 *)
BufferedIsFlushed ==
    \A r \in Records :
        r \in Elems(buffer) ~> r \in Elems(written) \cup failed

=============================================================================
