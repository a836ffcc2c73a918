------------------------------ MODULE SinkActor ------------------------------
(***************************************************************************)
(* The buffer of a sink actor (SinkActor and BentoSinkActor, which have    *)
(* the same buffer).  Its messages are handled by workers of the           *)
(* dispatcher, several at a time and after PostStop too; the ticker of     *)
(* flushLoop and PostStop flush beside them.  Each of these goroutines is  *)
(* a process here: one for a message (a record or the command "flush"),    *)
(* "loop" and "postStop".                                                  *)
(*                                                                         *)
(* BuildOutput of the Bento adapter returns an error whatever it is asked  *)
(* for, so that a BentoSinkActor has no adapter and uses its own writer.   *)
(* The counters are only logged and are left out.                          *)
(***************************************************************************)
EXTENDS Naturals, FiniteSets

CONSTANTS
    Records,    \* messages of type data
    Bad,        \* those whose payload is not a map
    MaxEvents   \* s.maxEvents

(* A record is none of the other processes.                                *)
ASSUME SinkAssumption == Records \cap {"flush", "loop", "postStop"} = {}

Messages == Records \cup {"flush"}
Procs == Messages \cup {"loop", "postStop"}

VARIABLES
    configured,  \* the writer finds what it needs in s.config
    pc,          \* where each process is; a message begins in the "mailbox"
    buffer,      \* s.buffer
    taken,       \* the batch a flush has taken out of it
    ended,       \* s.ctx
    written, failed

sinkVars == <<configured, pc, buffer, taken, ended, written, failed>>

(* After PreStart: the loop waits for its ticker.                          *)
SinkInit ==
    /\ configured \in BOOLEAN
    /\ pc = [p \in Procs |-> IF p \in Messages THEN "mailbox" ELSE "waiting"]
    /\ buffer = {} /\ taken = [p \in Procs |-> {}]
    /\ ended = FALSE
    /\ written = {} /\ failed = {}

Goes(p, from, to) == pc[p] = from /\ pc' = [pc EXCEPT ![p] = to]

(* runActor pops a message and gives it to the dispatcher, as long as it   *)
(* has not called PostStop.                                                *)
dispatch(m) ==
    /\ pc["postStop"] = "waiting"
    /\ Goes(m, "mailbox", "waiting")
    /\ UNCHANGED <<configured, buffer, taken, ended, written, failed>>

handleData(r) ==
    /\ r \in Records
    /\ IF r \in Bad
       THEN Goes(r, "waiting", "done") /\ failed' = failed \cup {r} /\ UNCHANGED buffer
       ELSE /\ buffer' = buffer \cup {r}
            /\ Goes(r, "waiting", IF Cardinality(buffer') >= MaxEvents THEN "flush" ELSE "done")
            /\ UNCHANGED failed
    /\ UNCHANGED <<configured, taken, ended, written>>

handleCommand ==
    /\ Goes("flush", "waiting", "flush")
    /\ UNCHANGED <<configured, buffer, taken, ended, written, failed>>

(* What a process does after its flush: the loop waits for the next tick.  *)
After(p) == IF p = "loop" THEN "waiting" ELSE "done"

(* flush: the buffer is swapped under bufferMu ...                         *)
Swap(p) ==
    /\ IF buffer = {}
       THEN Goes(p, "flush", After(p)) /\ UNCHANGED <<buffer, taken>>
       ELSE /\ Goes(p, "flush", "write")
            /\ taken' = [taken EXCEPT ![p] = buffer]
            /\ buffer' = {}
    /\ UNCHANGED <<configured, ended, written, failed>>

(* ... and written outside of it, as a whole or not at all.                *)
Write(p) ==
    /\ Goes(p, "write", After(p))
    /\ taken' = [taken EXCEPT ![p] = {}]
    /\ IF configured THEN written' = written \cup taken[p] /\ UNCHANGED failed
                     ELSE failed' = failed \cup taken[p] /\ UNCHANGED written
    /\ UNCHANGED <<configured, buffer, ended>>

flush(p) == Swap(p) \/ Write(p)

(* A select with both cases ready takes either.                            *)
flushLoop ==
    \/ /\ \/ Goes("loop", "waiting", "flush")
          \/ ended /\ Goes("loop", "waiting", "done")
       /\ UNCHANGED <<configured, buffer, taken, ended, written, failed>>
    \/ flush("loop")

(* Variant: the loop is ended, what is in the buffer stays there.          *)
PostStop_NoFlush ==
    /\ Goes("postStop", "waiting", "done")
    /\ ended' = TRUE
    /\ UNCHANGED <<configured, buffer, taken, written, failed>>

PostStop ==
    /\ Goes("postStop", "waiting", "flush")
    /\ ended' = TRUE
    /\ UNCHANGED <<configured, buffer, taken, written, failed>>

ReceiveMessage(m) == handleData(m) \/ (m = "flush" /\ handleCommand) \/ flush(m)

SinkNext ==
    \/ \E m \in Messages : dispatch(m) \/ ReceiveMessage(m)
    \/ flushLoop \/ PostStop \/ flush("postStop")

SinkSpec == SinkInit /\ [][SinkNext]_sinkVars

-----------------------------------------------------------------------------
(* A record that a worker has handled (handleData) is in one place only:   *)
(* in the buffer, in the batch of one flush, written or counted as an      *)
(* error; before that it is in none.  No flush loses a record or takes one *)
(* that another writes.                                                    *)
EachInOnePlace ==
    /\ \A r \in Records : pc[r] \notin {"mailbox", "waiting"} <=>
            r \in buffer \/ r \in written \/ r \in failed \/ \E p \in Procs : r \in taken[p]
    /\ buffer \cap written = {} /\ buffer \cap failed = {} /\ written \cap failed = {}
    /\ \A p \in Procs : taken[p] \cap (buffer \cup written \cup failed) = {}
    /\ \A p, q \in Procs : p # q => taken[p] \cap taken[q] = {}

(* The records differ in nothing but their names: what holds of one holds  *)
(* of all.                                                                 *)
Watched == CHOOSE r \in Records \ Bad : TRUE

(* A record that is in the buffer when PostStop takes it, or earlier, is   *)
(* written or counted as an error in the end, whether the actor is stopped *)
(* or not and whichever of the flushes takes it (flush, flushLoop,         *)
(* PostStop).  A record that a worker appends later may stay in the buffer *)
(* of the stopped actor.                                                   *)
AppendedIsWritten ==
    (Watched \in buffer /\ pc["postStop"] \in {"waiting", "flush"}) ~> (Watched \in written \cup failed)
=============================================================================
