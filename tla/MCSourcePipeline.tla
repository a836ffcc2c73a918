--------------------------- MODULE MCSourcePipeline ---------------------------
(* Model checking of SourcePipeline: a topic longer than what one process  *)
(* may have in flight, a table of three rows polled two at a time; and of  *)
(* SinkActor: a buffer of two events that three records, one of which      *)
(* cannot be handled, a command, the ticker and PostStop compete for.  The *)
(* two do not share state: each behaviour is of one of them (subject).     *)
EXTENDS SourcePipeline, SinkActor

VARIABLE subject

MCSize == [kafka |-> 5, sql_event |-> 3, cdc |-> 3, file |-> 3, sql |-> 3, http |-> 5]
MCOps == {<<"UPDATE", "DELETE", "UPDATE">>}

MCInit ==
    /\ Init /\ SinkInit
    /\ subject \in {"source", "sink"}
    /\ subject = "sink" => kind = "file"
    /\ subject = "source" => configured

MCNext ==
    /\ UNCHANGED subject
    /\ \/ subject = "source" /\ Next /\ UNCHANGED sinkVars
       \/ subject = "sink" /\ SinkNext /\ UNCHANGED vars

(* The workers and a PostStop that has begun go on, and they take finitely *)
(* many steps; so does the loop of the ticker, which takes any number.     *)
SinkFairness ==
    /\ WF_sinkVars(subject = "sink" /\ (flush("postStop") \/ \E m \in Messages : ReceiveMessage(m)))
    /\ WF_sinkVars(subject = "sink" /\ flushLoop)

(* What Fairness asks of the source and of Run, where they are the subject. *)
SourceFairness ==
    /\ WF_vars(subject = "source" /\ SourceStep) /\ WF_vars(subject = "source" /\ Run)
    /\ SF_vars(subject = "source" /\ cancelled /\ ReaderEnds)
    /\ SF_vars(subject = "source" /\ cancelled /\ Returns)

MCSpec == MCInit /\ [][MCNext]_<<subject, vars, sinkVars>> /\ SourceFairness /\ SinkFairness
=============================================================================
