---------------------------- MODULE SourcePipeline ----------------------------
(***************************************************************************)
(* A pipeline of pipeline-core: a source reads events 1..n of some system  *)
(* into the channel of records, Run takes them out one by one, skips       *)
(* duplicates, applies the processors and writes to the sink.  The process *)
(* may be stopped by a signal or crash at any step, and is started again.  *)
(*                                                                         *)
(* Sources: "kafka" (a consumer group), "sql_event" (polls a table by id), *)
(* "cdc" (the binlog), and three that end: "file", "sql" (one query) and   *)
(* "http" (pages).  None of them is given a checkpoint at a restart.       *)
(* All events are about one entity.                                        *)
(* Statistics and what the processors compute are left out.                *)
(***************************************************************************)
EXTENDS Naturals, Integers, Sequences, FiniteSets

CONSTANTS
    Size,         \* for each kind of source, the events of the system it reads
    ChanCap,      \* capacity of the channel of records
    Ops,          \* the sequences of operations the events may stand for
    Batch,        \* LIMIT of a poll of sql_event, items of an http page
    MaxPages,     \* pages an http source asks for
    EventCap,     \* capacity of the cdc source's eventCh
    MaxRestarts   \* bound: restarts of the process

Finite == {"file", "sql", "http"}
Kinds == {"kafka", "sql_event", "cdc"} \cup Finite

ASSUME SourceAssumption ==
    /\ Size \in [Kinds -> Nat]
    /\ ChanCap \in Nat /\ Batch \in Nat /\ MaxRestarts \in Nat
    /\ \A ops \in Ops : \A i \in 1..Size["sql_event"] : ops[i] \in {"CREATE", "UPDATE", "DELETE"}

None == 0
NoOffset == -1
NoPoll == -1

VARIABLES
    kind, storage, startOffset,  \* the configuration
    op,          \* CREATE, UPDATE or DELETE, for each event
    visible,     \* events that are there to be read
    late,        \* history: events that appeared after one with a larger id
    pos,         \* last event read: the reader's offset, lastID, binlog position
    committed,   \* offset of the consumer group at the broker, or NoOffset
    batch,       \* rows of the poll or page under way, or events in eventCh:
                 \* they were put there, and are taken, in ascending order
    maxID,       \* largest id of the poll under way, or NoPoll
    hand,        \* the event the source is about to send
    chan,        \* the channel of records
    reader,      \* the source's goroutine: "run" or "ended" (records is closed)
    cancelled,   \* the context of Run
    loop,        \* Run: "select", "process", "returned"
    cur,         \* the event Run has received
    marks,       \* processedIDs of the dedup service
    exists,      \* its entities: the entity is there
    out,         \* history: the last operation written by this process (memory)
    sent,        \* history: rows this process has sent (sql_event)
    writes,      \* history: times it has written an event (memory)
    expired,     \* history: marks of an event that have expired in it
    delivered,   \* history: messages some process has finished with (kafka)
    restarts

Events == 1..Size[kind]
config == <<kind, storage, startOffset, op>>
upstream == <<visible, late>>
source == <<pos, batch, maxID, hand, reader, sent>>
consumer == <<loop, cur, marks, exists, out, writes, expired, delivered>>
vars == <<config, upstream, committed, source, chan, cancelled, consumer, restarts>>

Max(S) == CHOOSE x \in S : \A y \in S : y <= x
MaxOr0(S) == Max(S \cup {0})

Init ==
    /\ kind \in Kinds
    /\ storage \in {"memory", "redis"}
    /\ startOffset \in {"earliest", "latest"}
    /\ kind # "kafka" => startOffset = "earliest"
    \* sql_event is the source that sends an event again: it has the memory service
    /\ storage = "memory" <=> kind = "sql_event"
    /\ op \in (IF storage = "memory" THEN Ops ELSE {<<>>})
    /\ visible = (IF kind \in Finite THEN Events ELSE {}) /\ late = {}
    /\ pos = 0 /\ committed = NoOffset /\ batch = {} /\ maxID = NoPoll /\ hand = None
    /\ chan = <<>> /\ reader = "run" /\ cancelled = FALSE
    /\ loop = "select" /\ cur = None /\ marks = {} /\ exists = FALSE /\ out = "none" /\ sent = {}
    /\ writes = [i \in Events |-> 0] /\ expired = [i \in Events |-> 0]
    /\ delivered = {} /\ restarts = 0

(* A topic and a binlog grow at their end; a row of a table may appear     *)
(* after one with a larger id, when its transaction commits later.         *)
Appears(i) ==
    /\ i \notin visible
    /\ kind \in {"kafka", "cdc"} => i = Cardinality(visible) + 1
    /\ visible' = visible \cup {i}
    /\ late' = IF \E j \in visible : i < j THEN late \cup {i} ELSE late
    /\ UNCHANGED <<config, committed, source, chan, cancelled, consumer, restarts>>

-----------------------------------------------------------------------------
(* The source's goroutine *)

SourceOnly == UNCHANGED <<config, upstream, cancelled, consumer, restarts>>

(* kafka-go's ReadMessage; the checkpoint is set before the record is sent.*)
ReadMessage ==
    /\ kind = "kafka" /\ reader = "run" /\ hand = None
    /\ pos + 1 \in visible
    /\ hand' = pos + 1 /\ pos' = pos + 1
    /\ UNCHANGED <<committed, batch, maxID, reader, sent, chan>> /\ SourceOnly

(* Every commitInterval kafka-go commits what ReadMessage has returned.    *)
AutoCommit ==
    /\ kind = "kafka" /\ reader = "run" /\ pos # 0
    /\ committed' = pos
    /\ UNCHANGED <<source, chan>> /\ SourceOnly

Smallest(S, n) == {x \in S : Cardinality({y \in S : y < x}) < n}
Larger(a, b) == IF a > b THEN a ELSE b

(* The next row or event goes to the hand of the goroutine.                *)
Takes(i) ==
    /\ i \in batch /\ \A j \in batch : i <= j
    /\ hand' = i /\ batch' = batch \ {i}

(* poll: buildQuery asks for the rows above lastID in order of their id.   *)
Poll ==
    /\ kind = "sql_event" /\ reader = "run" /\ maxID = NoPoll
    /\ batch' = Smallest({i \in visible : i > pos}, Batch)
    /\ maxID' = 0
    /\ UNCHANGED <<committed, pos, hand, reader, sent, chan>> /\ SourceOnly

PollRow ==
    /\ kind = "sql_event" /\ reader = "run" /\ hand = None
    /\ \E i \in batch : Takes(i) /\ maxID' = Larger(maxID, i)
    /\ UNCHANGED <<committed, pos, reader, sent, chan>> /\ SourceOnly

(* Variant: lastID is updated although the poll has failed.                *)
PollFails_Advances ==
    /\ maxID # NoPoll /\ reader = "run" /\ hand = None
    /\ maxID' = NoPoll /\ batch' = {}
    /\ pos' = MaxOr0({pos, maxID} \cup batch)
    /\ UNCHANGED <<committed, hand, reader, sent, chan>> /\ SourceOnly

(* A row cannot be scanned or rows.Err: lastID stays.                      *)
PollFails ==
    /\ maxID # NoPoll /\ reader = "run" /\ hand = None
    /\ maxID' = NoPoll /\ batch' = {}
    /\ UNCHANGED <<committed, pos, hand, reader, sent, chan>> /\ SourceOnly

PollEnds ==
    /\ maxID # NoPoll /\ reader = "run" /\ hand = None /\ batch = {}
    /\ maxID' = NoPoll
    /\ pos' = Larger(pos, maxID)
    /\ UNCHANGED <<committed, batch, hand, reader, sent, chan>> /\ SourceOnly

(* OnRow: an event that finds eventCh full is dropped.                     *)
OnRow ==
    /\ kind = "cdc" /\ pos + 1 \in visible
    /\ pos' = pos + 1
    /\ batch' = IF Cardinality(batch) < EventCap THEN batch \cup {pos + 1} ELSE batch
    /\ UNCHANGED <<committed, maxID, hand, reader, sent, chan>> /\ SourceOnly

(* The goroutine that takes the events from eventCh.                       *)
Forward ==
    /\ kind = "cdc" /\ reader = "run" /\ hand = None
    /\ \E i \in batch : Takes(i)
    /\ UNCHANGED <<committed, pos, maxID, reader, sent, chan>> /\ SourceOnly

(* readJSON, readCSV, readLines: the context is tested before each record. *)
readFile ==
    /\ kind = "file" /\ reader = "run" /\ hand = None /\ ~cancelled /\ pos < Size[kind]
    /\ hand' = pos + 1 /\ pos' = pos + 1
    /\ UNCHANGED <<committed, batch, maxID, reader, sent, chan>> /\ SourceOnly

SQLRow ==
    /\ kind = "sql" /\ reader = "run" /\ hand = None /\ ~cancelled /\ pos < Size[kind]
    /\ hand' = pos + 1 /\ pos' = pos + 1
    /\ UNCHANGED <<committed, batch, maxID, reader, sent, chan>> /\ SourceOnly

(* readWithPagination: the context is tested before each page ...          *)
More == kind = "http" /\ pos < Size[kind] /\ pos < MaxPages * Batch
Page ==
    /\ More /\ reader = "run" /\ hand = None /\ batch = {} /\ ~cancelled
    /\ LET last == IF pos + Batch < Size[kind] THEN pos + Batch ELSE Size[kind] IN
         /\ batch' = (pos + 1)..last
         /\ pos' = last
    /\ UNCHANGED <<committed, hand, maxID, reader, sent, chan>> /\ SourceOnly

(* ... and not between the items of a page.                                *)
PageItem ==
    /\ kind = "http" /\ reader = "run" /\ hand = None
    /\ \E i \in batch : Takes(i)
    /\ UNCHANGED <<committed, pos, maxID, reader, sent, chan>> /\ SourceOnly

Send ==
    /\ hand # None /\ Len(chan) < ChanCap /\ reader = "run"
    /\ chan' = Append(chan, hand)
    /\ sent' = IF kind = "sql_event" THEN sent \cup {hand} ELSE sent
    /\ hand' = None
    /\ UNCHANGED <<committed, pos, batch, maxID, reader>> /\ SourceOnly

EndOfInput ==
    kind \in Finite /\ hand = None /\ batch = {} /\ (kind = "http" => ~More) /\ (kind # "http" => pos = Size[kind])

(* Variant: the goroutine tests its context only between two records.      *)
ReaderEnds_NoSelect ==
    /\ reader = "run"
    /\ \/ cancelled /\ hand = None
       \/ EndOfInput
    /\ reader' = "ended" /\ hand' = None
    /\ UNCHANGED <<committed, pos, batch, maxID, sent, chan>> /\ SourceOnly

(* The goroutine ends with its context, which the kafka, sql_event and cdc *)
(* sources also watch while they wait to send, or with its input.          *)
ReaderEnds ==
    /\ reader = "run"
    /\ \/ cancelled /\ kind \notin Finite
       \/ cancelled /\ hand = None /\ (kind = "http" => batch = {})
       \/ EndOfInput
    /\ reader' = "ended" /\ hand' = None
    /\ UNCHANGED <<committed, pos, batch, maxID, sent, chan>> /\ SourceOnly

(* ReadMessage, a file, a query or a request fails: the error is reported  *)
(* and the goroutine ends.                                                 *)
ReaderFails ==
    /\ reader = "run" /\ kind \in {"kafka"} \cup Finite /\ hand = None
    /\ kind = "http" => batch = {}
    /\ reader' = "ended"
    /\ UNCHANGED <<committed, pos, batch, maxID, hand, sent, chan>> /\ SourceOnly

-----------------------------------------------------------------------------
(* Pipeline.Run *)

ConsumerOnly == UNCHANGED <<config, upstream, committed, source, cancelled, restarts>>

Receive ==
    /\ loop = "select" /\ chan # <<>>
    /\ cur' = Head(chan) /\ chan' = Tail(chan) /\ loop' = "process"
    /\ UNCHANGED <<marks, exists, out, writes, expired, delivered>> /\ ConsumerOnly

(* The redis service answers that nothing is a duplicate.                  *)
IsDuplicate(i) == storage = "memory" /\ i \in marks

(* applyUpsertLogic: an UPDATE of an entity that is not there is written   *)
(* as a CREATE.                                                            *)
applyUpsertLogic(t) == IF t = "UPDATE" /\ ~exists THEN "CREATE" ELSE t

MarkProcessed(i) == marks' = IF storage = "memory" THEN marks \cup {i} ELSE marks
SetEntityExists(t) == exists' = (storage = "memory" /\ t # "DELETE")

Written(i, t) ==
    /\ writes' = [writes EXCEPT ![i] = @ + 1]
    /\ out' = t

(* Variant: the event that was written is not marked.                      *)
WriteAndMark_NoMark ==
    IF storage # "memory" THEN UNCHANGED <<marks, exists, writes, out>>
    ELSE LET t == applyUpsertLogic(op[cur]) IN
         Written(cur, t) /\ SetEntityExists(t) /\ UNCHANGED marks

(* Variant: the entity is recorded for the operation that was read.        *)
WriteAndMark_KeepsEntity ==
    IF storage # "memory" THEN UNCHANGED <<marks, exists, writes, out>>
    ELSE LET t == applyUpsertLogic(op[cur]) IN
         /\ Written(cur, t) /\ MarkProcessed(cur)
         /\ exists' = (exists \/ t # "DELETE")

(* sink.Write succeeds: the event is marked, then the entity is recorded.  *)
(* The redis service records nothing.                                      *)
WriteAndMark ==
    IF storage # "memory" THEN UNCHANGED <<marks, exists, writes, out>>
    ELSE LET t == applyUpsertLogic(op[cur]) IN
         Written(cur, t) /\ MarkProcessed(cur) /\ SetEntityExists(t)

(* A duplicate is skipped; otherwise a processor or the sink fails, a      *)
(* processor filters the event, or it is written.                          *)
processRecord ==
    /\ loop = "process"
    /\ \/ ~IsDuplicate(cur) /\ WriteAndMark
       \/ UNCHANGED <<marks, exists, writes, out>>
    /\ delivered' = IF kind = "kafka" THEN delivered \cup {cur} ELSE delivered
    /\ cur' = None /\ loop' = "select"
    /\ UNCHANGED <<chan, expired>> /\ ConsumerOnly

(* cleanup of the dedup service: the time to live of a mark has passed.    *)
cleanup(i) ==
    /\ i \in marks /\ expired[i] = 0
    /\ marks' = marks \ {i}
    /\ expired' = [expired EXCEPT ![i] = @ + 1]
    /\ UNCHANGED <<chan, loop, cur, exists, out, writes, delivered>> /\ ConsumerOnly

(* The context is done, or the channel is closed and empty.                *)
Returns ==
    /\ loop = "select"
    /\ cancelled \/ (reader = "ended" /\ chan = <<>>)
    /\ loop' = "returned"
    /\ UNCHANGED <<chan, cur, marks, exists, out, writes, expired, delivered>> /\ ConsumerOnly

(* A signal *)
Cancel ==
    /\ ~cancelled
    /\ cancelled' = TRUE
    /\ UNCHANGED <<config, upstream, committed, source, chan, consumer, restarts>>

-----------------------------------------------------------------------------
(* A crash, or the end of the process once Run has returned; then a new    *)
(* process opens the source.  Closing the reader of a consumer group       *)
(* commits what it has read.                                               *)

Offset == IF loop = "returned" /\ kind = "kafka" /\ pos # 0 THEN pos ELSE committed

(* Variant: a group goes on from the end of the topic.                     *)
Reopened_Latest(offset) == IF kind \in {"kafka", "cdc"} THEN MaxOr0(visible) ELSE 0

Reopened(offset) ==
    IF kind = "kafka" /\ offset # NoOffset THEN offset
    ELSE IF kind = "cdc" \/ startOffset = "latest" THEN MaxOr0(visible)
    ELSE 0

Restart ==
    /\ restarts < MaxRestarts
    /\ restarts' = restarts + 1
    /\ committed' = Offset
    /\ pos' = Reopened(Offset)
    /\ batch' = {} /\ maxID' = NoPoll /\ hand' = None /\ chan' = <<>>
    /\ reader' = "run" /\ cancelled' = FALSE /\ loop' = "select" /\ cur' = None
    /\ marks' = {} /\ exists' = FALSE /\ out' = "none" /\ sent' = {}
    /\ writes' = [i \in Events |-> 0] /\ expired' = [i \in Events |-> 0]
    /\ UNCHANGED <<config, upstream, delivered>>

SourceStep ==
    \/ ReadMessage \/ Poll \/ PollRow \/ PollEnds \/ Forward \/ readFile \/ SQLRow \/ Page \/ PageItem \/ Send \/ ReaderEnds

Run == Receive \/ processRecord \/ Returns

Next ==
    \/ \E i \in Events : Appears(i) \/ cleanup(i)
    \/ SourceStep \/ AutoCommit \/ PollFails \/ OnRow \/ ReaderFails
    \/ Run \/ Cancel \/ Restart

(* The goroutines of the source and of Run go on when they can.  A select  *)
(* with two cases ready takes either of them, ctx.Done in the end.         *)
Fairness ==
    /\ WF_vars(SourceStep) /\ WF_vars(Run)
    /\ SF_vars(cancelled /\ ReaderEnds) /\ SF_vars(cancelled /\ Returns)

Spec == Init /\ [][Next]_vars /\ Fairness

-----------------------------------------------------------------------------
(* sql_event: no row at or below lastID has been skipped, however polls    *)
(* fail half way and whatever is sent twice for it, but for the rows that  *)
(* became visible after a row with a larger id.                            *)
NothingSkipped ==
    kind = "sql_event" => \A i \in visible : (i <= pos /\ i \notin late) => i \in sent

(* An event that a failed poll sends again is written once by a process    *)
(* with the memory service, as long as its mark has not expired.           *)
WrittenOnce ==
    storage = "memory" => \A i \in Events : writes[i] <= 1 + expired[i]

(* An UPDATE reaches the sink only while the entity is there: the last     *)
(* operation this process has written is a CREATE or an UPDATE, whatever   *)
(* fails, is sent again or is skipped as a duplicate in between.           *)
UpdateFollowsCreate ==
    [][writes' # writes /\ restarts' = restarts /\ out' = "UPDATE" => out \in {"CREATE", "UPDATE"}]_vars

InFlight ==
    {hand, cur} \cup {chan[n] : n \in DOMAIN chan}
Lost == {i \in 1..pos : i \notin delivered \cup InFlight}

(* kafka: what a restart loses is bounded.  The offset is committed for    *)
(* messages that have only been read, so a stop or a crash loses what is   *)
(* in the channel, in the hand of the goroutine and in that of Run, and no *)
(* more, when the group starts at the earliest offset.                     *)
LossBounded ==
    (kind = "kafka" /\ startOffset = "earliest" /\ (reader = "run" \/ ~cancelled))
        => Cardinality(Lost) <= restarts * (ChanCap + 2)

(* A source that is cancelled ends its goroutine, which nobody waits for,  *)
(* although Run no longer receives; one that reads a file, a query or      *)
(* pages may wait in its send.                                             *)
ReaderTerminates ==
    (cancelled /\ kind \notin Finite) ~> (reader = "ended" \/ ~cancelled)
=============================================================================
