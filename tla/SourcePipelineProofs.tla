------------------------ MODULE SourcePipelineProofs ------------------------
(***************************************************************************)
(* The source and Run of a pipeline, for every number of events, capacity  *)
(* of the channel, size of a poll, sequence of operations and number of    *)
(* restarts; and the buffer of a sink actor, for every number of records   *)
(* and size.                                                               *)
(***************************************************************************)
EXTENDS SourcePipeline, SinkActor, FiniteSetTheorems, TLAPS

(* What Init chooses and no step changes.                                  *)
ConfigInv ==
    /\ kind \in Kinds
    /\ storage = "memory" <=> kind = "sql_event"
    /\ storage = "memory" => op \in Ops
    /\ kind # "kafka" => startOffset = "earliest"

(* Where the events are that a kafka or sql_event source has read: they    *)
(* are events, and a goroutine that has ended has none in its hand; only   *)
(* sql_event polls.                                                        *)
RecordsInv ==
    kind \in {"kafka", "sql_event"} =>
        /\ visible \subseteq Events /\ batch \subseteq Events
        /\ hand \in Events \cup {None}
        /\ chan \in Seq(Events) /\ Len(chan) <= ChanCap
        /\ loop = "process" => cur \in Events
        /\ loop # "process" => cur = None
        /\ reader # "run" => hand = None
        /\ kind = "kafka" => maxID = NoPoll

FlowInv == ConfigInv /\ RecordsInv

LEMMA ConfigStays ==
    ASSUME [Next]_vars
    PROVE  config' = config
  <1> USE DEF SourceOnly, ConsumerOnly
  <1>1. ASSUME NEW i \in Events, Appears(i) \/ cleanup(i) PROVE config' = config
    BY <1>1 DEF Appears, cleanup
  <1>2. CASE SourceStep \/ AutoCommit \/ PollFails \/ OnRow \/ ReaderFails
    BY <1>2 DEF SourceStep, AutoCommit, PollFails, OnRow, ReaderFails, ReadMessage, Poll, PollRow, PollEnds,
                Forward, readFile, SQLRow, Page, PageItem, Send, ReaderEnds
  <1>3. CASE Receive \/ processRecord \/ Returns
    BY <1>3 DEF Receive, processRecord, Returns
  <1>4. CASE Cancel \/ Restart \/ UNCHANGED vars
    BY <1>4 DEF Cancel, Restart, vars
  <1> QED
    BY <1>1, <1>2, <1>3, <1>4 DEF Next, Run

LEMMA InitFlowInv == Init => FlowInv
  BY SourceAssumption DEF Init, FlowInv, ConfigInv, RecordsInv, Kinds, Events, None

(* The goroutine of the source moves events from the system to the         *)
(* channel, whichever kind of source it is.                                *)
LEMMA SourceKeepsFlowInv ==
    ASSUME FlowInv,
           SourceStep \/ AutoCommit \/ PollFails \/ OnRow \/ ReaderFails
    PROVE  FlowInv'
  <1> USE DEF FlowInv, ConfigInv, RecordsInv, SourceOnly, source, config, upstream, consumer, Events, None
  <1>1. CASE ReadMessage
    BY <1>1 DEF ReadMessage
  <1>2. CASE Poll
    BY <1>2 DEF Poll, Smallest
  <1>3. CASE PollRow
    BY <1>3 DEF PollRow, Takes
  <1>4. CASE PollEnds
    BY <1>4 DEF PollEnds
  <1>5. CASE Forward \/ readFile \/ SQLRow \/ Page \/ PageItem \/ OnRow
    BY <1>5 DEF Forward, readFile, SQLRow, Page, PageItem, OnRow, More
  <1>6. CASE Send
    BY <1>6, SourceAssumption DEF Send
  <1>7. CASE ReaderEnds \/ ReaderFails
    BY <1>7 DEF ReaderEnds, ReaderFails
  <1>8. CASE AutoCommit \/ PollFails
    BY <1>8 DEF AutoCommit, PollFails
  <1> QED
    BY <1>1, <1>2, <1>3, <1>4, <1>5, <1>6, <1>7, <1>8 DEF SourceStep

LEMMA NextFlowInv == FlowInv /\ [Next]_vars => FlowInv'
  <1> SUFFICES ASSUME FlowInv, [Next]_vars PROVE FlowInv'
    OBVIOUS
  <1> USE DEF FlowInv, ConfigInv, RecordsInv, ConsumerOnly, source, config, upstream, consumer, Events, None
  <1>1. ASSUME NEW i \in Events, Appears(i) PROVE FlowInv'
    BY <1>1 DEF Appears
  <1>2. ASSUME NEW i \in Events, cleanup(i) PROVE FlowInv'
    BY <1>2 DEF cleanup
  <1>3. CASE SourceStep \/ AutoCommit \/ PollFails \/ OnRow \/ ReaderFails
    BY <1>3, SourceKeepsFlowInv
  <1>4. CASE Receive
    <2>1. kind \in {"kafka", "sql_event"} => Head(chan) \in Events /\ Tail(chan) \in Seq(Events) /\ Len(Tail(chan)) <= ChanCap
      BY <1>4, SourceAssumption DEF Receive
    <2> QED
      BY <1>4, <2>1 DEF Receive
  <1>5. CASE processRecord
    BY <1>5 DEF processRecord
  <1>6. CASE Returns
    BY <1>6 DEF Returns
  <1>7. CASE Cancel
    BY <1>7 DEF Cancel
  <1>8. CASE Restart
    BY <1>8, SourceAssumption DEF Restart
  <1>9. CASE UNCHANGED vars
    BY <1>9 DEF vars
  <1> QED
    BY <1>1, <1>2, <1>3, <1>4, <1>5, <1>6, <1>7, <1>8, <1>9 DEF Next, Run

-----------------------------------------------------------------------------
(* The memory service: an event that is marked may have been written once  *)
(* more than its marks have expired, and no other; the entity is there     *)
(* only after a CREATE or an UPDATE.                                       *)
DedupInv ==
    storage = "memory" =>
        /\ marks \subseteq Events
        /\ writes \in [Events -> Nat] /\ expired \in [Events -> Nat]
        /\ \A i \in Events : writes[i] <= expired[i] + (IF i \in marks THEN 1 ELSE 0)
        /\ exists => out \in {"CREATE", "UPDATE"}

LEMMA InitDedupInv == Init => DedupInv
  BY DEF Init, DedupInv, Events

(* Only these steps touch what the service and the histories hold.         *)
LEMMA DedupSteps ==
    ASSUME [Next]_vars
    PROVE  \/ processRecord
           \/ \E i \in Events : cleanup(i)
           \/ Restart
           \/ UNCHANGED <<config, restarts, marks, exists, out, writes, expired>>
  <1> USE DEF SourceOnly, ConsumerOnly, source, config, consumer
  <1>1. ASSUME NEW i \in Events, Appears(i) PROVE UNCHANGED <<config, restarts, consumer>>
    BY <1>1 DEF Appears
  <1>2. CASE SourceStep \/ AutoCommit \/ PollFails \/ OnRow \/ ReaderFails
    BY <1>2 DEF SourceStep, AutoCommit, PollFails, OnRow, ReaderFails, ReadMessage, Poll, PollRow, PollEnds,
                Forward, readFile, SQLRow, Page, PageItem, Send, ReaderEnds
  <1>3. CASE Receive \/ Returns
    BY <1>3 DEF Receive, Returns
  <1>4. CASE Cancel
    BY <1>4 DEF Cancel
  <1>5. CASE UNCHANGED vars
    BY <1>5 DEF vars
  <1> QED
    BY <1>1, <1>2, <1>3, <1>4, <1>5 DEF Next, Run

(* An UPDATE is written as a CREATE unless the entity is there, and what   *)
(* is written is one of the three operations.                              *)
LEMMA UpsertLogic ==
    ASSUME FlowInv, storage = "memory", loop = "process"
    PROVE  LET t == applyUpsertLogic(op[cur]) IN
           t \in {"CREATE", "UPDATE", "DELETE"} /\ (t = "UPDATE" => exists)
  <1>1. cur \in 1..Size["sql_event"] /\ op \in Ops
    BY DEF FlowInv, ConfigInv, RecordsInv, Events
  <1>2. op[cur] \in {"CREATE", "UPDATE", "DELETE"}
    BY <1>1, SourceAssumption
  <1> QED
    BY <1>2, Zenon DEF applyUpsertLogic

LEMMA NextDedupInv == FlowInv /\ DedupInv /\ [Next]_vars => DedupInv'
  <1> SUFFICES ASSUME FlowInv, DedupInv, [Next]_vars PROVE DedupInv'
    OBVIOUS
  <1> SUFFICES ASSUME storage = "memory" PROVE DedupInv'
    BY ConfigStays DEF DedupInv, config
  <1>1. CASE processRecord
    <2>1. cur \in Events
      BY <1>1 DEF processRecord, FlowInv, ConfigInv, RecordsInv
    <2>2. Events' = Events /\ expired' = expired
      BY <1>1 DEF processRecord, ConsumerOnly, config, Events
    <2>3. CASE UNCHANGED <<marks, exists, writes, out>>
      BY <2>2, <2>3 DEF DedupInv
    <2>4. CASE ~IsDuplicate(cur) /\ WriteAndMark
      <3> DEFINE t == applyUpsertLogic(op[cur])
      <3>1. Written(cur, t) /\ MarkProcessed(cur) /\ SetEntityExists(t) /\ cur \notin marks
        BY <2>4 DEF WriteAndMark, IsDuplicate
      <3>2. marks' = marks \cup {cur} /\ writes' = [writes EXCEPT ![cur] = @ + 1]
        BY <3>1 DEF MarkProcessed, Written
      <3>3. exists' => out' \in {"CREATE", "UPDATE"}
        BY <1>1, <3>1, UpsertLogic DEF SetEntityExists, Written, processRecord
      <3> QED
        BY <2>1, <2>2, <3>1, <3>2, <3>3 DEF DedupInv
    <2> QED
      BY <1>1, <2>3, <2>4 DEF processRecord
  <1>2. ASSUME NEW i \in Events, cleanup(i) PROVE DedupInv'
    BY <1>2 DEF cleanup, DedupInv, ConsumerOnly, config, Events
  <1>3. CASE Restart
    BY <1>3 DEF Restart, DedupInv, config, Events
  <1>4. CASE UNCHANGED <<config, restarts, marks, exists, out, writes, expired>>
    BY <1>4 DEF DedupInv, config, Events
  <1> QED
    BY <1>1, <1>2, <1>3, <1>4, DedupSteps

LEMMA DedupInvariant == Spec => [](FlowInv /\ DedupInv)
  <1>1. Init => FlowInv /\ DedupInv
    BY InitFlowInv, InitDedupInv
  <1>2. FlowInv /\ DedupInv /\ [Next]_vars => (FlowInv /\ DedupInv)'
    BY NextFlowInv, NextDedupInv
  <1> QED
    BY <1>1, <1>2, PTL DEF Spec

(* An event that polls send again is written once by a process with the    *)
(* memory service for each time its mark expires, and once more.           *)
THEOREM AlwaysWrittenOnce == Spec => []WrittenOnce
  <1>1. DedupInv => WrittenOnce
    BY DEF DedupInv, WrittenOnce, Events
  <1> QED
    BY <1>1, DedupInvariant, PTL

(* An UPDATE is written only while the last operation that this process    *)
(* has written left the entity there.                                      *)
THEOREM UpdatesFollowCreates == Spec => UpdateFollowsCreate
  <1> DEFINE A == writes' # writes /\ restarts' = restarts /\ out' = "UPDATE" => out \in {"CREATE", "UPDATE"}
  <1>1. FlowInv /\ DedupInv /\ [Next]_vars => A
    <2> SUFFICES ASSUME FlowInv, DedupInv, [Next]_vars,
                        writes' # writes, restarts' = restarts, out' = "UPDATE"
                 PROVE  out \in {"CREATE", "UPDATE"}
      OBVIOUS
    <2>1. CASE processRecord
      <3>1. storage = "memory" /\ Written(cur, applyUpsertLogic(op[cur]))
        BY <2>1 DEF processRecord, WriteAndMark
      <3> QED
        BY <2>1, <3>1, UpsertLogic DEF processRecord, Written, DedupInv
    <2>2. ASSUME NEW i \in Events, cleanup(i) PROVE FALSE
      BY <2>2 DEF cleanup
    <2>3. ~Restart
      <3>1. Restart => out' = "none"
        BY DEF Restart
      <3> QED
        BY <3>1
    <2> QED
      BY <2>1, <2>2, <2>3, DedupSteps
  <1> QED
    BY <1>1, DedupInvariant, PTL DEF Spec, UpdateFollowsCreate
-----------------------------------------------------------------------------
(* sql_event.  Every row up to lastID that was visible in time is sent.    *)
(* That is kept through the half of a poll by the order of its rows: what  *)
(* the poll has passed is sent or in the hand of the goroutine, and what   *)
(* it has still to pass is in the batch.  Ids that appear in time are      *)
(* larger than any id the goroutine has seen.                              *)
PollInv ==
    kind = "sql_event" =>
        /\ maxID \in Nat \cup {NoPoll} /\ pos \in Nat
        /\ pos = 0 \/ pos \in visible
        /\ maxID \in {0, NoPoll} \/ maxID \in visible
        /\ batch \subseteq visible
        /\ maxID = NoPoll => batch = {} /\ hand = None
        /\ \A j \in batch : j > maxID /\ j > pos
        /\ \A i \in visible \ late : i <= pos => i \in sent
        /\ reader = "run" =>
              /\ \A i \in visible \ late : i > pos /\ i <= maxID => i \in sent \cup {hand}
              /\ \A i \in visible \ late, j \in batch : i > pos /\ i > maxID /\ i <= j => i \in batch

LEMMA InitPollInv == Init => PollInv
  BY DEF Init, PollInv, NoPoll, Finite, None

(* A row below one of the smallest n is one of the smallest n.             *)
LEMMA SmallestIsClosed ==
    ASSUME NEW S, IsFiniteSet(S), S \subseteq Nat, NEW n \in Nat,
           NEW j \in Smallest(S, n), NEW i \in S, i <= j
    PROVE  i \in Smallest(S, n)
  <1> DEFINE Below(x) == {y \in S : y < x}
  <1>1. Below(i) \subseteq Below(j) /\ IsFiniteSet(Below(j))
    <2>1. Below(i) \subseteq Below(j)
      <3>1. i \in Nat /\ j \in Nat
        BY DEF Smallest
      <3>2. \A y \in S : y < i => y < j
        BY <3>1
      <3> QED
        BY <3>2
    <2> QED
      BY <2>1, FS_Subset
  <1>2. Cardinality(Below(i)) <= Cardinality(Below(j))
    BY <1>1, FS_Subset
  <1>3. Cardinality(Below(i)) \in Nat /\ Cardinality(Below(j)) \in Nat
    BY <1>1, FS_Subset, FS_CardinalityType
  <1>4. Cardinality(Below(j)) < n
    BY DEF Smallest
  <1> QED
    BY <1>2, <1>3, <1>4 DEF Smallest

LEMMA NextPollInv == FlowInv /\ PollInv /\ [Next]_vars => PollInv'
  <1> SUFFICES ASSUME FlowInv, PollInv, [Next]_vars PROVE PollInv'
    OBVIOUS
  <1> SUFFICES ASSUME kind = "sql_event" PROVE PollInv'
    BY ConfigStays DEF PollInv, config
  <1>0. visible \subseteq Nat \ {0} /\ IsFiniteSet(visible)
    <2>1. visible \subseteq Events /\ Size[kind] \in Nat
      BY SourceAssumption DEF FlowInv, ConfigInv, RecordsInv
    <2>2. IsFiniteSet(Events)
      BY <2>1, FS_Interval DEF Events
    <2>3. IsFiniteSet(visible)
      BY <2>1, <2>2, FS_Subset
    <2> QED
      BY <2>1, <2>3 DEF Events
  <1> USE DEF SourceOnly, ConsumerOnly, config, upstream, source, consumer, NoPoll, None
  <1>1. ASSUME NEW i \in Events, Appears(i) PROVE PollInv'
    <2>1. i \in Nat
      BY SourceAssumption DEF Events, FlowInv, ConfigInv
    <2>2. visible' = visible \cup {i} /\ UNCHANGED <<kind, maxID, pos, batch, hand, sent, reader>>
      BY <1>1 DEF Appears
    <2>3. CASE \E j \in visible : i < j
      <3>1. visible' \ late' = (visible \ late) \ {i}
        BY <1>1, <2>3 DEF Appears
      <3> QED
        BY <1>0, <2>1, <2>2, <3>1 DEF PollInv
    <2>4. CASE \A j \in visible : j < i
      <3>1. late' = late
        BY <1>0, <1>1, <2>1, <2>4 DEF Appears
      <3>2. i > pos /\ i > maxID /\ \A j \in batch : j < i
        BY <2>1, <2>4 DEF PollInv, Events
      <3>3. pos \in Nat /\ maxID \in Int /\ batch \subseteq Nat
        <4>1. pos \in Nat /\ maxID \in Nat \cup {-1} /\ batch \subseteq visible
          BY DEF PollInv
        <4> QED
          BY <1>0, <4>1
      <3>4. \A k \in visible' \ late' : k = i \/ k \in visible \ late
        BY <2>2, <3>1
      <3>5. \A k \in visible' \ late' : k <= pos => k \in sent
        BY <2>1, <3>2, <3>3, <3>4 DEF PollInv
      <3>6. reader = "run" => \A k \in visible' \ late' : k > pos /\ k <= maxID => k \in sent \cup {hand}
        BY <2>1, <3>2, <3>3, <3>4 DEF PollInv
      <3>7. reader = "run" => \A k \in visible' \ late', j \in batch : k > pos /\ k > maxID /\ k <= j => k \in batch
        BY <2>1, <3>2, <3>3, <3>4 DEF PollInv
      <3> QED
        BY <2>2, <3>5, <3>6, <3>7 DEF PollInv
    <2> QED
      BY <1>0, <1>1, <2>1, <2>3, <2>4 DEF Appears
  <1>2. ASSUME NEW i \in Events, cleanup(i) PROVE PollInv'
    BY <1>2 DEF cleanup, PollInv
  <1>3. CASE Poll
    <2> DEFINE above == {i \in visible : i > pos}
    <2>1. above \subseteq Nat /\ IsFiniteSet(above)
      BY <1>0, FS_Subset
    <2>2. batch' = Smallest(above, Batch) /\ maxID' = 0 /\ UNCHANGED <<kind, visible, late, pos, hand, sent, reader>>
      BY <1>3 DEF Poll
    <2>3. batch' \subseteq above
      BY <2>2 DEF Smallest
    <2>4. \A i \in above, j \in batch' : i <= j => i \in batch'
      BY <2>1, <2>2, SmallestIsClosed, SourceAssumption
    <2> QED
      BY <1>0, <2>2, <2>3, <2>4 DEF PollInv
  <1>4. CASE PollRow
    <2>1. PICK i \in batch : Takes(i) /\ maxID' = Larger(maxID, i)
      BY <1>4 DEF PollRow
    <2>0. batch \subseteq Nat /\ i \in visible /\ maxID \in Nat /\ i > maxID
      BY <1>0 DEF PollInv
    <2>2. maxID' = i /\ hand' = i /\ batch' = batch \ {i}
      BY <2>0, <2>1 DEF Takes, Larger
    <2>3. \A j \in batch' : j > i
      BY <2>0, <2>1, <2>2 DEF Takes
    <2>4. UNCHANGED <<kind, visible, late, pos, sent, reader>> /\ reader = "run" /\ hand = None
      BY <1>4 DEF PollRow
    <2>5. \A k \in visible \ late : k > pos /\ k <= i => k \in sent \cup {i}
      BY <1>0, <2>0, <2>1, <2>4 DEF PollInv, Takes
    <2>6. \A k \in visible \ late, j \in batch' : k > pos /\ k > i /\ k <= j => k \in batch'
      BY <1>0, <2>0, <2>2, <2>4 DEF PollInv
    <2> QED
      BY <1>0, <2>0, <2>2, <2>3, <2>4, <2>5, <2>6 DEF PollInv
  <1>5. CASE PollEnds
    <2>1. maxID \in Nat /\ pos' = Larger(pos, maxID) /\ maxID' = NoPoll /\ reader = "run" /\ hand = None /\ batch = {}
      BY <1>5 DEF PollEnds, PollInv
    <2>2. UNCHANGED <<kind, visible, late, batch, hand, sent, reader>>
      BY <1>5 DEF PollEnds
    <2>3. \A i \in visible \ late : i <= pos' => i \in sent
      BY <1>0, <2>1 DEF PollInv, Larger
    <2> QED
      BY <1>0, <2>1, <2>2, <2>3 DEF PollInv, Larger
  <1>6. CASE PollFails
    BY <1>0, <1>6 DEF PollFails, PollInv
  <1>7. CASE Send
    BY <1>0, <1>7 DEF Send, PollInv
  <1>8. CASE ReaderEnds
    BY <1>0, <1>8 DEF ReaderEnds, PollInv
  <1>9. CASE Receive \/ processRecord \/ Returns
    BY <1>9 DEF Receive, processRecord, Returns, PollInv
  <1>10. CASE Cancel
    BY <1>10 DEF Cancel, PollInv
  <1>11. CASE Restart
    <2>1. pos' = 0 /\ batch' = {} /\ maxID' = NoPoll /\ hand' = None /\ UNCHANGED <<kind, visible, late>>
      BY <1>11 DEF Restart, Reopened, FlowInv, ConfigInv
    <2> QED
      BY <1>0, <2>1 DEF PollInv
  <1>12. CASE UNCHANGED vars
    BY <1>12 DEF vars, PollInv
  <1>13. ~(ReadMessage \/ Forward \/ readFile \/ SQLRow \/ Page \/ PageItem \/ AutoCommit \/ OnRow \/ ReaderFails)
    BY DEF ReadMessage, Forward, readFile, SQLRow, Page, More, PageItem, AutoCommit, OnRow, ReaderFails, Finite
  <1> QED
    BY <1>1, <1>2, <1>3, <1>4, <1>5, <1>6, <1>7, <1>8, <1>9, <1>10, <1>11, <1>12, <1>13 DEF Next, SourceStep, Run

(* No row at or below lastID is skipped by this process, but for the ones  *)
(* that became visible after a row with a larger id.                       *)
THEOREM NothingIsSkipped == Spec => []NothingSkipped
  <1>1. Init => FlowInv /\ PollInv
    BY InitFlowInv, InitPollInv
  <1>2. FlowInv /\ PollInv /\ [Next]_vars => (FlowInv /\ PollInv)'
    BY NextFlowInv, NextPollInv
  <1>3. PollInv => NothingSkipped
    BY DEF PollInv, NothingSkipped
  <1> QED
    BY <1>1, <1>2, <1>3, PTL DEF Spec

-----------------------------------------------------------------------------
(* kafka, from the earliest offset.  A message below the offset is lost    *)
(* when it is neither finished nor on its way, which happens at a restart, *)
(* and to the message in the hand of a goroutine that ends because it is   *)
(* cancelled: that goroutine has none in its hand when the restart comes.  *)
FromEarliest == kind = "kafka" /\ startOffset = "earliest"

OffsetInv ==
    FromEarliest =>
        /\ pos \in Nat /\ restarts \in Nat
        /\ committed \in Nat \cup {NoOffset} /\ committed <= pos
        /\ Cardinality(Lost) <= restarts * (ChanCap + 2) + 1
        /\ (reader = "run" \/ ~cancelled) => Cardinality(Lost) <= restarts * (ChanCap + 2)

InChannel == {chan[n] : n \in DOMAIN chan}

LEMMA LostIsFinite ==
    ASSUME pos \in Nat
    PROVE  IsFiniteSet(Lost) /\ Cardinality(Lost) \in Nat
  <1>1. IsFiniteSet(1..pos) /\ Lost \subseteq 1..pos
    BY FS_Interval DEF Lost
  <1>2. IsFiniteSet(Lost)
    BY <1>1, FS_Subset
  <1> QED
    BY <1>2, FS_CardinalityType

(* A process has no more on its way than the channel holds, one message in *)
(* the hand of the goroutine and one in that of Run.                       *)
LEMMA InFlightBound ==
    ASSUME FlowInv, kind = "kafka"
    PROVE  /\ IsFiniteSet(InFlight \ {None})
           /\ Cardinality(InFlight \ {None}) <= ChanCap + 2
           /\ hand = None => Cardinality(InFlight \ {None}) <= ChanCap + 1
  <1>1. chan \in Seq(Events) /\ Len(chan) \in Nat /\ Len(chan) <= ChanCap /\ DOMAIN chan = 1..Len(chan)
    BY DEF FlowInv, RecordsInv
  <1>2. chan \in Surjection(1..Len(chan), InChannel)
    BY <1>1 DEF Surjection, InChannel
  <1>3. IsFiniteSet(1..Len(chan)) /\ Cardinality(1..Len(chan)) = Len(chan)
    BY <1>1, FS_Interval
  <1>4. IsFiniteSet(InChannel) /\ Cardinality(InChannel) <= Len(chan)
    BY <1>2, <1>3, FS_Surjection
  <1>5. Cardinality(InChannel) \in Nat
    BY <1>4, FS_CardinalityType
  <1>6. /\ IsFiniteSet(InChannel \cup {cur})
        /\ Cardinality(InChannel \cup {cur}) \in Nat
        /\ Cardinality(InChannel \cup {cur}) <= ChanCap + 1
    <2>1. /\ IsFiniteSet(InChannel \cup {cur})
          /\ Cardinality(InChannel \cup {cur}) \in {Cardinality(InChannel), Cardinality(InChannel) + 1}
      BY <1>4, FS_AddElement
    <2> QED
      BY <1>1, <1>4, <1>5, <2>1, SourceAssumption
  <1>7. /\ IsFiniteSet((InChannel \cup {cur}) \cup {hand})
        /\ Cardinality((InChannel \cup {cur}) \cup {hand}) \in Nat
        /\ Cardinality((InChannel \cup {cur}) \cup {hand}) <= ChanCap + 2
    BY <1>6, FS_AddElement, SourceAssumption
  <1>8. InFlight \ {None} \in SUBSET ((InChannel \cup {cur}) \cup {hand})
    BY DEF InFlight, InChannel
  <1>9. hand = None => InFlight \ {None} \in SUBSET (InChannel \cup {cur})
    BY DEF InFlight, InChannel
  <1>10. /\ IsFiniteSet(InFlight \ {None})
         /\ Cardinality(InFlight \ {None}) <= Cardinality((InChannel \cup {cur}) \cup {hand})
    BY <1>7, <1>8, FS_Subset
  <1>11. hand = None => Cardinality(InFlight \ {None}) <= Cardinality(InChannel \cup {cur})
    BY <1>6, <1>9, FS_Subset
  <1>12. Cardinality(InFlight \ {None}) \in Nat
    BY <1>10, FS_CardinalityType
  <1> QED
    BY <1>6, <1>7, <1>10, <1>11, <1>12, SourceAssumption

LEMMA InitOffsetInv == Init => OffsetInv
  <1> SUFFICES ASSUME Init PROVE OffsetInv
    OBVIOUS
  <1>1. Lost = {} /\ pos = 0 /\ restarts = 0 /\ committed = NoOffset
    BY DEF Init, Lost
  <1>2. Cardinality(Lost) = 0
    BY <1>1, FS_EmptySet
  <1> QED
    BY <1>1, <1>2, SourceAssumption DEF OffsetInv, NoOffset

(* Reading, sending, receiving and processing move a message from one      *)
(* place to the next: none of them loses one.                              *)
LEMMA NoStepLoses ==
    ASSUME FlowInv, OffsetInv, FromEarliest, Next, ~ReaderEnds, ~Restart
    PROVE  /\ pos' \in Nat /\ restarts' = restarts
           /\ committed' \in Nat \cup {NoOffset} /\ committed' <= pos'
           /\ Lost' \subseteq Lost
           /\ (reader' = "run" \/ ~cancelled') => (reader = "run" \/ ~cancelled)
  <1> USE DEF SourceOnly, ConsumerOnly, source, config, upstream, consumer, FromEarliest, NoOffset
  <1> DEFINE places == <<pos, restarts, reader, committed, delivered, hand, cur, chan>>
  <1>0. pos \in Nat /\ committed \in Nat \cup {NoOffset} /\ committed <= pos
    BY DEF OffsetInv
  <1>00. chan \in Seq(Events) /\ (loop # "process" => cur = None)
    BY DEF FlowInv, RecordsInv
  <1>1. CASE UNCHANGED <<places, cancelled>>
    BY <1>0, <1>1 DEF Lost, InFlight
  <1>2. CASE (\E i \in Events : Appears(i) \/ cleanup(i)) \/ Returns
    BY <1>1, <1>2 DEF Appears, cleanup, Returns
  <1>3. CASE Cancel
    <2>1. UNCHANGED places /\ cancelled'
      BY <1>3 DEF Cancel
    <2> QED
      BY <1>0, <2>1 DEF Lost, InFlight
  <1>4. CASE AutoCommit
    <2>1. committed' = pos /\ UNCHANGED <<pos, restarts, reader, delivered, hand, cur, chan, cancelled>>
      BY <1>4 DEF AutoCommit
    <2> QED
      BY <1>0, <2>1 DEF Lost, InFlight
  <1>11. CASE ReaderFails
    BY <1>0, <1>11 DEF ReaderFails, Lost, InFlight
  <1>5. ~PollEnds /\ ~PollFails
    BY DEF PollEnds, PollFails, FlowInv, RecordsInv
  <1>6. CASE ReadMessage
    <2>1. hand = 0 /\ hand' = pos + 1 /\ pos' = pos + 1 /\ UNCHANGED <<cur, chan, delivered, committed, reader, cancelled, restarts>>
      BY <1>6 DEF ReadMessage, None
    <2>2. \A i \in 1..(pos + 1) : i = pos + 1 \/ i \in 1..pos
      BY <1>0
    <2> QED
      BY <1>0, <2>1, <2>2 DEF Lost, InFlight
  <1>7. CASE Send
    <2>1. chan' = Append(chan, hand) /\ hand' = None /\ UNCHANGED <<pos, cur, delivered, committed, reader, cancelled, restarts>>
      BY <1>7 DEF Send
    <2>2. InFlight \subseteq InFlight' \cup {None}
      BY <1>00, <2>1 DEF InFlight
    <2> QED
      BY <1>0, <2>1, <2>2 DEF Lost, None
  <1>8. CASE Receive
    <2>1. chan # <<>> /\ cur = None /\ cur' = Head(chan) /\ chan' = Tail(chan)
      BY <1>00, <1>8 DEF Receive
    <2>2. UNCHANGED <<pos, hand, delivered, committed, reader, cancelled, restarts>>
      BY <1>8 DEF Receive
    <2>3. \A n \in DOMAIN chan : chan[n] = Head(chan) \/ (n - 1 \in DOMAIN Tail(chan) /\ chan[n] = Tail(chan)[n - 1])
      BY <1>00, <2>1
    <2>4. InFlight \subseteq InFlight' \cup {None}
      BY <2>1, <2>2, <2>3 DEF InFlight
    <2> QED
      BY <1>0, <2>2, <2>4 DEF Lost, None
  <1>9. CASE processRecord
    <2>1. delivered' = delivered \cup {cur} /\ UNCHANGED <<pos, hand, chan, committed, reader, cancelled, restarts>>
      BY <1>9 DEF processRecord
    <2> QED
      BY <1>0, <2>1 DEF Lost, InFlight
  <1>10. ~(Poll \/ PollRow \/ Forward \/ readFile \/ SQLRow \/ Page \/ PageItem \/ OnRow)
    BY DEF Poll, PollRow, Forward, readFile, SQLRow, Page, More, PageItem, OnRow
  <1> QED
    BY <1>2, <1>3, <1>4, <1>5, <1>6, <1>7, <1>8, <1>9, <1>10, <1>11 DEF Next, SourceStep, Run

(* What a step of the goroutine that ends, or a restart, may lose.         *)
LEMMA LostGrowsBy ==
    ASSUME pos \in Nat, NEW more, IsFiniteSet(more), Lost' \subseteq Lost \cup more
    PROVE  Cardinality(Lost') \in Nat /\ Cardinality(Lost') <= Cardinality(Lost) + Cardinality(more)
  <1>1. IsFiniteSet(Lost) /\ Cardinality(Lost) \in Nat /\ Cardinality(more) \in Nat
    BY LostIsFinite, FS_CardinalityType
  <1>2. /\ IsFiniteSet(Lost \cup more)
        /\ Cardinality(Lost \cup more) = Cardinality(Lost) + Cardinality(more) - Cardinality(Lost \cap more)
    BY <1>1, FS_Union
  <1>3. Cardinality(Lost \cap more) \in Nat
    BY <1>1, FS_Intersection, FS_CardinalityType
  <1>4. IsFiniteSet(Lost') /\ Cardinality(Lost') <= Cardinality(Lost \cup more)
    BY <1>2, FS_Subset
  <1>5. Cardinality(Lost') \in Nat
    BY <1>4, FS_CardinalityType
  <1> QED
    BY <1>1, <1>2, <1>3, <1>4, <1>5

LEMMA NextOffsetInv == FlowInv /\ OffsetInv /\ [Next]_vars => OffsetInv'
  <1> SUFFICES ASSUME FlowInv, OffsetInv, [Next]_vars PROVE OffsetInv'
    OBVIOUS
  <1> SUFFICES ASSUME FromEarliest PROVE OffsetInv'
    BY ConfigStays DEF OffsetInv, FromEarliest, config
  <1> DEFINE share == ChanCap + 2
  <1>1. pos \in Nat /\ restarts \in Nat /\ share \in Nat /\ restarts * share \in Nat
    BY SourceAssumption DEF OffsetInv
  <1>2. Cardinality(Lost) \in Nat
    BY <1>1, LostIsFinite
  <1>3. CASE UNCHANGED vars
    BY <1>3 DEF vars, config, source, consumer, OffsetInv, FromEarliest, Lost, InFlight
  <1>4. CASE Next /\ ~ReaderEnds /\ ~Restart
    <2>1. Lost' \subseteq Lost /\ pos' \in Nat /\ restarts' = restarts
      BY <1>4, NoStepLoses
    <2>2. Cardinality(Lost') <= Cardinality(Lost) /\ Cardinality(Lost') \in Nat
      BY <1>1, <2>1, LostIsFinite, FS_Subset, FS_CardinalityType
    <2>3. /\ Cardinality(Lost') <= restarts' * share + 1
          /\ (reader' = "run" \/ ~cancelled') => Cardinality(Lost') <= restarts' * share
      BY <1>1, <1>2, <1>4, <2>1, <2>2, NoStepLoses DEF OffsetInv
    <2> QED
      BY <1>4, <2>1, <2>3, NoStepLoses DEF OffsetInv
  <1>5. CASE ReaderEnds
    <2>1. reader = "run" /\ cancelled /\ reader' = "ended" /\ UNCHANGED <<pos, committed, restarts, cancelled, delivered, chan, cur>>
      BY <1>5 DEF ReaderEnds, EndOfInput, Finite, FromEarliest, SourceOnly, consumer
    <2>2. Lost' \subseteq Lost \cup {hand}
      BY <1>5, <2>1 DEF ReaderEnds, Lost, InFlight
    <2>3. Cardinality(Lost') \in Nat /\ Cardinality(Lost') <= Cardinality(Lost) + 1
      BY <1>1, <2>2, LostGrowsBy, FS_Singleton
    <2>4. Cardinality(Lost') <= restarts' * share + 1
      BY <1>1, <1>2, <2>1, <2>3 DEF OffsetInv
    <2> QED
      BY <2>1, <2>4 DEF OffsetInv
  <1>6. CASE Restart
    <2>1. Offset \in Nat \cup {NoOffset} /\ Offset <= pos
      BY <1>1 DEF Offset, OffsetInv, NoOffset
    <2>2. /\ pos' = (IF Offset = NoOffset THEN 0 ELSE Offset)
          /\ committed' = Offset /\ restarts' = restarts + 1
          /\ hand' = None /\ cur' = None /\ chan' = <<>> /\ delivered' = delivered
      <3>1. Reopened(Offset) = IF Offset = NoOffset THEN 0 ELSE Offset
        BY DEF Reopened, FromEarliest
      <3> QED
        BY <1>6, <3>1 DEF Restart
    <2>3. pos' \in Nat /\ pos' <= pos /\ committed' <= pos'
      BY <1>1, <2>1, <2>2 DEF NoOffset
    <2>4. Lost' \subseteq Lost \cup (InFlight \ {None})
      BY <1>1, <2>2, <2>3 DEF Lost, None
    <2>5. /\ IsFiniteSet(InFlight \ {None})
          /\ Cardinality(InFlight \ {None}) <= share
          /\ hand = None => Cardinality(InFlight \ {None}) <= share - 1
      BY InFlightBound, SourceAssumption DEF FromEarliest
    <2>6. Cardinality(Lost') \in Nat /\ Cardinality(Lost') <= Cardinality(Lost) + Cardinality(InFlight \ {None})
      BY <1>1, <2>4, <2>5, LostGrowsBy
    <2>7. Cardinality(InFlight \ {None}) \in Nat
      BY <2>5, FS_CardinalityType
    <2>8. Cardinality(Lost') <= restarts * share + share
      <3>1. CASE reader = "run"
        BY <1>1, <1>2, <2>5, <2>6, <2>7, <3>1 DEF OffsetInv
      <3>2. CASE reader # "run"
        <4>1. hand = None
          BY <3>2 DEF FlowInv, RecordsInv, FromEarliest
        <4> QED
          BY <1>1, <1>2, <2>5, <2>6, <2>7, <4>1 DEF OffsetInv
      <3> QED
        BY <3>1, <3>2
    <2>9. restarts * share + share = restarts' * share
      BY <1>1, <2>2
    <2>10. restarts' * share \in Nat
      BY <1>1, <2>9
    <2> QED
      BY <1>1, <2>1, <2>2, <2>3, <2>6, <2>8, <2>9, <2>10 DEF OffsetInv
  <1> QED
    BY <1>3, <1>4, <1>5, <1>6

(* A stop or a crash, and the restart after it, lose at most the capacity  *)
(* of the channel and two messages.                                        *)
THEOREM LossIsBounded == Spec => []LossBounded
  <1>1. Init => FlowInv /\ OffsetInv
    BY InitFlowInv, InitOffsetInv
  <1>2. FlowInv /\ OffsetInv /\ [Next]_vars => (FlowInv /\ OffsetInv)'
    BY NextFlowInv, NextOffsetInv
  <1>3. OffsetInv => LossBounded
    BY DEF OffsetInv, FromEarliest, LossBounded
  <1> QED
    BY <1>1, <1>2, <1>3, PTL DEF Spec

-----------------------------------------------------------------------------
(* The inductive invariant of the sink's buffer: a process has a batch     *)
(* only while it writes it.                                                *)
SinkInv ==
    /\ pc \in [Procs -> {"mailbox", "waiting", "flush", "write", "done"}]
    /\ buffer \subseteq Records
    /\ taken \in [Procs -> SUBSET Records]
    /\ \A p \in Procs : taken[p] # {} => pc[p] = "write"
    /\ EachInOnePlace

LEMMA SinkInitInv == SinkInit => SinkInv
BY SinkAssumption DEF SinkInit, SinkInv, EachInOnePlace, Procs, Messages

(* A step that leaves every record where it is and moves a process between *)
(* two places that are on the same side of handleData.                     *)
LEMMA SinkGoes ==
    ASSUME SinkInv, NEW p \in Procs, NEW from, NEW to \in {"waiting", "flush", "done"}, Goes(p, from, to),
           p \in Records => (from \in {"mailbox", "waiting"} <=> to \in {"mailbox", "waiting"}),
           taken[p] = {},
           UNCHANGED <<buffer, taken, written, failed>>
    PROVE  SinkInv'
<1>1. pc' = [pc EXCEPT ![p] = to] /\ pc[p] = from
    BY DEF Goes
<1>2. pc' \in [Procs -> {"mailbox", "waiting", "flush", "write", "done"}]
    BY <1>1 DEF SinkInv
<1>3. \A q \in Procs : taken'[q] # {} => pc'[q] = "write"
    BY <1>1 DEF SinkInv
<1>4. \A r \in Records : pc'[r] \in {"mailbox", "waiting"} <=> pc[r] \in {"mailbox", "waiting"}
    BY <1>1 DEF SinkInv, Procs, Messages
<1>5. EachInOnePlace'
    BY <1>4 DEF SinkInv, EachInOnePlace
<1> QED BY <1>2, <1>3, <1>5 DEF SinkInv

(* A record that a worker handles was in no place before. *)
LEMMA SinkHandle ==
    ASSUME SinkInv, NEW r \in Records, handleData(r)
    PROVE  SinkInv'
<1>1. pc[r] = "waiting" /\ r \in Procs
    BY DEF handleData, Goes, Procs, Messages
<1>2. /\ r \notin buffer /\ r \notin written /\ r \notin failed
      /\ \A p \in Procs : r \notin taken[p]
    BY <1>1 DEF SinkInv, EachInOnePlace
<1>3. taken[r] = {}
    BY <1>1 DEF SinkInv
<1>4. PICK to \in {"flush", "done"} : pc' = [pc EXCEPT ![r] = to]
    BY DEF handleData, Goes
<1>5. pc' \in [Procs -> {"mailbox", "waiting", "flush", "write", "done"}]
    BY <1>4 DEF SinkInv
<1>6. taken' = taken /\ written' = written
    BY DEF handleData
<1>7. \A q \in Procs : taken'[q] # {} => pc'[q] = "write"
    BY <1>3, <1>4, <1>6 DEF SinkInv
<1>8. /\ pc'[r] \notin {"mailbox", "waiting"}
      /\ \A s \in Records \ {r} : pc'[s] = pc[s]
    BY <1>1, <1>4 DEF SinkInv, Procs, Messages
<1>9. CASE r \in Bad
  <2>1. failed' = failed \cup {r} /\ buffer' = buffer
      BY <1>9 DEF handleData
  <2>2. EachInOnePlace'
      BY <1>2, <1>6, <1>8, <2>1 DEF SinkInv, EachInOnePlace
  <2> QED BY <1>5, <1>6, <1>7, <2>1, <2>2 DEF SinkInv
<1>10. CASE r \notin Bad
  <2>1. buffer' = buffer \cup {r} /\ failed' = failed
      BY <1>10 DEF handleData
  <2>2. EachInOnePlace'
      BY <1>2, <1>6, <1>8, <2>1 DEF SinkInv, EachInOnePlace
  <2> QED BY <1>5, <1>6, <1>7, <2>1, <2>2 DEF SinkInv
<1> QED BY <1>9, <1>10

(* A flush that takes the buffer has no batch yet, so that none is lost. *)
LEMMA SinkSwap ==
    ASSUME SinkInv, NEW p \in Procs, Swap(p)
    PROVE  SinkInv'
<1>1. pc[p] = "flush"
    BY DEF Swap, Goes
<1>2. taken[p] = {}
    BY <1>1 DEF SinkInv
<1>3. CASE buffer = {}
  <2>1. Goes(p, "flush", After(p)) /\ UNCHANGED <<buffer, taken, written, failed>>
      BY <1>3 DEF Swap
  <2>2. After(p) \in {"waiting", "done"} /\ (p \in Records => After(p) = "done")
      BY SinkAssumption DEF After
  <2> QED BY <2>1, <2>2, <1>2, SinkGoes
<1>4. CASE buffer # {}
  <2>1. /\ pc' = [pc EXCEPT ![p] = "write"] /\ taken' = [taken EXCEPT ![p] = buffer]
        /\ buffer' = {} /\ written' = written /\ failed' = failed
      BY <1>4 DEF Swap, Goes
  <2>2. /\ pc' \in [Procs -> {"mailbox", "waiting", "flush", "write", "done"}]
        /\ buffer' \subseteq Records /\ taken' \in [Procs -> SUBSET Records]
        /\ \A q \in Procs : taken'[q] # {} => pc'[q] = "write"
      BY <2>1 DEF SinkInv
  <2>3. taken'[p] = buffer /\ \A q \in Procs \ {p} : taken'[q] = taken[q]
      BY <2>1 DEF SinkInv
  <2>4. \A r \in Records : pc'[r] \in {"mailbox", "waiting"} <=> pc[r] \in {"mailbox", "waiting"}
      BY <1>1, <2>1 DEF SinkInv, Procs, Messages
  <2>5. \A r : r \in buffer \/ (\E q \in Procs : r \in taken[q]) <=>
               r \in buffer' \/ (\E q \in Procs : r \in taken'[q])
      BY <1>2, <2>1, <2>3
  <2>6. /\ \A q \in Procs : taken'[q] \cap (buffer' \cup written' \cup failed') = {}
        /\ \A q, s \in Procs : q # s => taken'[q] \cap taken'[s] = {}
      BY <2>1, <2>3 DEF SinkInv, EachInOnePlace
  <2>7. EachInOnePlace'
      BY <2>1, <2>4, <2>5, <2>6 DEF SinkInv, EachInOnePlace
  <2> QED BY <2>2, <2>7 DEF SinkInv
<1> QED BY <1>3, <1>4

(* A batch becomes written, or failed, as a whole. *)
LEMMA SinkWrite ==
    ASSUME SinkInv, NEW p \in Procs, Write(p)
    PROVE  SinkInv'
<1>1. pc[p] = "write" /\ pc' = [pc EXCEPT ![p] = After(p)]
    BY DEF Write, Goes
<1>2. After(p) \in {"waiting", "done"} /\ (p \in Records => After(p) = "done")
    BY SinkAssumption DEF After
<1>3. taken' = [taken EXCEPT ![p] = {}] /\ buffer' = buffer
    BY DEF Write
<1>4. /\ written' \cup failed' = (written \cup failed) \cup taken[p]
      /\ \/ written' = written \cup taken[p] /\ failed' = failed
         \/ failed' = failed \cup taken[p] /\ written' = written
    BY DEF Write
<1>5. /\ pc' \in [Procs -> {"mailbox", "waiting", "flush", "write", "done"}]
      /\ buffer' \subseteq Records /\ taken' \in [Procs -> SUBSET Records]
    BY <1>1, <1>2, <1>3 DEF SinkInv
<1>6. taken'[p] = {} /\ \A q \in Procs \ {p} : taken'[q] = taken[q]
    BY <1>3 DEF SinkInv
<1>7. \A q \in Procs : taken'[q] # {} => pc'[q] = "write"
    BY <1>1, <1>6 DEF SinkInv
<1>8. \A r \in Records : pc'[r] \in {"mailbox", "waiting"} <=> pc[r] \in {"mailbox", "waiting"}
    BY <1>1, <1>2 DEF SinkInv, Procs, Messages
<1>9. \A r : r \in written \/ r \in failed \/ (\E q \in Procs : r \in taken[q]) <=>
             r \in written' \/ r \in failed' \/ (\E q \in Procs : r \in taken'[q])
    BY <1>4, <1>6
<1>10. /\ \A q \in Procs : taken'[q] \cap (buffer' \cup written' \cup failed') = {}
       /\ \A q, s \in Procs : q # s => taken'[q] \cap taken'[s] = {}
    BY <1>3, <1>4, <1>6 DEF SinkInv, EachInOnePlace
<1>11. buffer' \cap written' = {} /\ buffer' \cap failed' = {} /\ written' \cap failed' = {}
    BY <1>3, <1>4 DEF SinkInv, EachInOnePlace
<1>12. EachInOnePlace'
    BY <1>3, <1>8, <1>9, <1>10, <1>11 DEF SinkInv, EachInOnePlace
<1> QED BY <1>5, <1>7, <1>12 DEF SinkInv

LEMMA SinkStep ==
    ASSUME SinkInv, [SinkNext]_sinkVars
    PROVE  SinkInv'
<1>0. Messages \subseteq Procs /\ "loop" \in Procs /\ "postStop" \in Procs /\ "flush" \in Procs /\ Records \subseteq Procs
    BY DEF Procs, Messages
<1>1. ASSUME NEW p \in Procs, pc[p] # "write"
      PROVE  taken[p] = {}
    BY <1>1 DEF SinkInv
<1>2. ASSUME NEW m \in Messages, dispatch(m)
      PROVE  SinkInv'
  <2>1. Goes(m, "mailbox", "waiting") /\ UNCHANGED <<buffer, taken, written, failed>>
      BY <1>2 DEF dispatch
  <2>2. taken[m] = {}
      BY <1>0, <1>1, <2>1 DEF Goes
  <2> QED BY <1>0, <2>1, <2>2, SinkGoes
<1>3. ASSUME NEW p \in Procs, flush(p)
      PROVE  SinkInv'
    BY <1>3, SinkSwap, SinkWrite DEF flush
<1>4. ASSUME NEW m \in Messages, handleData(m)
      PROVE  SinkInv'
    BY <1>4, SinkHandle DEF handleData
<1>5. ASSUME handleCommand
      PROVE  SinkInv'
  <2>1. Goes("flush", "waiting", "flush") /\ UNCHANGED <<buffer, taken, written, failed>>
      BY <1>5 DEF handleCommand
  <2>2. taken["flush"] = {}
      BY <1>0, <1>1, <2>1 DEF Goes
  <2>3. "flush" \notin Records
      BY SinkAssumption
  <2> QED BY <1>0, <2>1, <2>2, <2>3, SinkGoes
<1>6. ASSUME flushLoop
      PROVE  SinkInv'
  <2>1. CASE flush("loop")
      BY <1>0, <1>3, <2>1
  <2>2. ASSUME NEW to \in {"flush", "done"}, Goes("loop", "waiting", to),
               UNCHANGED <<buffer, taken, written, failed>>
        PROVE  SinkInv'
    <3>1. taken["loop"] = {}
        BY <1>0, <1>1, <2>2 DEF Goes
    <3>2. "loop" \notin Records
        BY SinkAssumption
    <3> QED BY <1>0, <2>2, <3>1, <3>2, SinkGoes
  <2> QED BY <1>6, <2>1, <2>2 DEF flushLoop
<1>7. ASSUME PostStop
      PROVE  SinkInv'
  <2>1. Goes("postStop", "waiting", "flush") /\ UNCHANGED <<buffer, taken, written, failed>>
      BY <1>7 DEF PostStop
  <2>2. taken["postStop"] = {}
      BY <1>0, <1>1, <2>1 DEF Goes
  <2>3. "postStop" \notin Records
      BY SinkAssumption
  <2> QED BY <1>0, <2>1, <2>2, <2>3, SinkGoes
<1>8. CASE UNCHANGED sinkVars
    BY <1>8 DEF sinkVars, SinkInv, EachInOnePlace
<1>9. CASE SinkNext
    BY <1>9, <1>0, <1>2, <1>3, <1>4, <1>5, <1>6, <1>7 DEF SinkNext, ReceiveMessage
<1> QED BY <1>8, <1>9

(* Every record that the workers of a sink actor have handled is in one    *)
(* place only, for any number of records and any size of the buffer.       *)
THEOREM SinkKeepsRecords == SinkSpec => []EachInOnePlace
<1>1. SinkInv => EachInOnePlace
    BY DEF SinkInv
<1>2. SinkInv /\ [SinkNext]_sinkVars => SinkInv'
    BY SinkStep
<1> QED BY SinkInitInv, <1>1, <1>2, PTL DEF SinkSpec
=============================================================================
