----------------------------- MODULE Provisioners -----------------------------
(***************************************************************************)
(* pipeline-core's provisioner package: the Manager, its registry and the  *)
(* provisioners that prepare the storage a sink writes to.  Every sink     *)
(* type has one storage object (a topic, table, collection, index or       *)
(* endpoint); several requests may ask for the same one.                   *)
(* A configuration is abstracted to the required field it lacks, if any.   *)
(***************************************************************************)
EXTENDS Naturals

CONSTANTS
    SinkRequests,   \* ids of provisioning requests
    RetryCount      \* retry_count of the REST provisioner

VARIABLES
    provisioning,   \* the request: [sink, external, missing, probe], or NoRequest
    phase,          \* StartProvisioning: "new", "create", "indexes", "store", "returned"
    result,         \* status of the result object, "none", or "error" (no result)
    tries,          \* attempts of validateEndpoint
    pending,        \* keys of pendingResults
    ready           \* storage objects that exist, endpoints that have answered

provisionerVars == <<provisioning, phase, result, tries, pending, ready>>

NoopSinks == {"stub", "file", "stdout"}
ExternalSinks == {"hbase", "hdfs", "s3"}
AutomaticSinks == {"kafka", "sql", "mongodb", "elasticsearch", "rest_api"}
(* Global registers one provisioner for each of these types. *)
Registered == NoopSinks \cup ExternalSinks \cup AutomaticSinks
FinalStatuses == {"completed", "failed"}

NoRequest == [sink |-> "none", external |-> FALSE, missing |-> "none", probe |-> FALSE]

(* The fields that parseConfig of each provisioner requires; every other   *)
(* field has a default.                                                    *)
kafkaFields == {"brokers", "topic_name"}
sqlFields == {"host", "database", "username", "table_name"}
mongodbFields == {"uri", "database", "collection_name"}
elasticsearchFields == {"addresses", "index_name"}
restFields == {"base_url", "endpoint"}
Required ==
    [kafka |-> kafkaFields, sql |-> sqlFields, mongodb |-> mongodbFields,
     elasticsearch |-> elasticsearchFields, rest_api |-> restFields]

Validate(q) == q.sink \in AutomaticSinks => q.missing \notin Required[q.sink]

ProvisionerInit ==
    /\ provisioning = [r \in SinkRequests |-> NoRequest]
    /\ phase = [r \in SinkRequests |-> "new"]
    /\ result = [r \in SinkRequests |-> "none"]
    /\ tries = [r \in SinkRequests |-> 0]
    /\ pending = {}
    /\ ready = {}

Returns(r, status) ==
    /\ phase' = [phase EXCEPT ![r] = "returned"]
    /\ result' = [result EXCEPT ![r] = status]

(* Provision has produced a result that waits for its callback.            *)
Waits(r) ==
    /\ phase' = [phase EXCEPT ![r] = "store"]
    /\ result' = [result EXCEPT ![r] = "pending"]

(* Registry.Get, Validate and the part of Provision before any I/O.  Noop  *)
(* and external provisioners accept every configuration, the others parse  *)
(* it here and again in Provision.                                         *)
ManagerStartProvisioning(r, q) ==
    /\ phase[r] = "new"
    /\ provisioning' = [provisioning EXCEPT ![r] = q]
    /\ IF q.sink \notin Registered \/ ~Validate(q)
       THEN Returns(r, "error")
       ELSE IF q.sink \in NoopSinks THEN Returns(r, "skipped")
       ELSE IF q.sink \in ExternalSinks \/ q.external THEN Waits(r)
       ELSE phase' = [phase EXCEPT ![r] = "create"] /\ UNCHANGED result
    /\ UNCHANGED <<tries, pending, ready>>

Creating(r, sink) == phase[r] = "create" /\ provisioning[r].sink = sink

(* What the storage does with a request to create the object: it is down,  *)
(* it makes the object, it makes it and the answer is lost, or it says     *)
(* that the object exists.                                                 *)
Outcome(sink) == {"down"} \cup IF sink \in ready THEN {"exists"} ELSE {"made", "lost"}

(* Which outcomes are success.  CreateTopics of the Kafka client takes a   *)
(* topic that exists for created, CREATE TABLE has IF NOT EXISTS, and      *)
(* createIndex tests for resource_already_exists_exception.  The test of   *)
(* createCollection compares the driver's error text, "(Name) message",    *)
(* with "NamespaceExists": it never holds, and the request fails.          *)
createTopic == {"made", "exists"}
createTable == {"made", "exists"}
createIndex == {"made", "exists"}
createCollection == {"made"}

(* Provision, once the configuration is parsed.  A MongoDB collection is   *)
(* created first, its indexes after it.                                    *)
Provision(r, sink, successes) ==
    /\ Creating(r, sink)
    /\ \E outcome \in Outcome(sink) :
        /\ ready' = IF outcome \in {"made", "lost"} THEN ready \cup {sink} ELSE ready
        /\ IF outcome \in successes /\ sink = "mongodb"
           THEN phase' = [phase EXCEPT ![r] = "indexes"] /\ UNCHANGED result
           ELSE Returns(r, IF outcome \in successes THEN "completed" ELSE "failed")
    /\ UNCHANGED <<provisioning, tries, pending>>

ProvisionKafka(r) == Provision(r, "kafka", createTopic)
ProvisionSQL(r) == Provision(r, "sql", createTable)
ProvisionElasticsearch(r) == Provision(r, "elasticsearch", createIndex)
ProvisionMongoDB(r) == Provision(r, "mongodb", createCollection)

createIndexes(r) ==
    /\ phase[r] = "indexes"
    /\ \E status \in FinalStatuses : Returns(r, status)
    /\ UNCHANGED <<provisioning, tries, pending, ready>>

(* 2xx is success, and so is 404 when only the base URL is asked.          *)
Accepted(r, answer) == answer = "2xx" \/ (answer = "404" /\ ~provisioning[r].probe)

ProvisionRestAPI(r, answer, atEnd) ==
    /\ Creating(r, "rest_api")
    /\ ready' = IF Accepted(r, answer) THEN ready \cup {"rest_api"} ELSE ready
    /\ tries' = [tries EXCEPT ![r] = @ + 1]
    /\ IF Accepted(r, answer) THEN Returns(r, "completed")
       ELSE IF answer = "denied" THEN Returns(r, "failed")
       ELSE IF tries[r] = RetryCount THEN Returns(r, atEnd)
       ELSE UNCHANGED <<phase, result>>
    /\ UNCHANGED <<provisioning, pending>>

(* One attempt of the loop: 401 and 403 end it, any other answer and no    *)
(* answer are tried again, RetryCount times.                               *)
validateEndpoint(r, answer) == ProvisionRestAPI(r, answer, "failed")

Answers == {"2xx", "404", "denied", "5xx", "unreachable"}

(* The result is entered in pendingResults after Provision has returned.   *)
StorePending(r) ==
    /\ phase[r] = "store"
    /\ pending' = pending \cup {r}
    /\ phase' = [phase EXCEPT ![r] = "returned"]
    /\ UNCHANGED <<provisioning, result, tries, ready>>

(* Variant: every callback closes the request. *)
ManagerCompleteProvisioning_Always(r, status) ==
    /\ r \in pending
    /\ result' = [result EXCEPT ![r] = status]
    /\ pending' = pending \ {r}
    /\ UNCHANGED <<provisioning, phase, tries, ready>>

(* The callback, when it finds a pending result; the caller of             *)
(* StartProvisioning holds the same object.  A callback that finds none is *)
(* refused and changes nothing.                                            *)
ManagerCompleteProvisioning(r, status) ==
    /\ r \in pending
    /\ result' = [result EXCEPT ![r] = status]
    /\ pending' = IF status \in FinalStatuses THEN pending \ {r} ELSE pending
    /\ UNCHANGED <<provisioning, phase, tries, ready>>

CallbackStatuses == {"pending", "in_progress", "completed", "failed", "skipped"}
(* A configuration departs from the complete one of its sink in one field, *)
(* if any.                                                                 *)
SinkConfigs ==
    {q \in [sink : {"unknown", "stub", "s3"} \cup AutomaticSinks, external : BOOLEAN,
            missing : {"none"} \cup UNION {Required[k] : k \in AutomaticSinks}, probe : BOOLEAN] :
        /\ q.external => q.sink \in AutomaticSinks /\ q.missing = "none" /\ ~q.probe
        /\ q.missing # "none" => q.sink \in AutomaticSinks /\ q.missing \in Required[q.sink] /\ ~q.probe
        /\ q.probe => q.sink = "rest_api"}

ProvisionerNext ==
    \E r \in SinkRequests :
        \/ \E q \in SinkConfigs : ManagerStartProvisioning(r, q)
        \/ ProvisionKafka(r) \/ ProvisionSQL(r) \/ ProvisionElasticsearch(r)
        \/ ProvisionMongoDB(r) \/ createIndexes(r)
        \/ \E answer \in Answers : validateEndpoint(r, answer)
        \/ StorePending(r)
        \/ \E status \in CallbackStatuses : ManagerCompleteProvisioning(r, status)

ProvisionerSpec == ProvisionerInit /\ [][ProvisionerNext]_provisionerVars

-----------------------------------------------------------------------------
(* A request that StartProvisioning answered with a pending result is open *)
(* for callbacks exactly until one reports completed or failed: no other   *)
(* status closes it, and no callback is accepted after it.                 *)
PendingTracked ==
    \A r \in SinkRequests :
        (/\ phase[r] = "returned" /\ result[r] # "error"
         /\ provisioning[r].sink \in ExternalSinks \/ provisioning[r].external)
            => (r \in pending <=> result[r] \notin FinalStatuses)

=============================================================================
