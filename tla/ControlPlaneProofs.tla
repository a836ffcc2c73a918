-------------------------- MODULE ControlPlaneProofs --------------------------
(***************************************************************************)
(* The parts of the control plane that MCControlPlane checks on a small    *)
(* instance, for any number of requests, rows, handlers and names.         *)
(***************************************************************************)
EXTENDS ProvisioningRequests, Provisioners, DataTypes, Projects, PipelineGraph, TopicLinks,
        FiniteSetTheorems, TLAPS

-----------------------------------------------------------------------------
(* Provisioning requests: one that is over has its result. *)

Pending == [pc : {"result", "save"}, request : Requests, status : Statuses]

(* Beside the property: a callback that is about to save the request has   *)
(* stored the result it is going to report.                                *)
StoredFirst == \A c \in Callbacks : cb[c].pc = "save" => cb[c].status \in results[cb[c].request]

ProvisioningInv ==
    /\ row \in [Requests -> Statuses \cup {"none"}]
    /\ results \in [Requests -> SUBSET Statuses]
    /\ cb \in [Callbacks -> [pc : {"new", "done"}] \cup Pending]
    /\ StoredFirst
    /\ ClosedHasResult

(* What is stored of a request stays: no handler deletes results.          *)
LEMMA ResultsStay ==
    ASSUME ProvisioningInv, NEW c \in Callbacks, CreateResult(c)
    PROVE  /\ results' \in [Requests -> SUBSET Statuses]
           /\ \A r \in Requests : results[r] \subseteq results'[r]
  BY DEF ProvisioningInv, CreateResult, Pending

(* When the row says that provisioning is over, GetProvisioningStatus      *)
(* finds a result that says so, whichever callbacks race and whichever     *)
(* writes the database refuses (ProvisioningHandler.CompleteProvisioning). *)
THEOREM ClosedAlwaysHasResult == Spec => []ClosedHasResult
<1>1. Init => ProvisioningInv
  BY DEF Init, ProvisioningInv, StoredFirst, ClosedHasResult, Closed, Pending
<1>2. ProvisioningInv /\ [Next]_vars => ProvisioningInv'
  <2> SUFFICES ASSUME ProvisioningInv, [Next]_vars PROVE ProvisioningInv'
    OBVIOUS
  <2>1. CASE DeletePipeline
    BY <2>1 DEF DeletePipeline, ProvisioningInv, StoredFirst, ClosedHasResult, StatusShows
  <2>2. ASSUME NEW r \in Requests, StartProvisioning(r) PROVE ProvisioningInv'
    BY <2>2 DEF StartProvisioning, ProvisioningInv, StoredFirst, ClosedHasResult, StatusShows
  <2>3. ASSUME NEW r \in Requests, CreateRequest(r) PROVE ProvisioningInv'
    <3>1. row' = row \/ row' = [row EXCEPT ![r] = "pending"]
      BY <2>3 DEF CreateRequest
    <3>2. UNCHANGED <<results, cb>>
      BY <2>3 DEF CreateRequest
    <3> QED
      BY <3>1, <3>2 DEF ProvisioningInv, StoredFirst, ClosedHasResult, StatusShows, Closed, Statuses
  <2>4. ASSUME NEW c \in Callbacks, NEW r \in Requests, NEW status \in Statuses,
               CompleteProvisioning(c, r, status)
        PROVE  ProvisioningInv'
    <3>1. UNCHANGED <<row, results>>
      BY <2>4 DEF CompleteProvisioning
    <3>2. /\ cb' \in [Callbacks -> [pc : {"new", "done"}] \cup Pending]
          /\ cb'[c].pc # "save" /\ \A d \in Callbacks \ {c} : cb'[d] = cb[d]
      BY <2>4 DEF CompleteProvisioning, ProvisioningInv, Pending
    <3> QED
      BY <3>1, <3>2 DEF ProvisioningInv, StoredFirst, ClosedHasResult, StatusShows
  <2>5. ASSUME NEW c \in Callbacks, CreateResult(c) PROVE ProvisioningInv'
    <3>1. /\ results' \in [Requests -> SUBSET Statuses]
          /\ \A r \in Requests : results[r] \subseteq results'[r]
      BY <2>5, ResultsStay
    <3>2. /\ cb' \in [Callbacks -> [pc : {"new", "done"}] \cup Pending]
          /\ \A d \in Callbacks \ {c} : cb'[d] = cb[d]
      BY <2>5 DEF CreateResult, ProvisioningInv, Pending
    <3>3. cb'[c].pc = "save" => cb'[c].status \in results'[cb'[c].request]
      BY <2>5 DEF CreateResult, ProvisioningInv, Pending
    <3>4. StoredFirst'
      <4> SUFFICES ASSUME NEW d \in Callbacks, cb'[d].pc = "save"
                   PROVE  cb'[d].status \in results'[cb'[d].request]
        BY DEF StoredFirst
      <4>1. CASE d = c
        BY <4>1, <3>3
      <4>2. CASE d # c
        <5>1. cb'[d] = cb[d] /\ cb[d].request \in Requests /\ cb[d].status \in results[cb[d].request]
          BY <4>2, <3>2 DEF ProvisioningInv, StoredFirst, Pending
        <5> QED
          BY <5>1, <3>1
      <4> QED
        BY <4>1, <4>2
    <3>5. row' = row
      BY <2>5 DEF CreateResult
    <3> QED
      BY <3>1, <3>2, <3>4, <3>5 DEF ProvisioningInv, ClosedHasResult, StatusShows
  <2>6. ASSUME NEW c \in Callbacks, SaveRequest(c) PROVE ProvisioningInv'
    <3>1. /\ cb[c].pc = "save" /\ cb[c].request \in Requests /\ cb[c].status \in Statuses
          /\ cb[c].status \in results[cb[c].request]
      BY <2>6 DEF SaveRequest, ProvisioningInv, StoredFirst, Pending
    <3>2. /\ results' = results
          /\ row' = row \/ row' = [row EXCEPT ![cb[c].request] = cb[c].status]
      BY <2>6 DEF SaveRequest
    <3>3. /\ cb' \in [Callbacks -> [pc : {"new", "done"}] \cup Pending]
          /\ cb'[c].pc # "save" /\ \A d \in Callbacks \ {c} : cb'[d] = cb[d]
      BY <2>6 DEF SaveRequest, ProvisioningInv
    <3>4. ClosedHasResult'
      BY <3>1, <3>2 DEF ProvisioningInv, ClosedHasResult, StatusShows
    <3> QED
      BY <3>1, <3>2, <3>3, <3>4 DEF ProvisioningInv, StoredFirst
  <2>7. CASE UNCHANGED vars
    BY <2>7 DEF vars, ProvisioningInv, StoredFirst, ClosedHasResult, StatusShows
  <2> QED
    BY <2>1, <2>2, <2>3, <2>4, <2>5, <2>6, <2>7 DEF Next
<1>3. ProvisioningInv => ClosedHasResult
  BY DEF ProvisioningInv
<1> QED
  BY <1>1, <1>2, <1>3, PTL DEF Spec

-----------------------------------------------------------------------------
(* The provisioning Manager *)

AwaitsCallback(r) == provisioning[r].sink \in ExternalSinks \/ provisioning[r].external

(* A request that waits for its callback creates nothing itself, and its   *)
(* result is not seen before it is entered in pendingResults.              *)
ManagerInv ==
    /\ DOMAIN provisioning = SinkRequests /\ DOMAIN phase = SinkRequests /\ DOMAIN result = SinkRequests
    /\ \A r \in SinkRequests :
        /\ r \in pending => phase[r] = "returned"
        /\ phase[r] = "store" => result[r] = "pending"
        /\ phase[r] \in {"create", "indexes"} => ~AwaitsCallback(r)
    /\ PendingTracked

(* A step of one request that is not waiting for its callback.             *)
LEMMA OtherRequestsKeep ==
    ASSUME ManagerInv, NEW r \in SinkRequests, ~AwaitsCallback(r)', phase[r] # "returned",
           UNCHANGED pending, NEW s, phase' = [phase EXCEPT ![r] = s], s # "store",
           result' = result \/ \E x : result' = [result EXCEPT ![r] = x],
           provisioning' = provisioning \/ \E q : provisioning' = [provisioning EXCEPT ![r] = q]
    PROVE  ManagerInv'
<1>1. /\ DOMAIN provisioning' = SinkRequests /\ DOMAIN phase' = SinkRequests
      /\ DOMAIN result' = SinkRequests
  BY DEF ManagerInv
<1>2. /\ r \notin pending' /\ phase'[r] = s
      /\ \A q \in SinkRequests : q # r => provisioning'[q] = provisioning[q] /\ phase'[q] = phase[q]
                                                            /\ result'[q] = result[q]
  BY DEF ManagerInv
<1>3. \A q \in SinkRequests : q # r => (AwaitsCallback(q)' <=> AwaitsCallback(q))
  BY <1>2 DEF AwaitsCallback
<1>4. \A q \in SinkRequests :
        /\ q \in pending' => phase'[q] = "returned"
        /\ phase'[q] = "store" => result'[q] = "pending"
        /\ phase'[q] \in {"create", "indexes"} => ~AwaitsCallback(q)'
  BY <1>2, <1>3 DEF ManagerInv
<1>5. PendingTracked'
  BY <1>2, <1>3 DEF ManagerInv, PendingTracked, AwaitsCallback
<1> QED
  BY <1>1, <1>4, <1>5 DEF ManagerInv

(* A request that was answered with a pending result is open for callbacks *)
(* exactly until one reports completed or failed                           *)
(* (Manager.StartProvisioning, CompleteProvisioning), for any requests.    *)
THEOREM PendingAlwaysTracked == ProvisionerSpec => []PendingTracked
<1>1. ProvisionerInit => ManagerInv
  BY DEF ProvisionerInit, ManagerInv, PendingTracked
<1>2. ManagerInv /\ [ProvisionerNext]_provisionerVars => ManagerInv'
  <2> SUFFICES ASSUME ManagerInv, [ProvisionerNext]_provisionerVars PROVE ManagerInv'
    OBVIOUS
  <2>1. ASSUME NEW r \in SinkRequests, NEW q \in SinkConfigs, ManagerStartProvisioning(r, q)
        PROVE  ManagerInv'
    <3>1. /\ provisioning' = [provisioning EXCEPT ![r] = q] /\ pending' = pending /\ r \notin pending
          /\ DOMAIN provisioning' = SinkRequests /\ provisioning'[r] = q
          /\ \A x \in SinkRequests : x # r => provisioning'[x] = provisioning[x]
      BY <2>1 DEF ManagerStartProvisioning, ManagerInv
    <3>2. \A x \in SinkRequests : x # r => (AwaitsCallback(x)' <=> AwaitsCallback(x))
      BY <3>1 DEF AwaitsCallback
    <3>3. \/ phase' = [phase EXCEPT ![r] = "returned"] /\ result' = [result EXCEPT ![r] = "error"]
          \/ /\ phase' = [phase EXCEPT ![r] = "returned"] /\ result' = [result EXCEPT ![r] = "skipped"]
             /\ q.sink \in NoopSinks
          \/ phase' = [phase EXCEPT ![r] = "store"] /\ result' = [result EXCEPT ![r] = "pending"]
          \/ /\ phase' = [phase EXCEPT ![r] = "create"] /\ result' = result
             /\ ~AwaitsCallback(r)'
      BY <2>1, <3>1 DEF ManagerStartProvisioning, Returns, Waits, AwaitsCallback
    <3>4. q.sink \in NoopSinks => q.sink \notin ExternalSinks /\ ~q.external
      <4>1. q.sink \in {"unknown", "stub", "s3"} \cup AutomaticSinks /\ (q.external => q.sink \in AutomaticSinks)
        BY DEF SinkConfigs
      <4> QED
        BY <4>1 DEF AutomaticSinks, NoopSinks, ExternalSinks
    <3>5. /\ DOMAIN phase' = SinkRequests /\ DOMAIN result' = SinkRequests
          /\ \A x \in SinkRequests : x # r => phase'[x] = phase[x] /\ result'[x] = result[x]
          /\ phase'[r] = "store" => result'[r] = "pending"
          /\ phase'[r] \in {"create", "indexes"} => ~AwaitsCallback(r)'
          /\ phase'[r] = "returned" /\ AwaitsCallback(r)' => result'[r] = "error"
      BY <3>1, <3>3, <3>4 DEF ManagerInv, AwaitsCallback
    <3>6. PendingTracked'
      BY <3>1, <3>2, <3>5 DEF ManagerInv, PendingTracked, AwaitsCallback
    <3> QED
      BY <3>1, <3>2, <3>5, <3>6 DEF ManagerInv
  <2>2. ASSUME NEW r \in SinkRequests, NEW sink, NEW successes, Provision(r, sink, successes)
        PROVE  ManagerInv'
    <3>1. /\ provisioning' = provisioning /\ pending' = pending /\ phase[r] = "create"
          /\ \/ phase' = [phase EXCEPT ![r] = "indexes"] /\ result' = result
             \/ phase' = [phase EXCEPT ![r] = "returned"] /\ \E x : result' = [result EXCEPT ![r] = x]
      BY <2>2 DEF Provision, Creating, Returns
    <3>2. ~AwaitsCallback(r)'
      BY <3>1 DEF ManagerInv, AwaitsCallback
    <3> QED
      BY <3>1, <3>2, OtherRequestsKeep
  <2>3. ASSUME NEW r \in SinkRequests, createIndexes(r) PROVE ManagerInv'
    <3>1. /\ provisioning' = provisioning /\ pending' = pending /\ phase[r] = "indexes"
          /\ phase' = [phase EXCEPT ![r] = "returned"] /\ \E x : result' = [result EXCEPT ![r] = x]
      BY <2>3 DEF createIndexes, Returns
    <3>2. ~AwaitsCallback(r)'
      BY <3>1 DEF ManagerInv, AwaitsCallback
    <3> QED
      BY <3>1, <3>2, OtherRequestsKeep
  <2>4. ASSUME NEW r \in SinkRequests, NEW answer \in Answers, validateEndpoint(r, answer) PROVE ManagerInv'
    <3>1. /\ provisioning' = provisioning /\ pending' = pending /\ phase[r] = "create"
          /\ \/ phase' = [phase EXCEPT ![r] = "returned"] /\ \E x : result' = [result EXCEPT ![r] = x]
             \/ phase' = phase /\ result' = result
      BY <2>4 DEF validateEndpoint, ProvisionRestAPI, Creating, Returns
    <3>2. ~AwaitsCallback(r)'
      BY <3>1 DEF ManagerInv, AwaitsCallback
    <3>3. CASE phase' = phase /\ result' = result
      BY <3>1, <3>3 DEF ManagerInv, PendingTracked, AwaitsCallback
    <3> QED
      BY <3>1, <3>2, <3>3, OtherRequestsKeep
  <2>5. ASSUME NEW r \in SinkRequests, StorePending(r) PROVE ManagerInv'
    BY <2>5 DEF StorePending, ManagerInv, PendingTracked, AwaitsCallback, FinalStatuses
  <2>6. ASSUME NEW r \in SinkRequests, NEW status \in CallbackStatuses,
               ManagerCompleteProvisioning(r, status)
        PROVE  ManagerInv'
    BY <2>6 DEF ManagerCompleteProvisioning, ManagerInv, PendingTracked, AwaitsCallback, FinalStatuses
  <2>7. CASE UNCHANGED provisionerVars
    BY <2>7 DEF provisionerVars, ManagerInv, PendingTracked, AwaitsCallback
  <2> QED
    BY <2>1, <2>2, <2>3, <2>4, <2>5, <2>6, <2>7
       DEF ProvisionerNext, ProvisionKafka, ProvisionSQL, ProvisionElasticsearch, ProvisionMongoDB
<1>3. ManagerInv => PendingTracked
  BY DEF ManagerInv
<1> QED
  BY <1>1, <1>2, <1>3, PTL DEF ProvisionerSpec

-----------------------------------------------------------------------------
(* PipelineGraph: an edit of the graph.                                    *)

(* The edges of a configuration in flat mode are read at their targets ... *)
LEMMA FlatEdges ==
  ASSUME NEW links, NEW e
  PROVE  e \in convertFlatToGraph(links) <=> \E n \in Transforms \cup Sinks : \E i \in links[n] : e = <<i, n>>
<1>1. ASSUME e \in convertFlatToGraph(links)
      PROVE  \E n \in Transforms \cup Sinks : \E i \in links[n] : e = <<i, n>>
  BY <1>1, Zenon DEF convertFlatToGraph
<1>2. ASSUME NEW n \in Transforms \cup Sinks, NEW i \in links[n], e = <<i, n>>
      PROVE  e \in convertFlatToGraph(links)
  <2>1. e \in {<<j, n>> : j \in links[n]}
    BY <1>2
  <2>2. {<<j, n>> : j \in links[n]} \in {{<<j, m>> : j \in links[m]} : m \in Transforms \cup Sinks}
    OBVIOUS
  <2> QED
    BY <2>1, <2>2, Zenon DEF convertFlatToGraph
<1> QED
  BY <1>1, <1>2

(* ... and in actor mode at their sources.                                 *)
LEMMA ActorEdges ==
  ASSUME NEW links, NEW e
  PROVE  e \in convertActorToGraph(links) <=> \E n \in Nodes : \E o \in links[n] : e = <<n, o>>
<1>1. ASSUME e \in convertActorToGraph(links)
      PROVE  \E n \in Nodes : \E o \in links[n] : e = <<n, o>>
  BY <1>1, Zenon DEF convertActorToGraph
<1>2. ASSUME NEW n \in Nodes, NEW o \in links[n], e = <<n, o>>
      PROVE  e \in convertActorToGraph(links)
  <2>1. e \in {<<n, j>> : j \in links[n]}
    BY <1>2
  <2>2. {<<n, j>> : j \in links[n]} \in {{<<m, j>> : j \in links[m]} : m \in Nodes}
    OBVIOUS
  <2> QED
    BY <2>1, <2>2, Zenon DEF convertActorToGraph
<1> QED
  BY <1>1, <1>2

(* A request of edges that all have two ends and connect nodes of kinds    *)
(* that fit.                                                               *)
MayAdd(r) == \A e \in r.add : MayConnect(e) /\ e = <<e[1], e[2]>>

(* applyFlatEdgeChanges adds and removes the edges that were asked for.    *)
LEMMA FlatEdit ==
  ASSUME NEW links, NEW r, MayAdd(r), mode = "flat"
  PROVE  convertFlatToGraph(applyFlatEdgeChanges(links, r))
           = {e \in convertFlatToGraph(links) \cup r.add : EdgeID(e) \notin r.remove}
<1> DEFINE new == applyFlatEdgeChanges(links, r)
<1>1. \A n \in Nodes : new[n] = {i \in links[n] \cup {e[1] : e \in EdgesInto(r.add, n)} : EdgeID(<<i, n>>) \notin r.remove}
  BY DEF applyFlatEdgeChanges
<1>2. Transforms \cup Sinks \subseteq Nodes
  BY DEF Nodes
<1> HIDE DEF new
<1>3. ASSUME NEW e, e \in convertFlatToGraph(new)
      PROVE  (e \in convertFlatToGraph(links) \/ e \in r.add) /\ EdgeID(e) \notin r.remove
  <2>1. PICK n \in Transforms \cup Sinks : \E i \in new[n] : e = <<i, n>>
    BY <1>3, FlatEdges
  <2>2. PICK i \in new[n] : e = <<i, n>>
    BY <2>1
  <2>3. i \in links[n] \cup {f[1] : f \in EdgesInto(r.add, n)} /\ EdgeID(<<i, n>>) \notin r.remove
    BY <1>1, <1>2, <2>2
  <2>4. CASE i \in links[n]
    BY <2>2, <2>3, <2>4, FlatEdges
  <2>5. ASSUME NEW f \in EdgesInto(r.add, n), i = f[1] PROVE e \in r.add
    BY <2>2, <2>5 DEF EdgesInto, MayAdd
  <2> QED
    BY <2>2, <2>3, <2>4, <2>5
<1>4. ASSUME NEW e, e \in convertFlatToGraph(links), EdgeID(e) \notin r.remove
      PROVE  e \in convertFlatToGraph(new)
  <2>1. PICK n \in Transforms \cup Sinks : \E i \in links[n] : e = <<i, n>>
    BY <1>4, FlatEdges
  <2>2. PICK i \in links[n] : e = <<i, n>>
    BY <2>1
  <2>3. i \in new[n]
    BY <1>1, <1>2, <1>4, <2>2
  <2> QED
    BY <2>2, <2>3, FlatEdges
<1>5. ASSUME NEW e \in r.add, EdgeID(e) \notin r.remove
      PROVE  e \in convertFlatToGraph(new)
  <2>1. e = <<e[1], e[2]>> /\ e[2] \in Transforms \cup Sinks
    BY DEF MayAdd, MayConnect, isValidConnection
  <2>2. e \in EdgesInto(r.add, e[2])
    BY DEF EdgesInto
  <2>3. EdgeID(<<e[1], e[2]>>) \notin r.remove
    BY <1>5, <2>1
  <2>4. e[1] \in new[e[2]]
    BY <1>1, <1>2, <2>1, <2>2, <2>3
  <2> QED
    BY <2>1, <2>4, FlatEdges
<1>6. convertFlatToGraph(new) = {e \in convertFlatToGraph(links) \cup r.add : EdgeID(e) \notin r.remove}
  BY <1>3, <1>4, <1>5
<1> QED
  BY <1>6 DEF new

(* applyActorEdgeChanges does the same from the other end.                 *)
LEMMA ActorEdit ==
  ASSUME NEW links, NEW r, MayAdd(r)
  PROVE  convertActorToGraph(applyActorEdgeChanges(links, r))
           = {e \in convertActorToGraph(links) \cup r.add : EdgeID(e) \notin r.remove}
<1> DEFINE new == applyActorEdgeChanges(links, r)
<1>1. \A n \in Nodes : new[n] = {o \in links[n] \cup {e[2] : e \in EdgesFrom(r.add, n)} : EdgeID(<<n, o>>) \notin r.remove}
  BY DEF applyActorEdgeChanges
<1> HIDE DEF new
<1>2. ASSUME NEW e, e \in convertActorToGraph(new)
      PROVE  (e \in convertActorToGraph(links) \/ e \in r.add) /\ EdgeID(e) \notin r.remove
  <2>1. PICK n \in Nodes : \E o \in new[n] : e = <<n, o>>
    BY <1>2, ActorEdges
  <2>2. PICK o \in new[n] : e = <<n, o>>
    BY <2>1
  <2>3. o \in links[n] \cup {f[2] : f \in EdgesFrom(r.add, n)} /\ EdgeID(<<n, o>>) \notin r.remove
    BY <1>1, <2>2
  <2>4. CASE o \in links[n]
    BY <2>2, <2>3, <2>4, ActorEdges
  <2>5. ASSUME NEW f \in EdgesFrom(r.add, n), o = f[2] PROVE e \in r.add
    BY <2>2, <2>5 DEF EdgesFrom, MayAdd
  <2> QED
    BY <2>2, <2>3, <2>4, <2>5
<1>3. ASSUME NEW e, e \in convertActorToGraph(links), EdgeID(e) \notin r.remove
      PROVE  e \in convertActorToGraph(new)
  <2>1. PICK n \in Nodes : \E o \in links[n] : e = <<n, o>>
    BY <1>3, ActorEdges
  <2>2. PICK o \in links[n] : e = <<n, o>>
    BY <2>1
  <2>3. o \in new[n]
    BY <1>1, <1>3, <2>2
  <2> QED
    BY <2>2, <2>3, ActorEdges
<1>4. ASSUME NEW e \in r.add, EdgeID(e) \notin r.remove
      PROVE  e \in convertActorToGraph(new)
  <2>1. e = <<e[1], e[2]>> /\ e[1] \in Nodes
    BY DEF MayAdd, MayConnect
  <2>2. e \in EdgesFrom(r.add, e[1])
    BY DEF EdgesFrom
  <2>3. EdgeID(<<e[1], e[2]>>) \notin r.remove
    BY <1>4, <2>1
  <2>4. e[2] \in new[e[1]]
    BY <1>1, <2>1, <2>2, <2>3
  <2> QED
    BY <2>1, <2>4, ActorEdges
<1>5. convertActorToGraph(new) = {e \in convertActorToGraph(links) \cup r.add : EdgeID(e) \notin r.remove}
  BY <1>2, <1>3, <1>4
<1> QED
  BY <1>5 DEF new

(* Whatever was edited before, an edit answers with the graph it has read, *)
(* plus the edges to add, less the ids to remove, and in actor mode        *)
(* changes nothing else (GraphHandler.UpdatePipelineGraph), for any nodes, *)
(* requests and handlers.                                                  *)
THEOREM EditIsAlwaysApplied == GraphSpec => []EditIsApplied
<1>1. EditIsApplied
  <2> SUFFICES ASSUME NEW r \in EdgeRequests, \A e \in r.add : MayConnect(e)
               PROVE  /\ Graph(Edited(config, r)) = {e \in Graph(config) \cup r.add : EdgeID(e) \notin r.remove}
                      /\ mode = "actor" => Edited(config, r).settings = config.settings
    BY DEF EditIsApplied
  <2>1. MayAdd(r)
    BY GraphAssumption DEF MayAdd
  <2>2. CASE mode = "flat"
    <3>1. Edited(config, r).links = applyFlatEdgeChanges(config.links, r)
      BY <2>2 DEF Edited
    <3> QED
      BY <2>1, <2>2, <3>1, FlatEdit DEF Graph
  <2>3. CASE mode # "flat"
    <3>1. /\ Edited(config, r).links = applyActorEdgeChanges(config.links, r)
          /\ Edited(config, r).settings = config.settings
      BY <2>3 DEF Edited
    <3> QED
      BY <2>1, <2>3, <3>1, ActorEdit DEF Graph
  <2> QED
    BY <2>2, <2>3
<1> QED
  BY <1>1, PTL

-----------------------------------------------------------------------------
(* Projects: the owner of a project.                                       *)

HasOneOwner(o) == Cardinality({u \in DOMAIN o : o[u] = "owner"}) = 1

(* What the transactions of requests under way will write.                 *)
RequestGood(r) ==
    /\ r.pc = "create" => r.list \in Seq(Users) /\ r.list # <<>>
    /\ r.pc = "save" => r.id \in ProjectRows /\ r.list \in Seq(Users)
    /\ r.pc = "delete" => r.id \in ProjectRows

(* The inductive invariant: owners are registered for rows, and requests   *)
(* write to rows that stay.                                                *)
OwnersInv ==
    /\ DOMAIN owners = ProjectRows
    /\ \A p \in ProjectRows : HasOneOwner(owners[p])
    /\ DOMAIN projectReq = ProjectHandlers
    /\ \A h \in ProjectHandlers : RequestGood(projectReq[h])

(* The first of a list is the one user its rows make an owner.             *)
LEMMA OwnerRowsHaveOne ==
  ASSUME NEW l \in Seq(Users), l # <<>>
  PROVE  HasOneOwner(OwnerRows(l))
<1> DEFINE o == OwnerRows(l)
<1>1. 1 \in DOMAIN l
  OBVIOUS
<1>2. DOMAIN o = {l[i] : i \in DOMAIN l} /\ \A u \in DOMAIN o : o[u] = IF u = l[1] THEN "owner" ELSE "maintainer"
  BY DEF OwnerRows
<1>3. l[1] \in DOMAIN o
  BY <1>1, <1>2
<1> HIDE DEF o
<1>4. {u \in DOMAIN o : o[u] = "owner"} = {l[1]}
  BY <1>2, <1>3
<1>5. Cardinality({l[1]}) = 1
  BY FS_Singleton
<1>6. HasOneOwner(o)
  BY <1>4, <1>5 DEF HasOneOwner
<1> QED
  BY <1>6 DEF o

(* A step that leaves the tables alone and goes on with a good request.    *)
LEMMA RequestsKeepOwners ==
  ASSUME OwnersInv, NEW h \in ProjectHandlers, NEW r, ProjectGoes(h, r), RequestGood(r),
         UNCHANGED <<projects, owners>>
  PROVE  OwnersInv'
<1>1. ProjectRows' = ProjectRows /\ owners' = owners
  BY DEF ProjectRows
<1>2. DOMAIN projectReq' = ProjectHandlers /\ projectReq'[h] = r
      /\ \A g \in ProjectHandlers : g # h => projectReq'[g] = projectReq[g]
  BY DEF ProjectGoes, OwnersInv
<1>3. \A x : RequestGood(x) => /\ x.pc = "create" => x.list \in Seq(Users) /\ x.list # <<>>
                               /\ x.pc = "save" => x.id \in ProjectRows' /\ x.list \in Seq(Users)
                               /\ x.pc = "delete" => x.id \in ProjectRows'
  BY <1>1 DEF RequestGood
<1>4. \A g \in ProjectHandlers : RequestGood(projectReq'[g])
  BY <1>2 DEF OwnersInv
<1>5. \A g \in ProjectHandlers : RequestGood(projectReq[g])'
  BY <1>3, <1>4 DEF RequestGood
<1> QED
  BY <1>1, <1>2, <1>5 DEF OwnersInv

(* A step that replies, and adds rows or writes owners of a good list.     *)
LEMMA WritesKeepOwners ==
  ASSUME OwnersInv, NEW h \in ProjectHandlers, ProjectReplies(h),
         ProjectRows \subseteq ProjectRows', DOMAIN owners' = ProjectRows',
         \A p \in ProjectRows' : HasOneOwner(owners'[p])
  PROVE  OwnersInv'
<1>1. DOMAIN projectReq' = ProjectHandlers /\ projectReq'[h] = ProjectIdle
      /\ \A g \in ProjectHandlers : g # h => projectReq'[g] = projectReq[g]
  BY DEF ProjectReplies, ProjectGoes, OwnersInv
<1>2. ASSUME NEW g \in ProjectHandlers PROVE RequestGood(projectReq[g])'
  <2>1. CASE g = h
    BY <1>1, <2>1 DEF RequestGood, ProjectIdle
  <2>2. CASE g # h
    <3>1. projectReq'[g] = projectReq[g] /\ RequestGood(projectReq[g])
      BY <1>1, <2>2 DEF OwnersInv
    <3> QED
      BY <3>1 DEF RequestGood
  <2> QED
    BY <2>1, <2>2
<1> QED
  BY <1>1, <1>2 DEF OwnersInv, HasOneOwner

(* Every project has exactly one owner, also when updates fail half way,   *)
(* race, or bring a deleted project back (ProjectHandler.CreateProject,    *)
(* UpdateProject, DeleteProject), for any projects, users and handlers.    *)
THEOREM AlwaysOneOwner == ProjectSpec => []OneOwner
<1>1. ProjectInit => OwnersInv
  BY DEF ProjectInit, OwnersInv, ProjectRows, RequestGood, ProjectIdle
<1>2. OwnersInv /\ [ProjectNext]_projectVars => OwnersInv'
  <2> SUFFICES ASSUME OwnersInv, [ProjectNext]_projectVars PROVE OwnersInv'
    OBVIOUS
  <2>1. ASSUME NEW h \in ProjectHandlers, NEW k, NEW l \in OwnerLists, CreateProject(h, k, l)
        PROVE  OwnersInv'
    <3> DEFINE given == IF l = <<>> THEN <<Caller>> ELSE l
    <3>1. given \in Seq(Users) /\ given # <<>>
      BY ProjectAssumption
    <3>2. RequestGood([pc |-> "create", key |-> k, list |-> given])
      BY <3>1 DEF RequestGood
    <3> QED
      BY <2>1, <3>2, RequestsKeepOwners DEF CreateProject
  <2>2. ASSUME NEW h \in ProjectHandlers, CreateCommit(h) PROVE OwnersInv'
    <3>1. CASE UNCHANGED <<projects, owners>>
      BY <2>2, <3>1, WritesKeepOwners DEF CreateCommit, OwnersInv, ProjectRows
    <3>2. ASSUME NEW p \in ProjectIds \ ProjectRows, NEW entry,
                 projects' = Put(projects, p, entry),
                 owners' = Put(owners, p, OwnerRows(projectReq[h].list))
          PROVE  OwnersInv'
      <4>1. HasOneOwner(OwnerRows(projectReq[h].list))
        BY <2>2, OwnerRowsHaveOne DEF CreateCommit, OwnersInv, RequestGood
      <4>2. ProjectRows' = ProjectRows \cup {p} /\ DOMAIN owners' = ProjectRows'
        BY <3>2 DEF Put, ProjectRows, OwnersInv
      <4>3. \A q \in ProjectRows' : owners'[q] = IF q = p THEN OwnerRows(projectReq[h].list) ELSE owners[q]
        BY <3>2, <4>2 DEF Put, OwnersInv
      <4>4. \A q \in ProjectRows' : HasOneOwner(owners'[q])
        BY <4>1, <4>2, <4>3 DEF OwnersInv
      <4> QED
        BY <2>2, <4>2, <4>4, WritesKeepOwners DEF CreateCommit
    <3> QED
      BY <2>2, <3>1, <3>2 DEF CreateCommit
  <2>3. ASSUME NEW h \in ProjectHandlers, NEW p \in LiveProjects, NEW k, NEW u, NEW l \in OwnerLists,
               UpdateProject(h, p, k, u, l)
        PROVE  OwnersInv'
    <3>1. PICK entry : ProjectGoes(h, [pc |-> "save", id |-> p, list |-> l, row |-> entry])
      BY <2>3 DEF UpdateProject
    <3>2. RequestGood([pc |-> "save", id |-> p, list |-> l, row |-> entry])
      BY ProjectAssumption DEF RequestGood, LiveProjects
    <3> QED
      BY <2>3, <3>1, <3>2, RequestsKeepOwners DEF UpdateProject
  <2>4. ASSUME NEW h \in ProjectHandlers, UpdateCommit(h) PROVE OwnersInv'
    <3> DEFINE r == projectReq[h]
    <3>1. CASE UNCHANGED <<projects, owners>>
      BY <2>4, <3>1, WritesKeepOwners DEF UpdateCommit, OwnersInv, ProjectRows
    <3>2. CASE /\ Saved(r.id, r.row, r.list)
               /\ owners' = IF r.list = <<>> THEN owners ELSE [owners EXCEPT ![r.id] = OwnerRows(r.list)]
      <4>1. r.list \in Seq(Users)
        BY <2>4 DEF UpdateCommit, OwnersInv, RequestGood
      <4>2. r.list # <<>> => HasOneOwner(OwnerRows(r.list))
        BY <4>1, OwnerRowsHaveOne
      <4>3. ProjectRows' = ProjectRows /\ DOMAIN owners' = ProjectRows'
        BY <3>2 DEF Saved, ProjectRows, OwnersInv
      <4>4. \A q \in ProjectRows' : owners'[q] = owners[q] \/ (r.list # <<>> /\ owners'[q] = OwnerRows(r.list))
        BY <3>2, <4>3 DEF OwnersInv
      <4>5. \A q \in ProjectRows' : HasOneOwner(owners'[q])
        BY <4>2, <4>3, <4>4 DEF OwnersInv
      <4> QED
        BY <2>4, <4>3, <4>5, WritesKeepOwners DEF UpdateCommit
    <3> QED
      BY <2>4, <3>1, <3>2 DEF UpdateCommit
  <2>5. ASSUME NEW h \in ProjectHandlers, NEW p \in LiveProjects, DeleteProject(h, p) PROVE OwnersInv'
    <3>1. RequestGood([pc |-> "delete", id |-> p])
      BY DEF RequestGood, LiveProjects
    <3> QED
      BY <2>5, <3>1, RequestsKeepOwners DEF DeleteProject
  <2>6. ASSUME NEW h \in ProjectHandlers, DeleteRow(h) PROVE OwnersInv'
    <3>1. ProjectRows' = ProjectRows /\ owners' = owners
      BY <2>6 DEF DeleteRow, ProjectRows
    <3> QED
      BY <2>6, <3>1, WritesKeepOwners DEF DeleteRow, OwnersInv
  <2>7. CASE UNCHANGED <<projects, owners, projectReq>>
    BY <2>7 DEF OwnersInv, ProjectRows, RequestGood
  <2> QED
    BY <2>1, <2>2, <2>3, <2>4, <2>5, <2>6, <2>7
    DEF ProjectNext, CreateWorkflow, DeleteWorkflow, projectVars
<1>3. OwnersInv => OneOwner
  BY DEF OwnersInv, OneOwner, HasOneOwner
<1> QED
  BY <1>1, <1>2, <1>3, PTL DEF ProjectSpec

-----------------------------------------------------------------------------
(* TopicLinks: the topics of stored pipelines.                             *)

PipeGood(p, made) ==
    /\ DOMAIN p = {"name", "parent", "source", "sinks"}
    /\ p.source # Own => p.source \in made
    /\ \A s \in p.sinks : s.topic \in made
ListGood(l, made) == \A i \in DOMAIN l : PipeGood(l[i], made)

(* The copy of the list that a request works on.                           *)
CopyGood(r, made) ==
    /\ r.pc = "link" => DOMAIN r = {"pc", "old", "new", "todo"} /\ ListGood(r.new, made)
    /\ r.pc = "save" => ListGood(r.new, made)

(* The inductive invariant: not only the stored list, every copy of it     *)
(* names topics that were created.                                         *)
LinksInv ==
    /\ ListGood(list, created)
    /\ DOMAIN linkReq = LinkHandlers
    /\ \A h \in LinkHandlers : CopyGood(linkReq[h], created)

(* A list stays good when more topics are created.                         *)
LEMMA ListStaysGood ==
  ASSUME NEW l, NEW made, NEW more, made \subseteq more, ListGood(l, made)
  PROVE  ListGood(l, more)
  BY DEF ListGood, PipeGood

LEMMA CopyStaysGood ==
  ASSUME NEW r, NEW made, NEW more, made \subseteq more, CopyGood(r, made)
  PROVE  CopyGood(r, more)
  BY ListStaysGood DEF CopyGood

(* A step in which topics may be created, a handler goes on with a good    *)
(* copy, and a good list may be stored.                                    *)
LEMMA GoodCopiesKeep ==
  ASSUME LinksInv, NEW h \in LinkHandlers, NEW r, LinkGoes(h, r), created \subseteq created',
         CopyGood(r, created'), list' = list \/ ListGood(list', created')
  PROVE  LinksInv'
<1>1. DOMAIN linkReq' = LinkHandlers /\ linkReq'[h] = r
      /\ \A g \in LinkHandlers : g # h => linkReq'[g] = linkReq[g]
  BY DEF LinkGoes, LinksInv
<1>2. ListGood(list', created')
  BY ListStaysGood DEF LinksInv
<1>3. \A g \in LinkHandlers : CopyGood(linkReq[g], created')
  BY CopyStaysGood DEF LinksInv
<1>4. \A g \in LinkHandlers : CopyGood(linkReq'[g], created')
  BY <1>1, <1>3
<1> QED
  BY <1>1, <1>2, <1>4 DEF LinksInv

LEMMA IdleIsGood ==
  ASSUME NEW made PROVE CopyGood(LinkIdle, made)
  BY DEF CopyGood, LinkIdle

(* addKafkaSinkToParent and setKafkaSourceToChild with a created topic.    *)
LEMMA LinkedIsGood ==
  ASSUME NEW new, NEW i, NEW topic, NEW made, ListGood(new, made), topic \in made
  PROVE  ListGood(Linked(new, i, topic), made)
<1> DEFINE par == new[i].parent
           fed == [new EXCEPT ![par] = addKafkaSinkToParent(@, new[i].name, topic)]
           end == [fed EXCEPT ![i].source = topic]
<1>1. ASSUME NEW p, NEW child, PipeGood(p, made) PROVE PipeGood(addKafkaSinkToParent(p, child, topic), made)
  <2>1. CASE \E s \in p.sinks : s.to = child
    BY <1>1, <2>1 DEF addKafkaSinkToParent
  <2>2. CASE ~ \E s \in p.sinks : s.to = child
    <3> DEFINE q == [p EXCEPT !.sinks = @ \cup {[to |-> child, topic |-> topic]}]
    <3>1. DOMAIN q = DOMAIN p /\ q.source = p.source /\ q.sinks = p.sinks \cup {[to |-> child, topic |-> topic]}
      BY <1>1 DEF PipeGood
    <3> HIDE DEF q
    <3>2. PipeGood(q, made)
      BY <1>1, <3>1 DEF PipeGood
    <3> QED
      BY <2>2, <3>2 DEF addKafkaSinkToParent, q
  <2> QED
    BY <2>1, <2>2
<1>2. DOMAIN fed = DOMAIN new
  OBVIOUS
<1>3. \A j \in DOMAIN new : fed[j] = IF j = par THEN addKafkaSinkToParent(new[j], new[i].name, topic) ELSE new[j]
  OBVIOUS
<1>4. DOMAIN end = DOMAIN fed
  OBVIOUS
<1>5. \A j \in DOMAIN fed : end[j] = IF j = i THEN [fed[j] EXCEPT !.source = topic] ELSE fed[j]
  OBVIOUS
<1> HIDE DEF fed, end, par
<1>6. \A j \in DOMAIN new : PipeGood(fed[j], made)
  BY <1>1, <1>3 DEF ListGood
<1>7. ASSUME NEW p, PipeGood(p, made) PROVE PipeGood([p EXCEPT !.source = topic], made)
  BY <1>7 DEF PipeGood
<1>8. \A j \in DOMAIN end : PipeGood(end[j], made)
  BY <1>2, <1>4, <1>5, <1>6, <1>7
<1> QED
  BY <1>8 DEF ListGood, Linked, fed, end, par

LEMMA FreshIsGood ==
  ASSUME NEW p, NEW made PROVE PipeGood(Fresh(p), made)
  BY DEF PipeGood, Fresh

(* What clients ask for has the links that they have read.                 *)
LEMMA AskedIsGood ==
  ASSUME NEW shape, ListGood(list, created)
  PROVE  ListGood(Asked(shape), created)
<1>1. ASSUME NEW p, NEW n, NEW m, PipeGood(p, created) PROVE PipeGood([p EXCEPT !.name = n, !.parent = m], created)
  <2> DEFINE q == [p EXCEPT !.name = n, !.parent = m]
  <2>1. DOMAIN q = DOMAIN p /\ q.source = p.source /\ q.sinks = p.sinks
    BY <1>1 DEF PipeGood
  <2> HIDE DEF q
  <2>2. PipeGood(q, created)
    BY <1>1, <2>1 DEF PipeGood
  <2> QED
    BY <2>2 DEF q
<1>2. DOMAIN Asked(shape) = DOMAIN shape
  BY DEF Asked
<1>3. \A i \in DOMAIN shape : i \in DOMAIN list =>
        Asked(shape)[i] = [list[i] EXCEPT !.name = shape[i].name, !.parent = shape[i].parent]
  BY DEF Asked
<1>4. \A i \in DOMAIN shape : i \notin DOMAIN list => Asked(shape)[i] = Fresh(shape[i])
  BY DEF Asked
<1>5. ASSUME NEW i \in DOMAIN shape PROVE PipeGood(Asked(shape)[i], created)
  <2>1. CASE i \in DOMAIN list
    <3>1. PipeGood(list[i], created)
      BY <2>1 DEF ListGood
    <3>2. PipeGood([list[i] EXCEPT !.name = shape[i].name, !.parent = shape[i].parent], created)
      BY <1>1, <3>1, Zenon
    <3>3. Asked(shape)[i] = [list[i] EXCEPT !.name = shape[i].name, !.parent = shape[i].parent]
      BY <1>3, <2>1, Zenon
    <3> QED
      BY <3>2, <3>3, Zenon
  <2>2. CASE i \notin DOMAIN list
    BY <1>4, <2>2, FreshIsGood
  <2> QED
    BY <2>1, <2>2
<1> QED
  BY <1>2, <1>5 DEF ListGood

(* A stored pipeline reads from, or writes to, a topic only if that topic  *)
(* was created first, whichever topics fail and whichever requests race    *)
(* (WorkflowHandler.UpdateWorkflow, AddPipelineToWorkflow,                 *)
(* RemovePipelineFromWorkflow), for any lists, names and handlers.         *)
THEOREM LinksAlwaysCreated == LinkSpec => []LinksWereCreated
<1>1. LinkInit => LinksInv
  BY IdleIsGood DEF LinkInit, LinksInv, ListGood
<1>2. LinksInv /\ [LinkNext]_linkVars => LinksInv'
  <2> SUFFICES ASSUME LinksInv, [LinkNext]_linkVars PROVE LinksInv'
    OBVIOUS
  <2>1. ASSUME NEW h \in LinkHandlers, NEW shape, UpdateWorkflow(h, Asked(shape)) PROVE LinksInv'
    <3>1. PICK todo : LinkGoes(h, [pc |-> "link", old |-> list, new |-> Asked(shape), todo |-> todo])
      BY <2>1 DEF UpdateWorkflow
    <3>2. ListGood(Asked(shape), created)
      BY AskedIsGood DEF LinksInv
    <3>3. CopyGood([pc |-> "link", old |-> list, new |-> Asked(shape), todo |-> todo], created)
      BY <3>2 DEF CopyGood
    <3> QED
      BY <2>1, <3>1, <3>3, GoodCopiesKeep DEF UpdateWorkflow
  <2>2. ASSUME NEW h \in LinkHandlers, NEW i, LinkChild(h, i) PROVE LinksInv'
    <3> DEFINE new == linkReq[h].new
               topic == GenerateTopicName(new, new[i].parent, i)
    <3>1. list' = list /\ CopyGood(linkReq[h], created) /\ linkReq[h].pc = "link"
      BY <2>2 DEF LinkChild, LinksInv
    <3>2. CASE LinkGoes(h, LinkIdle) /\ UNCHANGED <<topics, created>>
      BY <3>1, <3>2, IdleIsGood, GoodCopiesKeep
    <3>3. CASE /\ CreateTopic(topic)
               /\ LinkGoes(h, [linkReq[h] EXCEPT !.new = Linked(new, i, topic), !.todo = @ \ {i}])
      <4> DEFINE r == [linkReq[h] EXCEPT !.new = Linked(new, i, topic), !.todo = @ \ {i}]
      <4>1. created \subseteq created' /\ topic \in created'
        BY <3>3 DEF CreateTopic
      <4>2. ListGood(new, created')
        BY <3>1, <4>1, ListStaysGood DEF CopyGood
      <4>3. ListGood(Linked(new, i, topic), created')
        BY <4>1, <4>2, LinkedIsGood
      <4>4. DOMAIN r = {"pc", "old", "new", "todo"} /\ r.pc = "link" /\ r.new = Linked(new, i, topic)
        BY <3>1 DEF CopyGood
      <4> HIDE DEF r
      <4>5. CopyGood(r, created')
        BY <4>3, <4>4 DEF CopyGood
      <4>6. LinkGoes(h, r)
        BY <3>3 DEF r
      <4> QED
        BY <3>1, <4>1, <4>5, <4>6, GoodCopiesKeep
    <3> QED
      BY <2>2, <3>2, <3>3 DEF LinkChild
  <2>3. ASSUME NEW h \in LinkHandlers, CleanUp(h) PROVE LinksInv'
    <3> DEFINE old == linkReq[h].old
               new == linkReq[h].new
               gone(j) == {old[i].name : i \in {k \in Unlinked(old, new) : old[k].parent = j}}
               kept == [j \in DOMAIN new |-> removeKafkaSinkFromParent(new[j], gone(j))]
    <3>1. ListGood(new, created)
      BY <2>3 DEF CleanUp, LinksInv, CopyGood
    <3>2. LinkGoes(h, [pc |-> "save", new |-> kept])
      BY <2>3 DEF CleanUp
    <3>3. ASSUME NEW p, NEW g, PipeGood(p, created) PROVE PipeGood(removeKafkaSinkFromParent(p, g), created)
      BY <3>3 DEF PipeGood, removeKafkaSinkFromParent
    <3>4. DOMAIN kept = DOMAIN new /\ \A j \in DOMAIN new : kept[j] = removeKafkaSinkFromParent(new[j], gone(j))
      OBVIOUS
    <3> HIDE DEF kept, gone, new
    <3>5. ListGood(kept, created)
      BY <3>1, <3>3, <3>4 DEF ListGood
    <3>6. CopyGood([pc |-> "save", new |-> kept], created)
      BY <3>5 DEF CopyGood
    <3> QED
      BY <2>3, <3>2, <3>6, GoodCopiesKeep DEF CleanUp
  <2>4. ASSUME NEW h \in LinkHandlers, NEW i, NEW p, AddPipelineToWorkflow(h, i, Fresh(p)) PROVE LinksInv'
    <3> DEFINE new == [j \in DOMAIN list \cup {i} |-> IF j = i THEN Fresh(p) ELSE list[j]]
    <3>1. ListGood(new, created)
      BY FreshIsGood DEF LinksInv, ListGood
    <3> HIDE DEF new
    <3>2. CopyGood([pc |-> "save", new |-> new], created)
      BY <3>1 DEF CopyGood
    <3>3. LinkGoes(h, [pc |-> "save", new |-> new]) /\ UNCHANGED <<list, created>>
      BY <2>4 DEF AddPipelineToWorkflow, new
    <3> QED
      BY <3>2, <3>3, GoodCopiesKeep
  <2>5. ASSUME NEW h \in LinkHandlers, NEW i, RemovePipelineFromWorkflow(h, i) PROVE LinksInv'
    <3> DEFINE new == [j \in DOMAIN list \ {i} |-> list[j]]
    <3>1. ListGood(new, created)
      BY DEF LinksInv, ListGood
    <3> HIDE DEF new
    <3>2. CopyGood([pc |-> "save", new |-> new], created)
      BY <3>1 DEF CopyGood
    <3>3. LinkGoes(h, [pc |-> "save", new |-> new]) /\ UNCHANGED <<list, created>>
      BY <2>5 DEF RemovePipelineFromWorkflow, new
    <3> QED
      BY <3>2, <3>3, GoodCopiesKeep
  <2>6. ASSUME NEW h \in LinkHandlers, SaveWorkflow(h) PROVE LinksInv'
    <3>1. LinkGoes(h, LinkIdle) /\ created' = created /\ ListGood(linkReq[h].new, created)
      BY <2>6 DEF SaveWorkflow, LinksInv, CopyGood
    <3>2. list' = list \/ ListGood(list', created')
      BY <2>6, <3>1 DEF SaveWorkflow
    <3> QED
      BY <3>1, <3>2, IdleIsGood, GoodCopiesKeep
  <2>7. CASE UNCHANGED <<list, created, linkReq>>
    BY <2>7 DEF LinksInv
  <2> QED
    BY <2>1, <2>2, <2>3, <2>4, <2>5, <2>6, <2>7 DEF LinkNext, DeleteTopic, linkVars
<1>3. LinksInv => LinksWereCreated
  BY DEF LinksInv, LinksWereCreated, ListGood, PipeGood
<1> QED
  BY <1>1, <1>2, <1>3, PTL DEF LinkSpec

-----------------------------------------------------------------------------
(* DataTypes: the preworks of a new data type.                             *)

TypeReqGood(r) ==
    r.pc \in {"walk", "row", "preworks"} => {"pc", "id"} \subseteq DOMAIN r /\ r.id \in TypeIds

(* The inductive invariant: what is about to become a row has an id.       *)
TypesInv ==
    /\ used \subseteq TypeIds /\ TypeRows \subseteq TypeIds
    /\ DOMAIN want = TypeIds
    /\ DOMAIN typeReq = TypeHandlers
    /\ \A h \in TypeHandlers : TypeReqGood(typeReq[h])
    /\ CreatedWhole

(* A step that goes on with a good request, and keeps the tables whole.    *)
LEMMA TypeRequestsKeep ==
  ASSUME TypesInv, NEW h \in TypeHandlers, NEW r, TypeGoes(h, r), TypeReqGood(r),
         used' \subseteq TypeIds, TypeRows' \subseteq TypeIds, DOMAIN want' = TypeIds, CreatedWhole'
  PROVE  TypesInv'
<1>1. DOMAIN typeReq' = TypeHandlers /\ typeReq'[h] = r
      /\ \A g \in TypeHandlers : g # h => typeReq'[g] = typeReq[g]
  BY DEF TypeGoes, TypesInv
<1>2. \A g \in TypeHandlers : TypeReqGood(typeReq'[g])
  BY <1>1 DEF TypesInv
<1> QED
  BY <1>1, <1>2 DEF TypesInv

LEMMA TypeIdleIsGood == TypeReqGood(TypeIdle)
  BY DEF TypeReqGood, TypeIdle

(* The tables stay whole when no row is added, the history stays and no    *)
(* prework is deleted.                                                     *)
LEMMA TablesKeepWhole ==
  ASSUME TypesInv, TypeRows' = TypeRows, UNCHANGED <<want, dropped>>, Preworks \subseteq Preworks'
  PROVE  CreatedWhole' /\ TypeRows' \subseteq TypeIds /\ DOMAIN want' = TypeIds
  BY DEF TypesInv, CreatedWhole, Prework

(* A data type is seen with all the preworks it was created with, less the *)
(* ones deleted one by one (CreateDataType, DeleteDataType, AddPrework,    *)
(* DeletePrework, ExecutePrework of DataTypeHandler), for any types,       *)
(* handlers, depth and number of preworks.                                 *)
THEOREM AlwaysCreatedWhole == TypeSpec => []CreatedWhole
<1>1. TypeInit => TypesInv
  BY TypeIdleIsGood DEF TypeInit, TypesInv, CreatedWhole, TypeRows
<1>2. TypesInv /\ [TypeNext]_typeVars => TypesInv'
  <2> SUFFICES ASSUME TypesInv, [TypeNext]_typeVars PROVE TypesInv'
    OBVIOUS
  <2>1. ASSUME NEW h \in TypeHandlers, NEW q, NEW n, CreateDataType(h, q, n) PROVE TypesInv'
    <3>1. PICK d \in TypeIds \ used : /\ used' = used \cup {d}
                                     /\ \E r : TypeGoes(h, r) /\ {"pc", "id"} \subseteq DOMAIN r /\ r.id = d
      BY <2>1 DEF CreateDataType
    <3>2. PICK r : TypeGoes(h, r) /\ {"pc", "id"} \subseteq DOMAIN r /\ r.id = d
      BY <3>1
    <3>3. TypeReqGood(r) /\ used' \subseteq TypeIds
      BY <3>1, <3>2 DEF TypeReqGood, TypesInv
    <3>4. TypeRows' = TypeRows /\ UNCHANGED <<want, dropped>> /\ Preworks' = Preworks
      BY <2>1 DEF CreateDataType, TypeRows, Preworks
    <3> QED
      BY <3>2, <3>3, <3>4, TablesKeepWhole, TypeRequestsKeep
  <2>2. ASSUME NEW h \in TypeHandlers, NEW r, TypeGoes(h, r), TypeReqGood(r),
               TypeRows' = TypeRows, UNCHANGED <<used, want, dropped>>, Preworks \subseteq Preworks'
        PROVE  TypesInv'
    <3>1. used' \subseteq TypeIds
      BY <2>2 DEF TypesInv
    <3> QED
      BY <2>2, <3>1, TablesKeepWhole, TypeRequestsKeep
  <2>3. ASSUME NEW h \in TypeHandlers, NEW d \in TypeRows, NEW q, UpdateDataType(h, d, q) PROVE TypesInv'
    <3>1. PICK r : TypeGoes(h, r) /\ {"pc", "id"} \subseteq DOMAIN r /\ r.id = d
      BY <2>3 DEF UpdateDataType
    <3>2. TypeReqGood(r)
      BY <3>1 DEF TypeReqGood, TypesInv
    <3>3. TypeRows' = TypeRows /\ Preworks' = Preworks /\ UNCHANGED <<used, want, dropped>>
      BY <2>3 DEF UpdateDataType, TypeRows, Preworks
    <3> QED
      BY <2>2, <3>1, <3>2, <3>3
  <2>4. ASSUME NEW h \in TypeHandlers, getDataTypeDepth(h) PROVE TypesInv'
    <3> DEFINE r == typeReq[h]
    <3>1. {"pc", "id"} \subseteq DOMAIN r /\ r.id \in TypeIds
      BY <2>4 DEF getDataTypeDepth, TypesInv, TypeReqGood
    <3>2. \/ \E c, d : TypeGoes(h, [r EXCEPT !.cur = c, !.depth = d])
          \/ TypeGoes(h, TypeIdle)
          \/ TypeGoes(h, [r EXCEPT !.pc = r.then, !.cur = NoParent, !.depth = 0])
      BY <2>4 DEF getDataTypeDepth, TypeReplies
    <3>3. \A c, d : TypeReqGood([r EXCEPT !.cur = c, !.depth = d])
      BY <3>1 DEF TypeReqGood
    <3>4. TypeReqGood([r EXCEPT !.pc = r.then, !.cur = NoParent, !.depth = 0])
      BY <3>1 DEF TypeReqGood
    <3>5. PICK x : TypeGoes(h, x) /\ TypeReqGood(x)
      BY <3>2, <3>3, <3>4, TypeIdleIsGood
    <3>6. TypeRows' = TypeRows /\ Preworks' = Preworks /\ UNCHANGED <<used, want, dropped>>
      BY <2>4 DEF getDataTypeDepth, TypeRows, Preworks
    <3> QED
      BY <2>2, <3>5, <3>6
  <2>5. ASSUME NEW h \in TypeHandlers, WriteParent(h) PROVE TypesInv'
    <3>1. TypeGoes(h, TypeIdle) /\ TypeRows' = TypeRows /\ Preworks' = Preworks /\ UNCHANGED <<used, want, dropped>>
      BY <2>5 DEF WriteParent, TypeReplies, TypeRows, Preworks
    <3> QED
      BY <2>2, <3>1, TypeIdleIsGood
  <2>6. ASSUME NEW h \in TypeHandlers, InsertRow(h) \/ InsertPrework(h) PROVE TypesInv'
    <3> DEFINE r == typeReq[h]
    <3>1. {"pc", "id"} \subseteq DOMAIN r /\ r.id \in TypeIds
      BY <2>6 DEF InsertRow, InsertPrework, TypesInv, TypeReqGood
    <3>2. TypeReqGood([r EXCEPT !.pc = "preworks"]) /\ TypeReqGood([r EXCEPT !.staged = @ + 1])
      BY <3>1 DEF TypeReqGood
    <3>3. PICK x : TypeGoes(h, x) /\ TypeReqGood(x)
      BY <2>6, <3>2, TypeIdleIsGood DEF InsertRow, InsertPrework, TypeReplies
    <3>4. TypeRows' = TypeRows /\ Preworks' = Preworks /\ UNCHANGED <<used, want, dropped>>
      BY <2>6 DEF InsertRow, InsertPrework, TypeRows, Preworks
    <3> QED
      BY <2>2, <3>3, <3>4
  <2>7. ASSUME NEW h \in TypeHandlers, Commit(h) PROVE TypesInv'
    <3> DEFINE r == typeReq[h]
               made == {Prework(r.id, i) : i \in 1..r.staged}
    <3>1. r.id \in TypeIds /\ r.staged = r.preworks /\ TypeGoes(h, TypeIdle) /\ UNCHANGED <<used, dropped>>
      BY <2>7 DEF Commit, TypesInv, TypeReqGood, TypeReplies
    <3>2. TypeRows' = TypeRows \cup {r.id} /\ Preworks' = Preworks \cup made
      BY <2>7 DEF Commit, Extend, TypeRows, Preworks
    <3>3. DOMAIN want' = TypeIds /\ want'[r.id] = r.staged /\ \A d \in TypeIds : d # r.id => want'[d] = want[d]
      BY <2>7, <3>1 DEF Commit, TypesInv
    <3>4. ASSUME NEW d \in TypeRows' PROVE {Prework(d, i) : i \in 1..want'[d]} \ dropped' \subseteq Preworks'
      <4>1. CASE d = r.id
        BY <3>2, <3>3, <4>1
      <4>2. CASE d # r.id
        BY <3>1, <3>2, <3>3, <4>2 DEF TypesInv, CreatedWhole
      <4> QED
        BY <4>1, <4>2
    <3>5. CreatedWhole'
      BY <3>4 DEF CreatedWhole, Prework
    <3>6. used' \subseteq TypeIds /\ TypeRows' \subseteq TypeIds
      BY <3>1, <3>2 DEF TypesInv
    <3> QED
      BY <3>1, <3>3, <3>5, <3>6, TypeIdleIsGood, TypeRequestsKeep
  <2>8. ASSUME NEW d \in TypeRows, DeleteDataType(d) PROVE TypesInv'
    <3>1. /\ TypeRows' = TypeRows \ {d} /\ Preworks' = Preworks \ {w \in Preworks : w.type = d}
          /\ UNCHANGED <<used, typeReq>>
      BY <2>8 DEF DeleteDataType, Without, TypeRows, Preworks
    <3>2. DOMAIN want' = TypeIds /\ \A e \in TypeIds : e # d => want'[e] = want[e]
      BY <2>8 DEF DeleteDataType, TypesInv
    <3>3. ASSUME NEW e \in TypeRows' PROVE {Prework(e, i) : i \in 1..want'[e]} \ dropped' \subseteq Preworks'
      <4>1. e # d /\ e \in TypeIds /\ e \in TypeRows /\ want'[e] = want[e]
        BY <3>1, <3>2 DEF TypesInv
      <4>2. ASSUME NEW i \in 1..want[e], Prework(e, i) \notin dropped' PROVE Prework(e, i) \in Preworks'
        <5>1. Prework(e, i).type = e
          BY DEF Prework
        <5>2. Prework(e, i) \notin dropped
          BY <2>8, <4>1, <4>2, <5>1 DEF DeleteDataType
        <5>3. Prework(e, i) \in Preworks
          BY <4>1, <5>2 DEF TypesInv, CreatedWhole
        <5> QED
          BY <3>1, <4>1, <5>1, <5>3
      <4> QED
        BY <4>1, <4>2
    <3>4. CreatedWhole'
      BY <3>3 DEF CreatedWhole, Prework
    <3> QED
      BY <3>1, <3>2, <3>4 DEF TypesInv, TypeReqGood
  <2>9. ASSUME NEW h \in TypeHandlers, NEW d, AddPrework(h, d) PROVE TypesInv'
    <3>1. TypeReqGood([pc |-> "add", id |-> d])
      BY DEF TypeReqGood
    <3>2. /\ TypeGoes(h, [pc |-> "add", id |-> d])
          /\ TypeRows' = TypeRows /\ Preworks' = Preworks /\ UNCHANGED <<used, want, dropped>>
      BY <2>9 DEF AddPrework, TypeRows, Preworks
    <3> QED
      BY <2>2, <3>1, <3>2
  <2>10. ASSUME NEW h \in TypeHandlers, CreatePrework(h) PROVE TypesInv'
    <3>1. TypeGoes(h, TypeIdle) /\ TypeRows' = TypeRows /\ UNCHANGED <<used, want, dropped>>
      BY <2>10 DEF CreatePrework, TypeReplies, TypeRows
    <3>2. Preworks \subseteq Preworks'
      BY <2>10 DEF CreatePrework, Extend, Preworks
    <3> QED
      BY <2>2, <3>1, <3>2, TypeIdleIsGood
  <2>11. ASSUME NEW h \in TypeHandlers, NEW w \in Preworks, ExecutePrework(h, w) PROVE TypesInv'
    <3>1. TypeReqGood([pc |-> "running", prework |-> w])
      BY DEF TypeReqGood
    <3>2. /\ TypeGoes(h, [pc |-> "running", prework |-> w])
          /\ TypeRows' = TypeRows /\ Preworks' = Preworks /\ UNCHANGED <<used, want, dropped>>
      BY <2>11 DEF ExecutePrework, TypeRows, Preworks
    <3> QED
      BY <2>2, <3>1, <3>2
  <2>12. ASSUME NEW h \in TypeHandlers, FinishPrework(h) PROVE TypesInv'
    <3>1. /\ TypeGoes(h, TypeIdle)
          /\ TypeRows' = TypeRows /\ Preworks' = Preworks /\ UNCHANGED <<used, want, dropped>>
      BY <2>12 DEF FinishPrework, TypeReplies, TypeRows, Preworks
    <3> QED
      BY <2>2, <3>1, TypeIdleIsGood
  <2>13. ASSUME NEW w \in Preworks, DeletePrework(w) PROVE TypesInv'
    <3>1. /\ Preworks' = Preworks \ {w} /\ TypeRows' = TypeRows /\ UNCHANGED <<used, want, typeReq>>
      BY <2>13 DEF DeletePrework, Without, Preworks, TypeRows
    <3>2. dropped \subseteq dropped' /\ (w.type \in TypeRows /\ w.n <= want[w.type] => w \in dropped')
      BY <2>13 DEF DeletePrework
    <3>3. ASSUME NEW d \in TypeRows, NEW i \in 1..want[d], Prework(d, i) \notin dropped'
          PROVE  Prework(d, i) \in Preworks'
      <4>1. Prework(d, i).type = d /\ Prework(d, i).n = i
        BY DEF Prework
      <4>2. i <= want[d]
        OBVIOUS
      <4>3. Prework(d, i) # w
        BY <3>2, <3>3, <4>1, <4>2
      <4>4. Prework(d, i) \in Preworks
        BY <3>2, <3>3 DEF TypesInv, CreatedWhole
      <4> QED
        BY <3>1, <4>3, <4>4
    <3>4. CreatedWhole'
      BY <3>1, <3>3 DEF CreatedWhole, Prework
    <3> QED
      BY <3>1, <3>4 DEF TypesInv, TypeReqGood
  <2>14. CASE UNCHANGED typeVars
    BY <2>14 DEF typeVars, TypesInv, TypeReqGood, CreatedWhole, TypeRows, Preworks, Prework
  <2> QED
    BY <2>1, <2>3, <2>4, <2>5, <2>6, <2>7, <2>8, <2>9, <2>10, <2>11, <2>12, <2>13, <2>14 DEF TypeNext
<1>3. TypesInv => CreatedWhole
  BY DEF TypesInv
<1> QED
  BY <1>1, <1>2, <1>3, PTL DEF TypeSpec
=============================================================================
