---------------------------- MODULE PipelineGraph ----------------------------
(***************************************************************************)
(* A pipeline row of the control plane and the two handlers that change    *)
(* its configuration: PipelineHandler.Update replaces the YAML,            *)
(* GraphHandler.UpdatePipelineGraph changes the connections in it.  Both   *)
(* read the row, change their copy and save all of it.                     *)
(*                                                                         *)
(* A configuration is the links of its nodes, which are the inputs of the  *)
(* nodes in flat mode and their outputs in actor mode, and the set of      *)
(* nodes that still have the settings their author gave them.  A name is   *)
(* the sequence of its parts: <<"a", "b">> is the name a-b.                *)
(***************************************************************************)
EXTENDS Sequences, FiniteSets

CONSTANTS
    Sources, Transforms, Sinks,   \* names of the nodes (actors) of the pipeline
    EdgeRequests,                 \* edges to add, ids to remove: what clients ask for
    YamlConfigs,                  \* sets of edges that clients write in their YAML
    GraphHandlers                 \* concurrent requests

(* An edge has two ends. *)
ASSUME GraphAssumption == \A r \in EdgeRequests : \A e \in r.add : e = <<e[1], e[2]>>

Nodes == Sources \cup Transforms \cup Sinks

VARIABLES
    mode,      \* "flat" or "actor"
    config,    \* the row's config_yaml: [links, settings]
    deleted,   \* the row's deleted_at
    graphReq   \* the request each handler is busy with

graphVars == <<mode, config, deleted, graphReq>>

GraphIdle == [pc |-> "idle"]

EdgesInto(edges, n) == {e \in edges : e[2] = n}
EdgesFrom(edges, n) == {e \in edges : e[1] = n}

Written(edges) ==
    [links |-> [n \in Nodes |-> IF mode = "flat" THEN {e[1] : e \in EdgesInto(edges, n)}
                                ELSE {e[2] : e \in EdgesFrom(edges, n)}],
     settings |-> Nodes]

(* PipelineHandler.Create *)
GraphInit ==
    /\ mode \in {"flat", "actor"}
    /\ \E edges \in YamlConfigs : config = Written(edges)
    /\ deleted = FALSE
    /\ graphReq = [h \in GraphHandlers |-> GraphIdle]

convertFlatToGraph(links) == UNION {{<<i, n>> : i \in links[n]} : n \in Transforms \cup Sinks}
convertActorToGraph(links) == UNION {{<<n, o>> : o \in links[n]} : n \in Nodes}

Graph(c) == IF mode = "flat" THEN convertFlatToGraph(c.links) ELSE convertActorToGraph(c.links)
GetPipelineGraph == Graph(config)

EdgeID(e) == e[1] \o e[2]

isValidConnection(e) == e[1] \in Sources \cup Transforms /\ e[2] \in Transforms \cup Sinks

(* One edge that may not be added refuses the request.  In flat mode the   *)
(* kinds of the nodes must fit, in actor mode both actors must exist.      *)
MayConnect(e) == e[1] \in Nodes /\ e[2] \in Nodes /\ (mode = "flat" => isValidConnection(e))

(* Variant: an edge is entered at its source. *)
applyFlatEdgeChanges_AtSource(links, r) ==
    [n \in Nodes |-> {i \in links[n] \cup {e[2] : e \in EdgesFrom(r.add, n)} : EdgeID(<<i, n>>) \notin r.remove}]

(* Additions come first, then every link with an id that is to be removed  *)
(* goes.                                                                   *)
applyFlatEdgeChanges(links, r) ==
    [n \in Nodes |-> {i \in links[n] \cup {e[1] : e \in EdgesInto(r.add, n)} : EdgeID(<<i, n>>) \notin r.remove}]
applyActorEdgeChanges(links, r) ==
    [n \in Nodes |-> {o \in links[n] \cup {e[2] : e \in EdgesFrom(r.add, n)} : EdgeID(<<n, o>>) \notin r.remove}]

(* The structure the flat YAML is read into has the type and the inputs of *)
(* a node and nothing else; an ActorDefinition has all there is.           *)
Edited(c, r) ==
    IF mode = "flat" THEN [links |-> applyFlatEdgeChanges(c.links, r), settings |-> {}]
    ELSE [links |-> applyActorEdgeChanges(c.links, r), settings |-> c.settings]

UpdatePipelineGraph(h, r) ==
    /\ graphReq[h] = GraphIdle /\ ~deleted
    /\ \A e \in r.add : MayConnect(e)
    /\ graphReq' = [graphReq EXCEPT ![h] = [pc |-> "save", config |-> Edited(config, r)]]
    /\ UNCHANGED <<mode, config, deleted>>

(* PipelineHandler.Update: a request without YAML keeps the copy's.        *)
Update(h, new) ==
    /\ graphReq[h] = GraphIdle /\ ~deleted
    /\ graphReq' = [graphReq EXCEPT ![h] = [pc |-> "save", config |-> new]]
    /\ UNCHANGED <<mode, config, deleted>>

(* Save: when no live row has the id, gorm inserts the copy and on         *)
(* conflict updates all columns: a deleted row is back.                    *)
SavePipeline(h) ==
    /\ graphReq[h] # GraphIdle
    /\ graphReq' = [graphReq EXCEPT ![h] = GraphIdle]
    /\ \/ config' = graphReq[h].config /\ deleted' = FALSE
       \/ UNCHANGED <<config, deleted>>
    /\ UNCHANGED mode

Delete ==
    /\ ~deleted /\ deleted' = TRUE
    /\ UNCHANGED <<mode, config, graphReq>>

GraphNext ==
    \/ \E h \in GraphHandlers :
        \/ \E r \in EdgeRequests : UpdatePipelineGraph(h, r)
        \/ \E edges \in YamlConfigs : Update(h, Written(edges))
        \/ Update(h, config)
        \/ SavePipeline(h)
    \/ Delete

GraphSpec == GraphInit /\ [][GraphNext]_graphVars

-----------------------------------------------------------------------------
(* Whatever was edited before, an edit answers with the graph it has read, *)
(* plus the edges to add, less the ids to remove, whichever way the mode   *)
(* stores edges; in actor mode it changes nothing else.                    *)
EditIsApplied ==
    \A r \in EdgeRequests : (\A e \in r.add : MayConnect(e)) =>
        /\ Graph(Edited(config, r)) = {e \in Graph(config) \cup r.add : EdgeID(e) \notin r.remove}
        /\ mode = "actor" => Edited(config, r).settings = config.settings
=============================================================================
