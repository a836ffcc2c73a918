--------------------------- MODULE MCControlPlane ---------------------------
(* Parts of the control plane, and of the core behind its endpoints (the   *)
(* provisioners and the filters), that have no state in common: each       *)
(* behaviour is of one of them (subject), the others keep their initial    *)
(* state.                                                                  *)
EXTENDS ProvisioningRequests, Provisioners, DataTypes, Projects, PipelineGraph, TopicLinks, Filters, TLC

CONSTANTS h1, h2, d1, d2, p1, p2, u1, u2, k1, k2

VARIABLE subject

MCOwnerLists == {<<>>, <<u2, u1>>, <<u1, u1>>}

(* Names of nodes: a and a-b are sources, b-c and c transforms, so that    *)
(* the edges a -> b-c and a-b -> c have one id.                            *)
MCSources == {<<"a">>, <<"a", "b">>}
MCTransforms == {<<"b", "c">>, <<"c">>}
MCSinks == {<<"s">>}
Edges == {<<<<"a">>, <<"b", "c">>>>, <<<<"a", "b">>, <<"c">>>>, <<<<"c">>, <<"s">>>>}
BadEdges == {<<<<"s">>, <<"c">>>>, <<<<"c">>, <<"a">>>>, <<<<"c">>, <<"nobody">>>>}
MCEdgeRequests == [add : {{}} \cup {{e} : e \in Edges \cup BadEdges}, remove : {{}, {<<"a", "b", "c">>}}]
MCYamlConfigs == {{}, Edges}

(* A root p and up to two children, whose names differ before they are     *)
(* cleaned.                                                                *)
Cleaned(name) == IF name = "X" THEN "x" ELSE name
Root == 1 :> [name |-> "p", parent |-> 0]
Children(S) == [S -> [name : {"x", "X"}, parent : {0, 1}]]
MCShapes == UNION {{Root @@ f : f \in Children(S)} : S \in SUBSET {2, 3}}

(* Filters of three levels, in groups of one and of two. *)
MCConditions == {Condition(op, <<1>>) : op \in {"eq", "gt", "exists", "notnull", "contains"}}
MCGroups(nodes) ==
    {Group(o, conditions) : o \in {"and", "or"}, conditions \in {<<n>> : n \in nodes} \cup (nodes \X nodes)}
MCRoots ==
    LET low == MCConditions \cup MCGroups(MCConditions) IN low \cup MCGroups(low)

Subjects == {"provisioner", "provisioning", "types", "project", "graph", "links", "filter"}

MCInit ==
    /\ subject \in Subjects
    /\ ProvisionerInit /\ Init /\ TypeInit /\ ProjectInit /\ GraphInit /\ LinkInit
    /\ subject # "graph" => mode = "flat" /\ config = Written({})
    /\ FilterInit
    /\ subject # "filter" => origin = Structured(Condition("eq", <<1>>))

MCNext ==
    /\ UNCHANGED subject
    /\ \/ /\ subject = "provisioner" /\ ProvisionerNext
          /\ UNCHANGED <<vars, typeVars, projectVars, graphVars, linkVars, filterVars>>
       \/ /\ subject = "provisioning" /\ Next
          /\ UNCHANGED <<provisionerVars, typeVars, projectVars, graphVars, linkVars, filterVars>>
       \/ /\ subject = "types" /\ TypeNext
          /\ UNCHANGED <<provisionerVars, vars, projectVars, graphVars, linkVars, filterVars>>
       \/ /\ subject = "project" /\ ProjectNext
          /\ UNCHANGED <<provisionerVars, vars, typeVars, graphVars, linkVars, filterVars>>
       \/ /\ subject = "graph" /\ GraphNext
          /\ UNCHANGED <<provisionerVars, vars, typeVars, projectVars, linkVars, filterVars>>
       \/ /\ subject = "links" /\ LinkNext
          /\ UNCHANGED <<provisionerVars, vars, typeVars, projectVars, graphVars, filterVars>>
       \/ /\ subject = "filter" /\ FilterNext
          /\ UNCHANGED <<provisionerVars, vars, typeVars, projectVars, graphVars, linkVars>>

MCVars == <<subject, provisionerVars, vars, typeVars, projectVars, graphVars, linkVars, filterVars>>
MCSpec == MCInit /\ [][MCNext]_MCVars

(* No definition tells the handlers, or the data types, apart.             *)
Symmetry == Permutations({h1, h2}) \cup Permutations({d1, d2})
=============================================================================
