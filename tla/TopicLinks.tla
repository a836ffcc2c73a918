------------------------------ MODULE TopicLinks ------------------------------
(***************************************************************************)
(* The pipelines of a workflow, and the Kafka topics that connect a child  *)
(* pipeline with its parent.  UpdateWorkflow is given a whole new list: it *)
(* creates the topics of new children, and adds a sink to the parent and a *)
(* source to the child; for children that are gone it removes the sink and *)
(* has a goroutine delete the topic.  AddPipelineToWorkflow and            *)
(* RemovePipelineFromWorkflow change the list and nothing else.            *)
(***************************************************************************)
EXTENDS Naturals, FiniteSets

CONSTANTS
    PipelineIds, \* ids of pipelines, numbers above 0
    Shapes,      \* lists clients ask for: id -> [name, parent]
    Clean(_),    \* sanitizeTopicName
    LinkHandlers \* concurrent requests

NoPipeline == 0
Own == <<>>      \* a source that the user has configured

VARIABLES
    list,      \* pipelines_config: id -> [name, parent, source, sinks]
    topics,    \* topics that exist
    created,   \* history: topics that CreateTopic has created
    deletes,   \* topics that a goroutine is going to delete
    linkReq    \* the request each handler is busy with

linkVars == <<list, topics, created, deletes, linkReq>>

LinkIdle == [pc |-> "idle"]
LinkGoes(h, r) == linkReq' = [linkReq EXCEPT ![h] = r]

LinkInit ==
    /\ list = [i \in {} |-> NoPipeline]
    /\ topics = {} /\ created = {} /\ deletes = {}
    /\ linkReq = [h \in LinkHandlers |-> LinkIdle]

(* {slug}_{parent}_to_{child}, cleaned: names may become the same.         *)
GenerateTopicName(l, parent, child) == <<Clean(l[parent].name), Clean(l[child].name)>>

HasParent(l, i) == i \in DOMAIN l /\ l[i].parent # NoPipeline
NewChild(old, new, i) ==
    HasParent(new, i) /\ (i \notin DOMAIN old \/ old[i].parent # new[i].parent)
(* Removed, or moved to another parent, or to none.                        *)
GoneChild(old, new, i) ==
    HasParent(old, i) /\ (i \notin DOMAIN new \/ old[i].parent # new[i].parent)

(* A sink of that name stays as it is. *)
addKafkaSinkToParent(p, child, topic) ==
    IF \E s \in p.sinks : s.to = child THEN p
    ELSE [p EXCEPT !.sinks = @ \cup {[to |-> child, topic |-> topic]}]

removeKafkaSinkFromParent(p, gone) == [p EXCEPT !.sinks = {s \in @ : s.to \notin gone}]

UpdateWorkflow(h, new) ==
    /\ linkReq[h] = LinkIdle
    /\ LinkGoes(h, [pc |-> "link", old |-> list, new |-> new,
                todo |-> {i \in DOMAIN new : NewChild(list, new, i) /\ new[i].parent \in DOMAIN new}])
    /\ UNCHANGED <<list, topics, created, deletes>>

(* The parent's sink, and setKafkaSourceToChild. *)
Linked(new, i, topic) ==
    LET fed == [new EXCEPT ![new[i].parent] = addKafkaSinkToParent(@, new[i].name, topic)]
    IN [fed EXCEPT ![i].source = topic]

(* Content with a topic that exists. *)
CreateTopic(topic) == topics' = topics \cup {topic} /\ created' = created \cup {topic}

(* Variant: a topic that cannot be created is only logged. *)
LinkChild_LogsError(h, i) ==
    /\ linkReq[h].pc = "link" /\ i \in linkReq[h].todo
    /\ LET new == linkReq[h].new
           topic == GenerateTopicName(new, new[i].parent, i)
       IN /\ CreateTopic(topic) \/ UNCHANGED <<topics, created>>
          /\ LinkGoes(h, [linkReq[h] EXCEPT !.new = Linked(new, i, topic), !.todo = @ \ {i}])
    /\ UNCHANGED <<list, deletes>>

(* A new child whose parent is in the list; an error of CreateTopic ends   *)
(* the request.                                                            *)
LinkChild(h, i) ==
    /\ linkReq[h].pc = "link" /\ i \in linkReq[h].todo
    /\ LET new == linkReq[h].new
           topic == GenerateTopicName(new, new[i].parent, i)
       IN \/ /\ CreateTopic(topic)
             /\ LinkGoes(h, [linkReq[h] EXCEPT !.new = Linked(new, i, topic), !.todo = @ \ {i}])
          \/ LinkGoes(h, LinkIdle) /\ UNCHANGED <<topics, created>>
    /\ UNCHANGED <<list, deletes>>

(* The children that are gone, and whose parent was in the old list.       *)
Unlinked(old, new) == {i \in DOMAIN old : GoneChild(old, new, i) /\ old[i].parent \in DOMAIN old}

CleanUp(h) ==
    /\ linkReq[h].pc = "link" /\ linkReq[h].todo = {}
    /\ LET old == linkReq[h].old
           new == linkReq[h].new
           gone == Unlinked(old, new)
       IN /\ deletes' = deletes \cup {GenerateTopicName(old, old[i].parent, i) : i \in gone}
          /\ LinkGoes(h, [pc |-> "save", new |->
                [j \in DOMAIN new |->
                    removeKafkaSinkFromParent(new[j], {old[i].name : i \in {k \in gone : old[k].parent = j}})]])
    /\ UNCHANGED <<list, topics, created>>

(* AddPipelineToWorkflow and RemovePipelineFromWorkflow have read the row  *)
(* and changed their copy of the list.                                     *)
AddPipelineToWorkflow(h, i, p) ==
    /\ linkReq[h] = LinkIdle /\ i \notin DOMAIN list
    /\ LinkGoes(h, [pc |-> "save", new |-> [j \in DOMAIN list \cup {i} |-> IF j = i THEN p ELSE list[j]]])
    /\ UNCHANGED <<list, topics, created, deletes>>

RemovePipelineFromWorkflow(h, i) ==
    /\ linkReq[h] = LinkIdle /\ i \in DOMAIN list
    /\ LinkGoes(h, [pc |-> "save", new |-> [j \in DOMAIN list \ {i} |-> list[j]]])
    /\ UNCHANGED <<list, topics, created, deletes>>

SaveWorkflow(h) ==
    /\ linkReq[h].pc = "save"
    /\ LinkGoes(h, LinkIdle)
    /\ list' = linkReq[h].new \/ UNCHANGED list
    /\ UNCHANGED <<topics, created, deletes>>

(* The goroutine; its error is only logged. *)
DeleteTopic(t) ==
    /\ t \in deletes
    /\ deletes' = deletes \ {t}
    /\ topics' = topics \ {t} \/ UNCHANGED topics
    /\ UNCHANGED <<list, created, linkReq>>

(* What clients ask for: names and parents; what they have read of a       *)
(* pipeline otherwise stays.                                               *)
Fresh(p) == [name |-> p.name, parent |-> p.parent, source |-> Own, sinks |-> {}]
Asked(shape) ==
    [i \in DOMAIN shape |->
        IF i \in DOMAIN list THEN [list[i] EXCEPT !.name = shape[i].name, !.parent = shape[i].parent]
        ELSE Fresh(shape[i])]

LinkNext ==
    \/ \E h \in LinkHandlers :
        \/ \E shape \in Shapes : UpdateWorkflow(h, Asked(shape))
        \/ \E i \in PipelineIds : LinkChild(h, i)
        \/ CleanUp(h) \/ SaveWorkflow(h)
        \/ \E shape \in Shapes : \E i \in DOMAIN shape : AddPipelineToWorkflow(h, i, Fresh(shape[i]))
        \/ \E i \in PipelineIds : RemovePipelineFromWorkflow(h, i)
    \/ \E t \in deletes : DeleteTopic(t)

LinkSpec == LinkInit /\ [][LinkNext]_linkVars

-----------------------------------------------------------------------------
(* A stored pipeline reads from, or writes to, a topic only if that topic  *)
(* was created first: when one of several topics fails, none of the links  *)
(* of the request is stored.                                               *)
LinksWereCreated ==
    \A i \in DOMAIN list :
        /\ list[i].source # Own => list[i].source \in created
        /\ \A s \in list[i].sinks : s.topic \in created
=============================================================================
