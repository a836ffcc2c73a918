------------------------------- MODULE Projects -------------------------------
(***************************************************************************)
(* The control plane's projects, their owners and their workflows.         *)
(* Handlers run concurrently: the queries of a handler before its          *)
(* transaction are one step, the transaction another.  A project's name    *)
(* and alias are one key here; description, status, tags and metadata are  *)
(* left out.                                                               *)
(***************************************************************************)
EXTENDS Naturals, Sequences, FiniteSets

CONSTANTS
    ProjectIds,      \* bound: ids of projects, each used once
    ProjectKeys,     \* names (and aliases) of projects
    Users,
    OwnerLists,      \* lists of owners that requests give (sequences of users)
    Caller,          \* the user of the requests
    ProjectHandlers  \* concurrent requests

ASSUME ProjectAssumption == OwnerLists \subseteq Seq(Users) /\ Caller \in Users

Unset == "none"

VARIABLES
    projects,    \* rows: id -> [key, owner, deleted]
    owners,      \* rows of project_owners: id -> [user -> role]
    workflows,   \* projects of the workflows that are there
    projectReq   \* the request each handler is busy with

projectVars == <<projects, owners, workflows, projectReq>>

ProjectRows == DOMAIN projects
LiveProjects == {p \in ProjectRows : ~projects[p].deleted}
ProjectIdle == [pc |-> "idle"]
ProjectGoes(h, r) == projectReq' = [projectReq EXCEPT ![h] = r]
ProjectReplies(h) == ProjectGoes(h, ProjectIdle)
Put(f, x, v) == [y \in DOMAIN f \cup {x} |-> IF y = x THEN v ELSE f[y]]

ProjectInit ==
    /\ projects = [p \in {} |-> Unset] /\ owners = [p \in {} |-> Unset]
    /\ workflows = {}
    /\ projectReq = [h \in ProjectHandlers |-> ProjectIdle]

(* The unique indexes of AutoMigrate also cover rows that were deleted.    *)
KeyFree(k, p) == \A q \in ProjectRows \ {p} : projects[q].key # k

(* The first of the list is the owner, the others are maintainers; a user  *)
(* may be registered once (idx_project_user).                              *)
Distinct(list) == \A i, j \in DOMAIN list : list[i] = list[j] => i = j
OwnerRows(list) ==
    [u \in {list[i] : i \in DOMAIN list} |-> IF u = list[1] THEN "owner" ELSE "maintainer"]

(* The queries see live rows only. *)
CreateProject(h, k, list) ==
    /\ projectReq[h] = ProjectIdle
    /\ \A p \in LiveProjects : projects[p].key # k
    /\ ProjectGoes(h, [pc |-> "create", key |-> k, list |-> IF list = <<>> THEN <<Caller>> ELSE list])
    /\ UNCHANGED <<projects, owners, workflows>>

(* The transaction commits when every insert succeeds.  The last disjunct  *)
(* is its roll back, for these and any other errors.                       *)
CreateCommit(h) ==
    /\ projectReq[h].pc = "create"
    /\ ProjectReplies(h)
    /\ \/ \E p \in ProjectIds \ ProjectRows :
            /\ KeyFree(projectReq[h].key, p) /\ Distinct(projectReq[h].list)
            /\ projects' = Put(projects, p, [key |-> projectReq[h].key, owner |-> projectReq[h].list[1],
                                             deleted |-> FALSE])
            /\ owners' = Put(owners, p, OwnerRows(projectReq[h].list))
       \/ UNCHANGED <<projects, owners>>
    /\ UNCHANGED workflows

(* UpdateProject reads the row, checks a new key and puts the changes into *)
(* its copy.                                                               *)
UpdateProject(h, p, k, ownerID, list) ==
    /\ projectReq[h] = ProjectIdle /\ p \in LiveProjects
    /\ k # Unset => \A q \in LiveProjects \ {p} : projects[q].key # k
    /\ ProjectGoes(h, [pc |-> "save", id |-> p, list |-> list,
                       row |-> [key |-> IF k = Unset THEN projects[p].key ELSE k,
                                owner |-> IF ownerID = Unset THEN projects[p].owner ELSE ownerID,
                                deleted |-> FALSE]])
    /\ UNCHANGED <<projects, owners, workflows>>

(* Save writes the whole copy; when no live row has the id gorm inserts    *)
(* it, on conflict updating all columns, which brings a deleted row back.  *)
Saved(p, row, list) ==
    /\ KeyFree(row.key, p)
    /\ projects' = [projects EXCEPT ![p] = IF list = <<>> THEN row ELSE [row EXCEPT !.owner = list[1]]]

(* Variant: the owners are deleted with h.db, outside of the transaction. *)
UpdateCommit_NoTx(h) ==
    /\ projectReq[h].pc = "save"
    /\ ProjectReplies(h)
    /\ LET r == projectReq[h] IN
       \/ /\ Saved(r.id, r.row, r.list) /\ Distinct(r.list)
          /\ owners' = IF r.list = <<>> THEN owners ELSE [owners EXCEPT ![r.id] = OwnerRows(r.list)]
       \/ /\ owners' = IF r.list = <<>> THEN owners ELSE [owners EXCEPT ![r.id] = OwnerRows(<<>>)]
          /\ UNCHANGED projects
    /\ UNCHANGED workflows

(* The transaction: the row, and if a list is given, the owners are        *)
(* deleted and inserted again.  The lock on the row keeps transactions of  *)
(* one project apart.                                                      *)
UpdateCommit(h) ==
    /\ projectReq[h].pc = "save"
    /\ ProjectReplies(h)
    /\ LET r == projectReq[h] IN
       \/ /\ Saved(r.id, r.row, r.list) /\ Distinct(r.list)
          /\ owners' = IF r.list = <<>> THEN owners ELSE [owners EXCEPT ![r.id] = OwnerRows(r.list)]
       \/ UNCHANGED <<projects, owners>>
    /\ UNCHANGED workflows

(* Refused while the project has workflows. *)
DeleteProject(h, p) ==
    /\ projectReq[h] = ProjectIdle /\ p \in LiveProjects /\ p \notin workflows
    /\ ProjectGoes(h, [pc |-> "delete", id |-> p])
    /\ UNCHANGED <<projects, owners, workflows>>

(* A soft delete; the owners stay. *)
DeleteRow(h) ==
    /\ projectReq[h].pc = "delete"
    /\ projects' = [projects EXCEPT ![projectReq[h].id].deleted = TRUE]
    /\ ProjectReplies(h)
    /\ UNCHANGED <<owners, workflows>>

(* CreateWorkflow and DeleteWorkflow, as far as they concern the project.  *)
CreateWorkflow(p) ==
    /\ p \in LiveProjects
    /\ workflows' = workflows \cup {p}
    /\ UNCHANGED <<projects, owners, projectReq>>

DeleteWorkflow(p) ==
    /\ workflows' = workflows \ {p}
    /\ UNCHANGED <<projects, owners, projectReq>>

ProjectNext ==
    \/ \E h \in ProjectHandlers :
        \/ \E k \in ProjectKeys, list \in OwnerLists : CreateProject(h, k, list)
        \/ CreateCommit(h)
        \/ \E p \in LiveProjects, k \in ProjectKeys \cup {Unset}, u \in Users \cup {Unset},
              list \in OwnerLists :
             UpdateProject(h, p, k, u, list)
        \/ UpdateCommit(h)
        \/ \E p \in LiveProjects : DeleteProject(h, p)
        \/ DeleteRow(h)
    \/ \E p \in ProjectRows : CreateWorkflow(p)
    \/ \E p \in workflows : DeleteWorkflow(p)

ProjectSpec == ProjectInit /\ [][ProjectNext]_projectVars

-----------------------------------------------------------------------------
(* Every project has exactly one user registered as its owner, also when   *)
(* updates fail half way, race, or bring a deleted project back.           *)
OneOwner ==
    \A p \in ProjectRows : Cardinality({u \in DOMAIN owners[p] : owners[p][u] = "owner"}) = 1
=============================================================================
