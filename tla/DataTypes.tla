------------------------------ MODULE DataTypes ------------------------------
(***************************************************************************)
(* The control plane's data types of one project: a hierarchy of limited   *)
(* depth, each type with the preworks that prepare its storage.  Handlers  *)
(* run concurrently; every query is a step, a transaction is visible when  *)
(* it commits.  AutoMigrate makes no foreign keys, so the database does    *)
(* not keep rows together.  No handler gives a pipeline a data type: the   *)
(* test for pipelines of DeleteDataType finds none.                        *)
(***************************************************************************)
EXTENDS Naturals, FiniteSets

CONSTANTS
    TypeIds,      \* bound: ids of data types, each used once
    TypeHandlers, \* concurrent requests
    MaxDepth,     \* getMaxDataTypeDepth
    MaxPreworks   \* bound: preworks a type is created with

NoParent == "none"

VARIABLES
    parent,     \* the rows of data_types: id -> parent id or NoParent
    preworks,   \* the rows of data_type_preworks: [type, n] -> status
    used,       \* ids that have been given out
    want,       \* history: the number of preworks each row was created with
    dropped,    \* history: the ones of them that DeletePrework has deleted
    typeReq     \* the request each handler is busy with

typeVars == <<parent, preworks, used, want, dropped, typeReq>>

TypeRows == DOMAIN parent
TypeIdle == [pc |-> "idle"]
Prework(d, n) == [type |-> d, n |-> n]
Preworks == DOMAIN preworks
Extend(f, S, v) == [x \in DOMAIN f \cup S |-> IF x \in S THEN v ELSE f[x]]
Without(f, S) == [x \in DOMAIN f \ S |-> f[x]]

TypeInit ==
    /\ parent = [d \in {} |-> NoParent] /\ preworks = [w \in {} |-> "pending"]
    /\ used = {} /\ want = [d \in TypeIds |-> 0] /\ dropped = {}
    /\ typeReq = [h \in TypeHandlers |-> TypeIdle]

TypeGoes(h, r) == typeReq' = [typeReq EXCEPT ![h] = r]
TypeReplies(h) == TypeGoes(h, TypeIdle)

(* The checks before the transaction: the parent must be a row; its depth  *)
(* is computed next.                                                       *)
CreateDataType(h, p, n) ==
    /\ typeReq[h] = TypeIdle
    /\ p # NoParent => p \in TypeRows
    /\ \E d \in TypeIds \ used :
        /\ used' = used \cup {d}
        /\ TypeGoes(h, [pc |-> IF p = NoParent THEN "row" ELSE "walk", then |-> "row",
                        id |-> d, parent |-> p, cur |-> p, depth |-> 0, preworks |-> n, staged |-> 0])
    /\ UNCHANGED <<parent, preworks, want, dropped>>

(* The new parent is only asked for its depth: it need not be a row, and   *)
(* may be the type itself or one below it.                                 *)
UpdateDataType(h, d, p) ==
    /\ typeReq[h] = TypeIdle /\ d \in TypeRows
    /\ TypeGoes(h, [pc |-> IF p = NoParent THEN "write" ELSE "walk", then |-> "write",
                    id |-> d, parent |-> p, cur |-> p, depth |-> 0])
    /\ UNCHANGED <<parent, preworks, used, want, dropped>>

Least(a, b) == IF a < b THEN a ELSE b

(* One iteration of getDataTypeDepth.  Counting on past the limit makes no *)
(* difference to the test, so depth stops there.                           *)
getDataTypeDepth(h) ==
    /\ typeReq[h].pc = "walk"
    /\ LET r == typeReq[h]
           d == IF r.cur \in TypeRows THEN Least(r.depth + 1, MaxDepth + 1) ELSE r.depth
           more == r.cur \in TypeRows /\ parent[r.cur] # NoParent
       IN IF more THEN TypeGoes(h, [r EXCEPT !.cur = parent[r.cur], !.depth = d])
          ELSE IF d + 1 > MaxDepth THEN TypeReplies(h)
          ELSE TypeGoes(h, [r EXCEPT !.pc = r.then, !.cur = NoParent, !.depth = 0])
    /\ UNCHANGED <<parent, preworks, used, want, dropped>>

(* Updates: the columns of the row, if it is still there.  The unique      *)
(* index on the name may refuse it.                                        *)
WriteParent(h) ==
    /\ typeReq[h].pc = "write"
    /\ TypeReplies(h)
    /\ \/ parent' = [d \in TypeRows |-> IF d = typeReq[h].id THEN typeReq[h].parent ELSE parent[d]]
       \/ UNCHANGED parent
    /\ UNCHANGED <<preworks, used, want, dropped>>

(* Variant: the row is created with h.db, outside of the transaction. *)
InsertRow_NoTx(h) ==
    /\ typeReq[h].pc = "row"
    /\ \/ /\ TypeGoes(h, [typeReq[h] EXCEPT !.pc = "preworks"])
          /\ parent' = Extend(parent, {typeReq[h].id}, typeReq[h].parent)
          /\ want' = [want EXCEPT ![typeReq[h].id] = typeReq[h].preworks]
       \/ TypeReplies(h) /\ UNCHANGED <<parent, want>>
    /\ UNCHANGED <<preworks, used, dropped>>

(* The transaction of CreateDataType: the row, then one prework after the  *)
(* other; an error of any of them rolls all of it back.                    *)
InsertRow(h) ==
    /\ typeReq[h].pc = "row"
    /\ TypeGoes(h, [typeReq[h] EXCEPT !.pc = "preworks"]) \/ TypeReplies(h)
    /\ UNCHANGED <<parent, preworks, used, want, dropped>>

InsertPrework(h) ==
    /\ typeReq[h].pc = "preworks" /\ typeReq[h].staged < typeReq[h].preworks
    /\ TypeGoes(h, [typeReq[h] EXCEPT !.staged = @ + 1]) \/ TypeReplies(h)
    /\ UNCHANGED <<parent, preworks, used, want, dropped>>

Commit(h) ==
    /\ typeReq[h].pc = "preworks" /\ typeReq[h].staged = typeReq[h].preworks
    /\ parent' = Extend(parent, {typeReq[h].id}, typeReq[h].parent)
    /\ preworks' = Extend(preworks, {Prework(typeReq[h].id, i) : i \in 1..typeReq[h].staged}, "pending")
    /\ want' = [want EXCEPT ![typeReq[h].id] = typeReq[h].preworks]
    /\ TypeReplies(h)
    /\ UNCHANGED <<used, dropped>>

(* One transaction; types below the deleted one keep their parent_id.      *)
DeleteDataType(d) ==
    /\ parent' = Without(parent, {d})
    /\ preworks' = Without(preworks, {w \in Preworks : w.type = d})
    /\ want' = [want EXCEPT ![d] = 0]
    /\ dropped' = {w \in dropped : w.type # d}
    /\ UNCHANGED <<used, typeReq>>

(* AddPrework looks the type up, and then creates the prework.             *)
AddPrework(h, d) ==
    /\ typeReq[h] = TypeIdle /\ d \in TypeRows
    /\ TypeGoes(h, [pc |-> "add", id |-> d])
    /\ UNCHANGED <<parent, preworks, used, want, dropped>>

CreatePrework(h) ==
    /\ typeReq[h].pc = "add"
    /\ TypeReplies(h)
    /\ \/ preworks' = Extend(preworks, {Prework(typeReq[h].id, MaxPreworks + 1)}, "pending")
       \/ UNCHANGED preworks
    /\ UNCHANGED <<parent, used, want, dropped>>

DeletePrework(w) ==
    /\ preworks' = Without(preworks, {w})
    /\ dropped' = IF w.type \in TypeRows /\ w.n <= want[w.type] THEN dropped \cup {w} ELSE dropped
    /\ UNCHANGED <<parent, used, want, typeReq>>

(* ExecutePrework marks the prework it has loaded running, and then        *)
(* completed, whatever its status is; a row deleted meanwhile is not there *)
(* to be written.                                                          *)
ExecutePrework(h, w) ==
    /\ typeReq[h] = TypeIdle
    /\ preworks' = [preworks EXCEPT ![w] = "running"]
    /\ TypeGoes(h, [pc |-> "running", prework |-> w])
    /\ UNCHANGED <<parent, used, want, dropped>>

FinishPrework(h) ==
    /\ typeReq[h].pc = "running"
    /\ preworks' = [w \in Preworks |-> IF w = typeReq[h].prework THEN "completed" ELSE preworks[w]]
    /\ TypeReplies(h)
    /\ UNCHANGED <<parent, used, want, dropped>>

TypeNext ==
    \/ \E h \in TypeHandlers :
        \/ \E p \in TypeRows \cup {NoParent}, n \in 0..MaxPreworks : CreateDataType(h, p, n)
        \/ \E d \in TypeRows, p \in TypeIds \cup {NoParent} : UpdateDataType(h, d, p)
        \/ getDataTypeDepth(h) \/ WriteParent(h)
        \/ InsertRow(h) \/ InsertPrework(h) \/ Commit(h)
        \/ \E d \in TypeRows : AddPrework(h, d)
        \/ CreatePrework(h)
        \/ \E w \in Preworks : ExecutePrework(h, w)
        \/ FinishPrework(h)
    \/ \E d \in TypeRows : DeleteDataType(d)
    \/ \E w \in Preworks : DeletePrework(w)

TypeSpec == TypeInit /\ [][TypeNext]_typeVars

-----------------------------------------------------------------------------
(* A data type is seen with all the preworks it was created with, less the *)
(* ones deleted one by one: a creation that fails half way, or meets other *)
(* requests, leaves nothing behind.                                        *)
CreatedWhole ==
    \A d \in TypeRows : {Prework(d, i) : i \in 1..want[d]} \ dropped \subseteq Preworks
=============================================================================
