------------------------- MODULE ProvisioningRequests -------------------------
(***************************************************************************)
(* The control plane's provisioning handler: requests are rows of a table, *)
(* an external service reports by callbacks, each callback adds a row of   *)
(* results and then saves the request.  The database may refuse any write. *)
(***************************************************************************)
EXTENDS Naturals, FiniteSets

CONSTANTS
    Requests,     \* ids of provisioning requests
    Callbacks     \* calls of the callback handler

VARIABLES
    pipeline,   \* the pipeline of the requests exists
    start,      \* StartProvisioning of each request: "new", "checked", "done"
    row,        \* status of the request's row, or "none"
    results,    \* statuses of the result rows of each request
    cb          \* each callback: [pc, request, status]

vars == <<pipeline, start, row, results, cb>>

Closed == {"completed", "failed"}
Statuses == Closed \cup {"pending", "in_progress", "skipped"}

Init ==
    /\ pipeline = TRUE
    /\ start = [r \in Requests |-> "new"]
    /\ row = [r \in Requests |-> "none"]
    /\ results = [r \in Requests |-> {}]
    /\ cb = [c \in Callbacks |-> [pc |-> "new"]]

(* PipelineHandler.Delete, which the handler below may meet.               *)
DeletePipeline ==
    /\ pipeline /\ pipeline' = FALSE
    /\ UNCHANGED <<start, row, results, cb>>

(* The pipeline is looked up; the request is refused when it is not there. *)
StartProvisioning(r) ==
    /\ start[r] = "new"
    /\ start' = [start EXCEPT ![r] = IF pipeline THEN "checked" ELSE "done"]
    /\ UNCHANGED <<pipeline, row, results, cb>>

CreateRequest(r) ==
    /\ start[r] = "checked"
    /\ start' = [start EXCEPT ![r] = "done"]
    /\ \E created \in BOOLEAN : row' = IF created THEN [row EXCEPT ![r] = "pending"] ELSE row
    /\ UNCHANGED <<pipeline, results, cb>>

(* CompleteProvisioning reads the row: it must be there and not be closed. *)
CompleteProvisioning(c, r, status) ==
    /\ cb[c].pc = "new"
    /\ cb' = [cb EXCEPT ![c] =
                 IF row[r] = "none" \/ row[r] \in Closed THEN [pc |-> "done"]
                 ELSE [pc |-> "result", request |-> r, status |-> status]]
    /\ UNCHANGED <<pipeline, start, row, results>>

(* Variant: a result that cannot be stored does not end the callback. *)
CreateResult_GoesOn(c) ==
    /\ cb[c].pc = "result"
    /\ \E created \in BOOLEAN :
        /\ results' = IF created THEN [results EXCEPT ![cb[c].request] = @ \cup {cb[c].status}] ELSE results
        /\ cb' = [cb EXCEPT ![c].pc = "save"]
    /\ UNCHANGED <<pipeline, start, row>>

CreateResult(c) ==
    /\ cb[c].pc = "result"
    /\ \/ /\ results' = [results EXCEPT ![cb[c].request] = @ \cup {cb[c].status}]
          /\ cb' = [cb EXCEPT ![c].pc = "save"]
       \/ cb' = [cb EXCEPT ![c] = [pc |-> "done"]] /\ UNCHANGED results
    /\ UNCHANGED <<pipeline, start, row>>

(* Save writes the whole row, whatever happened to it since it was read.   *)
SaveRequest(c) ==
    /\ cb[c].pc = "save"
    /\ \E saved \in BOOLEAN : row' = IF saved THEN [row EXCEPT ![cb[c].request] = cb[c].status] ELSE row
    /\ cb' = [cb EXCEPT ![c] = [pc |-> "done"]]
    /\ UNCHANGED <<pipeline, start, results>>

Next ==
    \/ DeletePipeline
    \/ \E r \in Requests :
        \/ StartProvisioning(r) \/ CreateRequest(r)
        \/ \E c \in Callbacks, status \in Statuses : CompleteProvisioning(c, r, status)
    \/ \E c \in Callbacks : CreateResult(c) \/ SaveRequest(c)

Spec == Init /\ [][Next]_vars

(* GetProvisioningStatus shows a result of the request when the row is     *)
(* completed or failed: any of its rows, the ids carry no order.           *)
StatusShows(r) == IF row[r] \in Closed THEN results[r] ELSE {}

(* When the row says that provisioning is over, a result that says so is   *)
(* stored, and GetProvisioningStatus finds one: whichever callbacks race   *)
(* and whichever writes fail.                                              *)
ClosedHasResult ==
    \A r \in Requests : row[r] \in Closed => row[r] \in StatusShows(r)
=============================================================================
