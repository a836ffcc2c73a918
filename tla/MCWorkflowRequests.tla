------------------------- MODULE MCWorkflowRequests -------------------------
(* Model checking of WorkflowRequests.                                     *)
EXTENDS WorkflowRequests
=============================================================================
