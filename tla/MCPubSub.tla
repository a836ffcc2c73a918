------------------------------ MODULE MCPubSub ------------------------------
(* Model checking of PubSub.                                               *)
EXTENDS PubSub
=============================================================================
