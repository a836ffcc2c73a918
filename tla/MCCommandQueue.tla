--------------------------- MODULE MCCommandQueue ---------------------------
(* Model checking of CommandQueue.                                         *)
EXTENDS CommandQueue
=============================================================================
