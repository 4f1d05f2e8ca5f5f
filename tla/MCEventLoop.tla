---------------------------- MODULE MCEventLoop ----------------------------
(* Model values for EventLoop.  Its runs check liveness, for which TLC     *)
(* allows no symmetry, so the configurations only give sets of values.     *)
EXTENDS EventLoop
=============================================================================
