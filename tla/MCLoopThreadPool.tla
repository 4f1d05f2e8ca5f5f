-------------------------- MODULE MCLoopThreadPool --------------------------
(* LoopThreadPool with up to MaxThreads threads.                           *)
EXTENDS LoopThreadPool
=============================================================================
