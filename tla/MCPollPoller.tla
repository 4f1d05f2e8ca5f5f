---------------------------- MODULE MCPollPoller ----------------------------
(* Model values for PollPoller; the run checks a refinement, so symmetry   *)
(* is not used.                                                            *)
EXTENDS PollPoller
=============================================================================
