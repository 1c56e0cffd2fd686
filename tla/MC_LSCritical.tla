---------------------------- MODULE MC_LSCritical ----------------------------
(* GS and TA under Local Services on the primary node, for TLC.  The      *)
(* teardown sequence runs to its end or is cut short by a crash; every    *)
(* message is sent at most once, so the state space is finite.            *)
EXTENDS LSCritical
=============================================================================
