---------------------------- MODULE MCSaiSwitch ----------------------------
(* Two contexts: a second KEEPALIVE_INIT, or a retry of one that failed.   *)
(* An uninitialised status holds either return code.                       *)
EXTENDS SaiSwitch
=============================================================================
