---------------------------- MODULE MCSaiThread ----------------------------
(* Two contexts: the owner can join one worker while the other one runs.   *)
EXTENDS SaiThread
=============================================================================
