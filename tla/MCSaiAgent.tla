----------------------------- MODULE MCSaiAgent -----------------------------
(* Two contexts: the keepalive thread the agent knows and one it has lost, *)
(* or a creation that failed.  Two events let one be sent before and one   *)
(* after a step of main.                                                   *)
EXTENDS SaiAgent
=============================================================================
