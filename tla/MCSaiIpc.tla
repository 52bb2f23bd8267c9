------------------------------ MODULE MCSaiIpc ------------------------------
(* Five messages, two of them in the socket at a time: a handshake and a   *)
(* few requests, with room for losses before, between and after them.      *)
EXTENDS SaiIpc
=============================================================================
