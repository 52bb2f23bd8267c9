---------------------------- MODULE MCSaiProtocol ----------------------------
(* Requests of no word, of the type only, as long as the small structures, *)
(* of the longest one, and too long.  Three messages are a request to come *)
(* up, one that leaves its bytes or is refused, and one that is short.     *)
EXTENDS SaiProtocol
=============================================================================
