----------------------------- MODULE MCSaiPort -----------------------------
(* Two ports with objects 5 and 6, of which events carry two bits; the     *)
(* third port number has no object.                                        *)
EXTENDS SaiPort

MCPortList == [p \in Port |-> IF p < 2 THEN 5 + p ELSE Null]
=============================================================================
