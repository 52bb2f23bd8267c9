------------------------------ MODULE MCSaiMsg ------------------------------
(* Room for five words, data of half a word, one word and two.             *)
EXTENDS SaiMsg
=============================================================================
