------------------------------- MODULE Stream -------------------------------
(***************************************************************************)
(* What a message of saiagent_msg.h promises: the words put into it are    *)
(* got from it once, in order; a call that fails moves nothing, except     *)
(* that putting an event may end after its type.  SaiMsg implements it.    *)
(***************************************************************************)
EXTENDS Naturals, Sequences

CONSTANTS Val,       \* values of a word
          MaxWords,  \* room in the message
          None       \* nothing was got

VARIABLES words,     \* the words put since the last reset
          read,      \* how many of them were got
          got        \* what the last call got, a sequence of words, or None

vars == <<words, read, got>>

Init == words \in UNION {[1..n -> Val] : n \in 0..MaxWords} /\ read = 0 /\ got = None

Put(ws) ==
  /\ Len(words) + Len(ws) <= MaxWords
  /\ words' = words \o ws
  /\ got' = None /\ UNCHANGED read

Get(n) ==
  /\ read + n <= Len(words)
  /\ got' = SubSeq(words, read + 1, read + n)
  /\ read' = read + n /\ UNCHANGED words

Refuse == got' = None /\ UNCHANGED <<words, read>>

Reset == words' = << >> /\ read' = 0 /\ got' = None

Next ==
  \/ \E n \in 1..MaxWords : Get(n) \/ \E ws \in [1..n -> Val] : Put(ws)
  \/ Refuse
  \/ Reset

Spec == Init /\ [][Next]_vars
=============================================================================
