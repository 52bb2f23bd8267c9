------------------------------- MODULE Server -------------------------------
(***************************************************************************)
(* What the IPC loop promises the driver, whose messages are numbered:     *)
(* one request is open at a time, requests are opened in the order they    *)
(* were sent, and an answer belongs to a request that was open.  Messages  *)
(* and answers may be lost; a message that carries nothing may make the    *)
(* latest request be opened again.  SaiIpc implements this specification.  *)
(***************************************************************************)
EXTENDS Naturals

CONSTANT MaxSeq      \* bound: number of messages

Seqs == 1..MaxSeq
Fates == {"unsent", "queued", "empty", "open", "answered", "lost"}

VARIABLES fate,      \* fate[s]: what became of message s
          cur        \* the latest request opened, 0 before the first

vars == <<fate, cur>>

TypeOK == fate \in [Seqs -> Fates] /\ cur \in 0..MaxSeq

Init == fate = [s \in Seqs |-> "unsent"] /\ cur = 0

NoneOpen == \A s \in Seqs : fate[s] # "open"

Move(s, from, to) == fate[s] \in from /\ fate' = [fate EXCEPT ![s] = to]

Send(s)   == \E f \in {"queued", "empty"} : Move(s, {"unsent"}, f) /\ UNCHANGED cur
Lose(s)   == Move(s, {"unsent", "queued", "empty"}, "lost") /\ UNCHANGED cur
Open(s)   == s > cur /\ NoneOpen /\ Move(s, {"queued"}, "open") /\ cur' = s

\* A message that carries nothing makes the server take the latest request
\* for a new one.
Reopen(s, t) ==
  /\ s = cur /\ NoneOpen
  /\ fate[s] \in {"answered", "lost"} /\ fate[t] = "empty"
  /\ fate' = [fate EXCEPT ![s] = "open", ![t] = "lost"]
  /\ UNCHANGED cur

Close(s)  == \E f \in {"answered", "lost"} : Move(s, {"open"}, f) /\ UNCHANGED cur

Next == \E s \in Seqs :
  Send(s) \/ Lose(s) \/ Open(s) \/ Close(s) \/ \E t \in Seqs : Reopen(s, t)

Spec == Init /\ [][Next]_vars
=============================================================================
