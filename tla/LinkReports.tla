----------------------------- MODULE LinkReports -----------------------------
(***************************************************************************)
(* What the driver may count on about links: one queue of changes in the   *)
(* order they happened, of which each is told to it or missed, in that     *)
(* order; a later event about a port makes up for the ones missed.         *)
(* SaiPort implements it.                                                  *)
(***************************************************************************)
EXTENDS Sequences

CONSTANT Oid       \* the ports

VARIABLES
  link,            \* link[o]: the link of o is up
  queue,           \* changes that were neither told nor missed
  told,            \* told[o]: what the driver was told last
  missed           \* ports whose latest change the driver missed

vars == <<link, queue, told, missed>>

Init ==
  /\ link = [o \in Oid |-> FALSE]
  /\ told = [o \in Oid |-> FALSE]
  /\ queue = << >>
  /\ missed = {}

Change(o) ==
  /\ link' = [link EXCEPT ![o] = ~@]
  /\ queue' = Append(queue, [port |-> o, up |-> ~link[o]])
  /\ UNCHANGED <<told, missed>>

Deliver ==
  /\ queue # << >>
  /\ told' = [told EXCEPT ![Head(queue).port] = Head(queue).up]
  /\ missed' = missed \ {Head(queue).port}
  /\ queue' = Tail(queue)
  /\ UNCHANGED link

Miss ==
  /\ queue # << >>
  /\ missed' = missed \cup {Head(queue).port}
  /\ queue' = Tail(queue)
  /\ UNCHANGED <<link, told>>

Next == (\E o \in Oid : Change(o)) \/ Deliver \/ Miss

Spec == Init /\ [][Next]_vars
=============================================================================
