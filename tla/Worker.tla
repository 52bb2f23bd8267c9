------------------------------- MODULE Worker -------------------------------
(***************************************************************************)
(* What a worker thread of the SAI agent promises to its owner: its record *)
(* is released once, and only after the thread has ended.  SaiThread       *)
(* implements this specification.                                          *)
(***************************************************************************)
CONSTANT Ctx         \* thread records

VARIABLE life        \* life[c]: "absent", "alive", "ended" or "reaped"

TypeOK == life \in [Ctx -> {"absent", "alive", "ended", "reaped"}]

Init == life = [c \in Ctx |-> "absent"]

Move(c, from, to) ==
  /\ life[c] = from
  /\ life' = [life EXCEPT ![c] = to]

Spawn(c)  == Move(c, "absent", "alive")
Refuse(c) == Move(c, "absent", "reaped")     \* no thread came to exist
Finish(c) == Move(c, "alive", "ended")
Reap(c)   == Move(c, "ended", "reaped")

Next == \E c \in Ctx : Spawn(c) \/ Refuse(c) \/ Finish(c) \/ Reap(c)

Spec == Init /\ [][Next]_life
=============================================================================
