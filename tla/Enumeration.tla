---------------------------- MODULE Enumeration ----------------------------
(***************************************************************************)
(* What the agent promises the SAI about the profile: once the contents    *)
(* are there they do not change, and between two ends of the list every    *)
(* definition in them is handed out once.  SaiProfile implements it.       *)
(***************************************************************************)
EXTENDS Naturals, Sequences

CONSTANTS Param,     \* parameters: a name with a value
          End        \* what the end of the list, or a restart, answers

VARIABLES content,   \* the definitions of the profile, as in the file
          todo,      \* which of them this enumeration has not handed out
          call,      \* the latest call, "restart" or "next"
          answer     \* what it answered

vars == <<content, todo, call, answer>>

Init == content = << >> /\ todo = {} /\ call = "restart" /\ answer = End

Load ==
  /\ content = << >>
  /\ content' \in Seq(Param) \ {<< >>}
  /\ todo' = DOMAIN content'
  /\ UNCHANGED <<call, answer>>

HandOut(i) ==
  /\ i \in todo
  /\ call' = "next" /\ answer' = content[i]
  /\ todo' = todo \ {i}
  /\ UNCHANGED content

Finish ==
  /\ content # << >> /\ todo = {}
  /\ call' = "next" /\ answer' = End
  /\ todo' = DOMAIN content
  /\ UNCHANGED content

Restart ==
  /\ call' = "restart" /\ answer' = End
  /\ todo' = DOMAIN content
  /\ UNCHANGED content

Next == Load \/ Finish \/ Restart \/ \E i \in todo : HandOut(i)

Spec == Init /\ [][Next]_vars
=============================================================================
