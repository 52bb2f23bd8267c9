----------------------------- MODULE Membership -----------------------------
(***************************************************************************)
(* What VLAN_PORT_SET promises the driver about the switch: a request adds *)
(* its VLAN, its port to that VLAN and the port's admin state, in this     *)
(* order, and touches nothing of another VLAN or port.  It may stop on the *)
(* way; an acknowledgement means that all is there, unless a call of the   *)
(* SAI failed meanwhile.  SaiVlan implements it.                           *)
(***************************************************************************)
CONSTANTS Vid, Port, None

VARIABLES
  vlans,     \* the VLANs the switch has
  member,    \* who is a member: VLAN, port
  up,        \* ports that were set up
  asked,     \* the request just handled, or None if it was another command
  failed,    \* a call failed while it was handled
  reply      \* the answer to it

vars == <<vlans, member, up, asked, failed, reply>>

Init ==
  /\ vlans \subseteq Vid
  /\ member \subseteq vlans \X Port
  /\ up = {}
  /\ asked = None /\ failed = FALSE
  /\ reply = "FAILED"

Create(v) == vlans' = vlans \cup {v}

Join(v, p) == member' = member \cup {<<v, p>>}

Enable(p) == up' = up \cup {p}

\* The request is left halfway: refused, or acknowledged by a failure.
Stops == reply' = "FAILED" \/ (reply' = "ACK" /\ failed')

PortSet(v, p) ==
  /\ asked' = <<v, p>> /\ failed' \in BOOLEAN
  /\ \/ UNCHANGED <<vlans, member, up>> /\ Stops
     \/ Create(v) /\ UNCHANGED <<member, up>> /\ Stops
     \/ Create(v) /\ Join(v, p) /\ UNCHANGED up /\ reply' = "FAILED"
     \/ Create(v) /\ Join(v, p) /\ Enable(p) /\ reply' = "ACK"

Other ==
  /\ asked' = None /\ failed' = FALSE
  /\ reply' \in {"ACK", "FAILED"}
  /\ UNCHANGED <<vlans, member, up>>

Next == Other \/ \E v \in Vid, p \in Port : PortSet(v, p)

Spec == Init /\ [][Next]_vars
=============================================================================
