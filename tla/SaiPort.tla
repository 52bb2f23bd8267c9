------------------------------ MODULE SaiPort ------------------------------
(***************************************************************************)
(* The port component, src/src/saiagent_port.c, and the port notifications *)
(* of src/src/saiagent_switch.c: the driver's requests set attributes of   *)
(* the SAI's ports on the main thread, while the SAI reports link changes  *)
(* on a thread of its own, which turns each into an event for the driver.  *)
(***************************************************************************)
EXTENDS Naturals, Sequences

CONSTANTS Port,        \* port numbers the driver uses
          Oid,         \* object ids of the SAI's ports
          PortList,    \* sw_info.port_list
          Vid,         \* VLAN ids
          Byte,        \* values of the byte link.phy.admin
          None,        \* no request
          Width,       \* bits of an event's port_id
          MaxChanges   \* bound: link changes

Null == 0              \* SAI_NULL_OBJECT_ID

\* The event's port_id: the object id cut to the width of the field.
EventPort(o) == o % 2^Width

\* Objects the SAI lists for its ports differ in the bits that are sent.
ASSUME PortAssumption ==
  /\ Oid \subseteq Nat \ {Null}
  /\ PortList \in [Port -> Oid \cup {Null}]
  /\ \A o1, o2 \in Oid : EventPort(o1) = EventPort(o2) => o1 = o2
  /\ Vid # {} /\ Byte \subseteq 0..255 /\ Width \in Nat /\ MaxChanges \in Nat

VARIABLES
  admin,     \* admin[o]: SAI_PORT_ATTR_ADMIN_STATE
  pvid,      \* pvid[o]: SAI_PORT_ATTR_PORT_VLAN_ID
  oper,      \* oper[o]: the link of o is up
  pending,   \* link changes the SAI has not reported yet
  data,      \* entries of the notification being handled, from the loop's index on
  view,      \* view[e]: the driver's idea of the link of the port e
  changes,   \* number of link changes
  lost,      \* history: ports whose latest event could not be sent
  last,      \* history: the last request if it sets something, or None
  reply      \* the reply to the last request

sai == <<admin, pvid>>
link == <<oper, pending, data, view, changes, lost>>
vars == <<sai, link, last, reply>>

Status == [port : Oid, up : BOOLEAN]
Request == [attr : {"phy"}, port : Port, value : Byte, fault : BOOLEAN]
             \cup [attr : {"pvid"}, port : Port, value : Vid, fault : BOOLEAN]

TypeOK ==
  /\ admin \in [Oid -> BOOLEAN] /\ pvid \in [Oid -> Vid]
  /\ oper \in [Oid -> BOOLEAN] /\ view \in [{EventPort(o) : o \in Oid} -> BOOLEAN]
  /\ pending \in Seq(Status) /\ data \in Seq(Status)
  /\ changes \in 0..MaxChanges /\ lost \subseteq Oid
  /\ last \in Request \cup {None}
  /\ reply \in {"ACK", "FAILED", "info", "attr"}

Init ==
  /\ admin = [o \in Oid |-> FALSE]
  /\ pvid \in {[o \in Oid |-> v] : v \in Vid}
  /\ oper = [o \in Oid |-> FALSE]
  /\ view = [e \in {EventPort(o) : o \in Oid} |-> FALSE]
  /\ pending = << >> /\ data = << >> /\ changes = 0
  /\ lost = {} /\ last = None /\ reply = "ACK"
-----------------------------------------------------------------------------
(* The handlers.                                                           *)
PortFind(p) == PortList[p]

\* fault: some call of the SAI failed on the way.
Asked(a, p, v, fault) == last' = [attr |-> a, port |-> p, value |-> v, fault |-> fault]

\* sai_api_query fails, and SAI_RET_ERR makes the call again to return its
\* result: the request ends here, and is acknowledged if the second call
\* succeeds.
QueryFails(a, p, v) ==
  /\ Asked(a, p, v, TRUE) /\ reply' \in {"ACK", "FAILED"}
  /\ UNCHANGED <<sai, link>>

MutSetRefused(a, p, v) ==   \* mutant: the handler goes on after the error
  /\ Asked(a, p, v, PortFind(p) # Null) /\ reply' = "ACK"
  /\ UNCHANGED <<sai, link>>

\* set_port_attribute failed twice, as it does for a null object.
SetRefused(a, p, v) ==
  /\ Asked(a, p, v, PortFind(p) # Null) /\ reply' = "FAILED"
  /\ UNCHANGED <<sai, link>>

\* PORT_ATTR_SET of the PHY mode: any byte but 0 means up. If
\* set_port_attribute failed, the call made to return its result did not.
PhySet(p, v) ==
  /\ PortFind(p) # Null
  /\ (\E fault \in BOOLEAN : Asked("phy", p, v, fault)) /\ reply' = "ACK"
  /\ admin' = [admin EXCEPT ![PortFind(p)] = (v # 0)]
  /\ UNCHANGED <<pvid, link>>

\* PORT_ATTR_SET of any other attribute, known or not: logged.
AttrIgnored ==
  /\ last' = None /\ reply' = "ACK"
  /\ UNCHANGED <<sai, link>>

\* VLAN_PVID_SET comes here from saiagent_vlan.c.
PvidSet(p, v) ==
  /\ PortFind(p) # Null
  /\ (\E fault \in BOOLEAN : Asked("pvid", p, v, fault)) /\ reply' = "ACK"
  /\ pvid' = [pvid EXCEPT ![PortFind(p)] = v]
  /\ UNCHANGED <<admin, link>>

\* PORT_INFO_GET and PORT_ATTR_GET answer without asking the SAI.
Answer(r) ==
  /\ last' = None /\ reply' = r
  /\ UNCHANGED <<sai, link>>

InfoGet == Answer("info")

\* A request for the statistics is answered like any other.
AttrGet == Answer("attr")

\* The handlers saiagent_port_init registers, and VLAN_PVID_SET.
Handler ==
  \/ AttrIgnored \/ InfoGet \/ AttrGet
  \/ \E p \in Port, v \in Byte :
       PhySet(p, v) \/ SetRefused("phy", p, v) \/ QueryFails("phy", p, v)
  \/ \E p \in Port, v \in Vid :
       PvidSet(p, v) \/ SetRefused("pvid", p, v) \/ QueryFails("pvid", p, v)
-----------------------------------------------------------------------------
(* The SAI: a link goes up only on a port whose admin state is up, and     *)
(* every change is reported in order.                                      *)
LinkChanges(o) ==
  /\ changes < MaxChanges
  /\ oper[o] \/ admin[o]
  /\ oper' = [oper EXCEPT ![o] = ~@]
  /\ pending' = Append(pending, [port |-> o, up |-> oper'[o]])
  /\ changes' = changes + 1
  /\ UNCHANGED <<sai, data, view, lost, last, reply>>

\* The callback is called with some of the changes.
Notify ==
  /\ data = << >>
  /\ \E n \in 1..Len(pending) :
       /\ data' = SubSeq(pending, 1, n)
       /\ pending' = SubSeq(pending, n + 1, Len(pending))
  /\ UNCHANGED <<sai, oper, view, changes, lost, last, reply>>

Sent(o, up) == view' = [view EXCEPT ![EventPort(o)] = up] /\ lost' = lost \ {o}
NotSent(o) == UNCHANGED view /\ lost' = lost \cup {o}

MutSendEvent ==             \* mutant: evt is set to "up" and never back
  /\ data # << >>
  /\ LET e == Head(data) IN
     Sent(e.port, e.up \/ view[EventPort(e.port)]) \/ NotSent(e.port)
  /\ data' = Tail(data)
  /\ UNCHANGED <<sai, oper, pending, changes, last, reply>>

MutSendCurrent ==           \* mutant: asks for the state instead of using the report
  /\ data # << >>
  /\ LET e == Head(data) IN Sent(e.port, oper[e.port]) \/ NotSent(e.port)
  /\ data' = Tail(data)
  /\ UNCHANGED <<sai, oper, pending, changes, last, reply>>

MutSendBlocks ==            \* mutant: waits for ever on a port whose event was lost
  /\ data # << >> /\ Head(data).port \notin lost
  /\ LET e == Head(data) IN Sent(e.port, e.up) \/ NotSent(e.port)
  /\ data' = Tail(data)
  /\ UNCHANGED <<sai, oper, pending, changes, last, reply>>

\* sai_on_port_state_change_notify, one turn of its loop: what becomes of
\* the event is ignored.
SendEvent ==
  /\ data # << >>
  /\ LET e == Head(data) IN Sent(e.port, e.up) \/ NotSent(e.port)
  /\ data' = Tail(data)
  /\ UNCHANGED <<sai, oper, pending, changes, last, reply>>

Next == Handler \/ (\E o \in Oid : LinkChanges(o)) \/ Notify \/ SendEvent

\* The SAI calls back, and its thread runs.
Spec == Init /\ [][Next]_vars /\ WF_vars(Notify) /\ WF_vars(SendEvent)
-----------------------------------------------------------------------------
(* A positive acknowledgement, if no call failed on the way, means that    *)
(* the SAI's port has the value, whatever was asked of it before           *)
(* (saiagent_port.c:77-95, 154-160).                                       *)
AckMeansApplied ==
  last # None /\ reply = "ACK" /\ ~last.fault =>
    LET o == PortFind(last.port) IN
    /\ o # Null
    /\ last.attr = "phy" => admin[o] = (last.value # 0)
    /\ last.attr = "pvid" => pvid[o] = last.value

Waiting(o) == \E s \in {pending, data} : \E k \in DOMAIN s : s[k].port = o

(* The driver's idea of a link is right unless a change of it is on its    *)
(* way or the latest event about it was lost: events of several ports and  *)
(* notifications do not mix, and no later event makes up for a lost one    *)
(* (saiagent_switch.c:44-56).                                              *)
ViewIsFresh ==
  \A o \in Oid : ~Waiting(o) /\ o \notin lost => view[EventPort(o)] = oper[o]

(* Refinement: however the SAI batches its notifications, the driver gets  *)
(* one queue of changes in the order they happened, each told or missed,   *)
(* and the cut of the port id mixes up no two ports                        *)
(* (saiagent_switch.c:24-56).                                              *)
L == INSTANCE LinkReports WITH
       link   <- oper,
       queue  <- data \o pending,
       told   <- [o \in Oid |-> view[EventPort(o)]],
       missed <- lost

ImplementsLinkReports == L!Spec

(* Every link change is reported or lost in the end: an event that cannot  *)
(* be sent does not hold up the others (saiagent_switch.c:55).             *)
Reported == changes - Len(pending) - Len(data)
EveryChangeIsReported == \A n \in 1..MaxChanges : changes >= n ~> Reported >= n
=============================================================================
