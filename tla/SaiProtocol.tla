---------------------------- MODULE SaiProtocol ----------------------------
(***************************************************************************)
(* Requests and replies as the bytes of two buffers that                   *)
(* saiagent_ipc_enter_loop allocates once.  A request overwrites the start *)
(* of in_msg.buf only, and the handlers of every component read their      *)
(* structure (linux/prestera/prestera_hw_cmd.h) from it without looking at *)
(* the length.  What the handlers do to the switch is in the other         *)
(* modules; here it is which words they act on, and what they put into the *)
(* reply.                                                                  *)
(***************************************************************************)
EXTENDS Naturals, FiniteSets

CONSTANTS BufWords,   \* words of in_msg.buf and out_msg.buf
          Lengths,    \* lengths of the driver's requests, in words
          MaxReq      \* bound: number of messages from the driver

ASSUME ProtocolAssumption ==
  /\ BufWords \in Nat /\ BufWords > 36     \* no structure fills the buffer
  /\ Lengths \subseteq Nat /\ MaxReq \in Nat

VARIABLES
  cb,         \* commands in ctx.ipc_cb_list
  buf,        \* buf[w]: number of the message that last wrote the word w, 0 if none
  in,         \* in_msg: number, command and payload_size of the request, err
  n,          \* number of messages received
  pc,         \* where the loop is
  reply,      \* out_msg: positive, bytes, bytes of the response filled in
  used,       \* history: writers of the words the last handler acted on
  discarded   \* history: messages the receive refused

vars == <<cb, buf, in, n, pc, reply, used, discarded>>

(* Words of the requests, and where the fields are that a handler acts on; *)
(* bytes of the responses.                                                 *)
KeepaliveReq == [pulse_timeout_ms |-> 2, words |-> 2]
PortAttrReq == [attr |-> 2, port |-> 3, admin |-> 8, words |-> 36]
PortInfoReq == [port |-> 2, words |-> 2]
VlanReq == [port |-> 2, vid |-> 4, words |-> 4]

Ret == 8
SwitchInitResp == 24
PortAttrResp == 136
PortStatsResp == 248
PortInfoResp == 20
VrResp == 12

\* The commands each component registers.
SwitchCmd == {"SWITCH_RESET", "SWITCH_ATTR_SET", "KEEPALIVE_INIT"}
PortCmd == {"PORT_INFO_GET", "PORT_ATTR_SET", "PORT_ATTR_GET"}
FdbCmd == {"FDB_FLUSH_PORT"}
VlanCmd == {"VLAN_CREATE", "VLAN_DELETE", "VLAN_PORT_SET", "VLAN_PVID_SET",
            "STP_PORT_SET"}
RouterCmd == {"ROUTER_MP_HASH_SET", "ROUTER_VR_CREATE", "ROUTER_VR_DELETE",
              "ROUTER_LPM_ADD", "ROUTER_LPM_DELETE"}

\* FDB_ADD stands for the commands the agent does not know.
Cmd == {"SWITCH_INIT", "FDB_ADD"} \cup SwitchCmd \cup PortCmd \cup FdbCmd
         \cup VlanCmd \cup RouterCmd

TypeOK ==
  /\ cb \subseteq Cmd
  /\ buf \in [1..BufWords -> 0..MaxReq]
  /\ in \in [seq : 0..MaxReq, cmd : Cmd, len : Lengths, err : BOOLEAN]
  /\ n \in 0..MaxReq
  /\ pc \in {"recv", "process", "done"}
  /\ reply \in [ok : BOOLEAN, size : 0..4*BufWords, filled : 0..PortStatsResp]
  /\ used \subseteq 0..MaxReq /\ discarded \subseteq 1..MaxReq

\* in_msg is on the stack and its buffer comes from malloc: both are garbage.
Init ==
  /\ cb = {"SWITCH_INIT"}
  /\ buf = [w \in 1..BufWords |-> 0]
  /\ in \in [seq : {0}, cmd : Cmd, len : Lengths, err : BOOLEAN]
  /\ n = 0 /\ pc = "recv"
  /\ reply = [ok |-> FALSE, size |-> 0, filled |-> 0]
  /\ used = {} /\ discarded = {}
-----------------------------------------------------------------------------
(* Receiving.                                                              *)
Message ==
  /\ pc = "recv" /\ n < MaxReq
  /\ n' = n + 1

MutRecvRequest(c, len) ==   \* mutant: payload_size is read before it is set
  /\ Message
  /\ len < BufWords
  /\ buf' = [w \in 1..BufWords |-> IF w <= in.len THEN n' ELSE buf[w]]
  /\ in' = [seq |-> n', cmd |-> c, len |-> len, err |-> FALSE]
  /\ pc' = "process"
  /\ UNCHANGED <<cb, reply, used, discarded>>

RecvRequest(c, len) ==
  /\ Message
  /\ len < BufWords
  /\ buf' = [w \in 1..BufWords |-> IF w <= len THEN n' ELSE buf[w]]
  /\ in' = [seq |-> n', cmd |-> c, len |-> len, err |-> FALSE]
  /\ pc' = "process"
  /\ UNCHANGED <<cb, reply, used, discarded>>

MutRecvTooLong(len) ==      \* mutant: the size is checked after the copy
  /\ Message
  /\ len >= BufWords
  /\ buf' = [w \in 1..BufWords |-> n']
  /\ in' = [in EXCEPT !.err = TRUE]
  /\ discarded' = discarded \cup {n'}
  /\ UNCHANGED <<cb, pc, reply, used>>

\* "message buffer overflow"
RecvTooLong(len) ==
  /\ Message
  /\ len >= BufWords
  /\ in' = [in EXCEPT !.err = TRUE]
  /\ discarded' = discarded \cup {n'}
  /\ UNCHANGED <<cb, buf, pc, reply, used>>

\* Not a netlink message the agent can parse, or one without a TLV.
RecvMalformed ==
  /\ Message
  /\ in' = [in EXCEPT !.err = TRUE]
  /\ discarded' = discarded \cup {n'}
  /\ UNCHANGED <<cb, buf, pc, reply, used>>

\* No callback ran: the last request is processed again unless err is set.
RecvSilent ==
  /\ pc = "recv"
  /\ ~in.err
  /\ pc' = "process"
  /\ UNCHANGED <<cb, buf, in, n, reply, used, discarded>>
-----------------------------------------------------------------------------
(* The reply buffer: size is what was put so far.                          *)
Put(size, bytes) == IF bytes <= 4*BufWords - size THEN size + bytes ELSE size

MutPutReplyAck(size) == \* mutant: the reply is not cleared first
  Put(size, Ret)

\* saiagent_ipc_put_reply_ack: what was put before is cleared.
PutReplyAck(size) == Put(0, Ret)

Reply(ok, size, filled) == reply' = [ok |-> ok, size |-> size, filled |-> filled]

Ack(ok) == Reply(ok, PutReplyAck(0), Ret)

\* A handler acts on the words ws of the request.
ActsOn(ws) == used' = {buf[w] : w \in ws}

(* Dispatch.                                                               *)
Processed ==
  /\ pc = "process" /\ pc' = "recv"
  /\ UNCHANGED <<buf, in, n, discarded>>

\* There is no type to get.
TooShort ==
  /\ Processed
  /\ in.len = 0
  /\ Ack(FALSE) /\ ActsOn({})
  /\ UNCHANGED cb

Unsupported ==
  /\ Processed
  /\ in.len > 0 /\ in.cmd \notin cb
  /\ Ack(FALSE) /\ ActsOn({})
  /\ UNCHANGED cb

Calls(c) == in.len > 0 /\ in.cmd = c /\ c \in cb

Handled(c) == Processed /\ Calls(c) /\ UNCHANGED cb
-----------------------------------------------------------------------------
(* The switch's handlers.                                                  *)

\* Which components come up is in SaiSwitch.
SwitchInit ==
  /\ Processed /\ Calls("SWITCH_INIT")
  /\ ActsOn({})
  /\ \E own \in {{}, SwitchCmd}, vlan \in {{}, VlanCmd} :
       \/ cb' = cb \cup own /\ Ack(FALSE)
       \/ /\ cb' = cb \cup own \cup PortCmd \cup FdbCmd \cup vlan \cup RouterCmd
          /\ Ack(FALSE) \/ Reply(TRUE, Put(0, SwitchInitResp), SwitchInitResp)

\* Every attribute is logged.
SwitchAttrSet == Handled("SWITCH_ATTR_SET") /\ ActsOn({}) /\ Ack(TRUE)

KeepaliveInit ==
  /\ Handled("KEEPALIVE_INIT")
  /\ ActsOn({KeepaliveReq.pulse_timeout_ms})
  /\ \E ok \in BOOLEAN : Ack(ok)

\* Ends the loop only if there is a switch, see SaiSwitch.
SwitchReset ==
  /\ pc = "process" /\ pc' \in {"recv", "done"}
  /\ Calls("SWITCH_RESET")
  /\ ActsOn({}) /\ Ack(TRUE)
  /\ UNCHANGED <<cb, buf, in, n, discarded>>
-----------------------------------------------------------------------------
(* The port's handlers.                                                    *)

\* hw_id and fp_id are the number of the port.
PortInfoGet ==
  /\ Handled("PORT_INFO_GET")
  /\ ActsOn({PortInfoReq.port})
  /\ Reply(TRUE, Put(0, PortInfoResp), PortInfoResp)

\* Only the PHY mode is more than logged, and only that can fail.
PortAttrSet ==
  /\ Handled("PORT_ATTR_SET")
  /\ \/ ActsOn({PortAttrReq.attr}) /\ Ack(TRUE)
     \/ /\ ActsOn({PortAttrReq.attr, PortAttrReq.port, PortAttrReq.admin})
        /\ \E ok \in BOOLEAN : Ack(ok)

\* The statistics go into a response of their own, and `resp` is sent.
PortAttrGet ==
  /\ Handled("PORT_ATTR_GET")
  /\ ActsOn({PortAttrReq.attr})
  /\ \E filled \in {PortAttrResp, PortStatsResp} :
       Reply(TRUE, Put(0, PortAttrResp), filled)
-----------------------------------------------------------------------------
(* The handlers of the VLANs, the FDB and the router.                      *)
VlanAcknowledged ==
  /\ Handled("VLAN_CREATE") \/ Handled("VLAN_DELETE")
  /\ ActsOn({}) /\ Ack(TRUE)

\* Adds the port to the VLAN, see SaiVlan; is_member is not looked at.
VlanPortSet ==
  /\ Handled("VLAN_PORT_SET")
  /\ ActsOn({VlanReq.port, VlanReq.vid})
  /\ \E ok \in BOOLEAN : Ack(ok)

VlanPvidSet ==
  /\ Handled("VLAN_PVID_SET")
  /\ ActsOn({VlanReq.port, VlanReq.vid})
  /\ \E ok \in BOOLEAN : Ack(ok)

StpPortSet == Handled("STP_PORT_SET") /\ ActsOn({}) /\ Ack(TRUE)

FdbFlushPort == Handled("FDB_FLUSH_PORT") /\ ActsOn({}) /\ Ack(TRUE)

\* A response with the id of the virtual router is put, then acknowledged.
RouterVrCreate ==
  /\ Handled("ROUTER_VR_CREATE") /\ ActsOn({})
  /\ Reply(TRUE, PutReplyAck(Put(0, VrResp)), VrResp)

RouterAcknowledged ==
  /\ \E c \in RouterCmd \ {"ROUTER_VR_CREATE"} : Handled(c)
  /\ ActsOn({}) /\ Ack(TRUE)
-----------------------------------------------------------------------------
Receive ==
  \/ \E len \in Lengths : RecvTooLong(len) \/ \E c \in Cmd : RecvRequest(c, len)
  \/ RecvMalformed \/ RecvSilent

Handler ==
  \/ TooShort \/ Unsupported
  \/ SwitchInit \/ SwitchAttrSet \/ KeepaliveInit \/ SwitchReset
  \/ PortInfoGet \/ PortAttrSet \/ PortAttrGet
  \/ VlanAcknowledged \/ VlanPortSet \/ VlanPvidSet \/ StpPortSet
  \/ FdbFlushPort \/ RouterVrCreate \/ RouterAcknowledged

Next == Receive \/ Handler

Spec == Init /\ [][Next]_vars
-----------------------------------------------------------------------------
\* Commands whose handlers act on fields of the request, with its length.
Structures ==
  {<<"KEEPALIVE_INIT", KeepaliveReq.words>>, <<"PORT_INFO_GET", PortInfoReq.words>>,
   <<"PORT_ATTR_SET", PortAttrReq.words>>, <<"PORT_ATTR_GET", PortAttrReq.words>>,
   <<"VLAN_PORT_SET", VlanReq.words>>, <<"VLAN_PVID_SET", VlanReq.words>>}

(* A request as long as its structure is acted on with its own words only, *)
(* whatever shorter and longer requests the buffer held before, also when  *)
(* it is processed again (saiagent_ipc.c:221-225, 350).  Only the rest of  *)
(* a short request comes from an earlier one.                              *)
WholeRequestIsOwn ==
  pc # "process" =>
    \A s \in Structures : in.cmd = s[1] /\ in.len >= s[2] => used \subseteq {in.seq}

(* A message the receive refused, too long or malformed, contributes       *)
(* nothing to what a handler acts on later, not even to the rest of a      *)
(* short request (saiagent_ipc.c:200-219).                                 *)
DiscardedLeavesNoTrace == used \cap discarded = {}

(* A reply is one structure, never the sum of two: a plain return or, if   *)
(* positive, the response of its command, although handlers put twice      *)
(* (saiagent_router.c:29-32) and share a buffer with the last reply.       *)
OneStructure ==
  pc # "process" /\ reply.size \notin {0, Ret} =>
    /\ reply.ok
    /\ <<in.cmd, reply.size>> \in {<<"SWITCH_INIT", SwitchInitResp>>,
                                   <<"PORT_INFO_GET", PortInfoResp>>,
                                   <<"PORT_ATTR_GET", PortAttrResp>>}

(* What a handler fills in is what the driver gets, whatever came before   *)
(* and however requests are replayed, but for two commands: a virtual      *)
(* router's id, and statistics (saiagent_router.c:32, saiagent_port.c:131).*)
TwoResponsesMissing ==
  pc # "process" /\ reply.size # reply.filled =>
    <<in.cmd, reply.filled>> \in {<<"ROUTER_VR_CREATE", VrResp>>,
                                  <<"PORT_ATTR_GET", PortStatsResp>>}
-----------------------------------------------------------------------------
(* tests/check_saiagent.c:81-97 pins the size of each response: 12 bytes   *)
(* for a virtual router, 248 for statistics.  The driver would get the     *)
(* response a handler fills in.                                            *)
ReplyHasResponseSize == reply.ok => reply.size = reply.filled
=============================================================================
