-------------------------- MODULE SaiProtocol_proofs --------------------------
(***************************************************************************)
(* Proofs about SaiProtocol, for buffers of any size, requests of any      *)
(* length and any number of them.                                          *)
(***************************************************************************)
EXTENDS SaiProtocol, TLAPS

(* What the buffer holds between two steps: the words of the request are   *)
(* its own, and no word is a discarded message's.                          *)
BufferInv ==
  /\ in.len < BufWords \/ in.seq = 0
  /\ \A w \in 1..BufWords :
       /\ w <= in.len => buf[w] = in.seq
       /\ buf[w] \notin discarded
       /\ buf[w] \in 0..n
  /\ in.seq \in 0..n /\ discarded \subseteq 1..n /\ used \subseteq 0..n

Inv ==
  /\ TypeOK /\ BufferInv
  /\ WholeRequestIsOwn /\ DiscardedLeavesNoTrace /\ OneStructure /\ TwoResponsesMissing

\* What a handler does to the buffers.
HandlerStep ==
  /\ pc = "process" /\ pc' \in {"recv", "done"}
  /\ cb' \subseteq Cmd
  /\ UNCHANGED <<buf, in, n, discarded>>
  /\ \E ws \in SUBSET (1..BufWords) :
       /\ used' = {buf[w] : w \in ws}
       /\ \A s \in Structures : in.cmd = s[1] => \A w \in ws : w <= s[2]
  /\ reply' \in [ok : BOOLEAN, size : 0..4*BufWords, filled : 0..PortStatsResp]
  /\ \/ reply'.size = Ret
     \/ /\ reply'.ok
        /\ <<in.cmd, reply'.size>> \in {<<"SWITCH_INIT", SwitchInitResp>>,
                                        <<"PORT_INFO_GET", PortInfoResp>>,
                                        <<"PORT_ATTR_GET", PortAttrResp>>}
  /\ \/ reply'.size = reply'.filled
     \/ <<in.cmd, reply'.filled>> \in {<<"ROUTER_VR_CREATE", VrResp>>,
                                       <<"PORT_ATTR_GET", PortStatsResp>>}

(* The replies: an acknowledgement clears what was put, and the buffer has *)
(* room for every response.                                                *)
LEMMA Replies ==
  /\ \A size \in Nat : PutReplyAck(size) = Ret
  /\ \A bytes \in {SwitchInitResp, PortInfoResp, PortAttrResp} : Put(0, bytes) = bytes
BY ProtocolAssumption
   DEF PutReplyAck, Put, Ret, SwitchInitResp, PortInfoResp, PortAttrResp

LEMMA AckReplies ==
  ASSUME NEW ok \in BOOLEAN, Ack(ok)
  PROVE  /\ reply' = [ok |-> ok, size |-> Ret, filled |-> Ret]
         /\ reply' \in [ok : BOOLEAN, size : 0..4*BufWords, filled : 0..PortStatsResp]
         /\ reply'.size = Ret /\ reply'.filled = Ret
<1>1. reply' = [ok |-> ok, size |-> Ret, filled |-> Ret]
  BY Replies DEF Ack, Reply
<1>2. Ret \in 0..4*BufWords /\ Ret \in 0..PortStatsResp
  BY ProtocolAssumption DEF Ret, PortStatsResp
<1> QED
  BY <1>1, <1>2

LEMMA ResponseReplies ==
  ASSUME NEW bytes \in {SwitchInitResp, PortInfoResp, PortAttrResp},
         NEW filled \in 0..PortStatsResp,
         Reply(TRUE, Put(0, bytes), filled)
  PROVE  /\ reply' \in [ok : BOOLEAN, size : 0..4*BufWords, filled : 0..PortStatsResp]
         /\ reply'.size = bytes /\ reply'.filled = filled /\ reply'.ok
<1>1. reply' = [ok |-> TRUE, size |-> bytes, filled |-> filled]
  BY Replies DEF Reply
<1>2. bytes \in 0..4*BufWords
  BY ProtocolAssumption DEF SwitchInitResp, PortInfoResp, PortAttrResp
<1> QED
  BY <1>1, <1>2

LEMMA CommandSets ==
  /\ SwitchCmd \cup PortCmd \cup FdbCmd \cup VlanCmd \cup RouterCmd \subseteq Cmd
  /\ Ret \in 0..PortStatsResp
  /\ {SwitchInitResp, PortInfoResp, PortAttrResp, PortStatsResp} \subseteq 0..PortStatsResp
BY DEF Cmd, Ret, SwitchInitResp, PortInfoResp, PortAttrResp, PortStatsResp

\* A handler that acts on the words ws and acknowledges.
LEMMA AckStep ==
  ASSUME TypeOK, NEW ws \in SUBSET (1..BufWords), NEW ok \in BOOLEAN,
         pc = "process", pc' \in {"recv", "done"}, cb' \subseteq Cmd,
         UNCHANGED <<buf, in, n, discarded>>,
         ActsOn(ws), Ack(ok),
         \A s \in Structures : in.cmd = s[1] => \A w \in ws : w <= s[2]
  PROVE  HandlerStep
<1>1. /\ reply' \in [ok : BOOLEAN, size : 0..4*BufWords, filled : 0..PortStatsResp]
      /\ reply'.size = Ret /\ reply'.filled = Ret
  BY AckReplies
<1> QED
  BY <1>1 DEF HandlerStep, ActsOn

LEMMA Fields ==
  /\ {} \in SUBSET (1..BufWords)
  /\ {2} \in SUBSET (1..BufWords) /\ {2, 4} \in SUBSET (1..BufWords)
  /\ {2, 3, 8} \in SUBSET (1..BufWords)
BY ProtocolAssumption

(* Where the fields are, and that each is inside its structure.            *)
LEMMA FieldWords ==
  /\ KeepaliveReq.pulse_timeout_ms = 2 /\ KeepaliveReq.words = 2
  /\ PortInfoReq.port = 2 /\ PortInfoReq.words = 2
  /\ PortAttrReq.attr = 2 /\ PortAttrReq.port = 3 /\ PortAttrReq.admin = 8
  /\ PortAttrReq.words = 36
  /\ VlanReq.port = 2 /\ VlanReq.vid = 4 /\ VlanReq.words = 4
BY DEF KeepaliveReq, PortInfoReq, PortAttrReq, VlanReq

LEMMA Layouts ==
  ASSUME NEW s \in Structures
  PROVE  /\ 2 <= s[2]
         /\ s[1] \in {"VLAN_PORT_SET", "VLAN_PVID_SET"} => 4 <= s[2]
         /\ s[1] \in {"PORT_ATTR_SET", "PORT_ATTR_GET"} => 3 <= s[2] /\ 8 <= s[2]
BY FieldWords DEF Structures

(* One step per handler.                                                   *)
LEMMA HandlerIsStep == TypeOK /\ Handler => HandlerStep
<1> SUFFICES ASSUME TypeOK, Handler PROVE HandlerStep
  OBVIOUS
<1> USE DEF TypeOK, Processed, Handled, Calls
<1>1. CASE TooShort \/ Unsupported
  BY <1>1, Fields, AckStep DEF TooShort, Unsupported
<1>2. CASE SwitchInit
  <2>1. PICK own \in {{}, SwitchCmd}, vlan \in {{}, VlanCmd} :
          \/ cb' = cb \cup own /\ Ack(FALSE)
          \/ /\ cb' = cb \cup own \cup PortCmd \cup FdbCmd \cup vlan \cup RouterCmd
             /\ Ack(FALSE) \/ Reply(TRUE, Put(0, SwitchInitResp), SwitchInitResp)
    BY <1>2 DEF SwitchInit
  <2>2. cb' \subseteq Cmd
    BY <2>1, CommandSets
  <2>3. CASE Ack(FALSE)
    BY <1>2, <2>2, <2>3, Fields, AckStep DEF SwitchInit
  <2>4. CASE Reply(TRUE, Put(0, SwitchInitResp), SwitchInitResp)
    <3>1. /\ reply' \in [ok : BOOLEAN, size : 0..4*BufWords, filled : 0..PortStatsResp]
          /\ reply'.size = SwitchInitResp /\ reply'.filled = SwitchInitResp /\ reply'.ok
      BY <2>4, CommandSets, ResponseReplies
    <3> QED
      BY <1>2, <2>2, <3>1, Fields DEF SwitchInit, ActsOn, HandlerStep
  <2> QED
    BY <2>1, <2>3, <2>4
<1>3. CASE SwitchAttrSet \/ SwitchReset \/ VlanAcknowledged \/ StpPortSet \/ FdbFlushPort
             \/ RouterAcknowledged
  BY <1>3, Fields, AckStep
     DEF SwitchAttrSet, SwitchReset, VlanAcknowledged, StpPortSet, FdbFlushPort,
         RouterAcknowledged
<1>4. CASE KeepaliveInit
  <2>1. ActsOn({2})
    BY <1>4, FieldWords DEF KeepaliveInit
  <2>2. \A s \in Structures : in.cmd = s[1] => \A w \in {2} : w <= s[2]
    BY Layouts
  <2> QED
    BY <1>4, <2>1, <2>2, Fields, AckStep DEF KeepaliveInit
<1>5. CASE PortInfoGet
  <2>1. /\ reply' \in [ok : BOOLEAN, size : 0..4*BufWords, filled : 0..PortStatsResp]
        /\ reply'.size = PortInfoResp /\ reply'.filled = PortInfoResp /\ reply'.ok
    BY <1>5, CommandSets, ResponseReplies DEF PortInfoGet
  <2>2. ActsOn({2})
    BY <1>5, FieldWords DEF PortInfoGet
  <2>3. \A s \in Structures : in.cmd = s[1] => \A w \in {2} : w <= s[2]
    BY Layouts
  <2> QED
    BY <1>5, <2>1, <2>2, <2>3, Fields DEF PortInfoGet, ActsOn, HandlerStep
<1>6. CASE PortAttrSet
  <2>1. in.cmd = "PORT_ATTR_SET"
    BY <1>6 DEF PortAttrSet
  <2>2. /\ \A s \in Structures : in.cmd = s[1] => \A w \in {2} : w <= s[2]
        /\ \A s \in Structures : in.cmd = s[1] => \A w \in {2, 3, 8} : w <= s[2]
    BY <2>1, Layouts
  <2>3. CASE ActsOn({2}) /\ Ack(TRUE)
    BY <1>6, <2>2, <2>3, Fields, AckStep DEF PortAttrSet
  <2>4. ASSUME NEW ok \in BOOLEAN, ActsOn({2, 3, 8}), Ack(ok) PROVE HandlerStep
    BY <1>6, <2>2, <2>4, Fields, AckStep DEF PortAttrSet
  <2> QED
    BY <1>6, <2>3, <2>4, FieldWords DEF PortAttrSet
<1>7. CASE PortAttrGet
  <2>1. PICK filled \in {PortAttrResp, PortStatsResp} :
          Reply(TRUE, Put(0, PortAttrResp), filled)
    BY <1>7 DEF PortAttrGet
  <2>2. /\ reply' \in [ok : BOOLEAN, size : 0..4*BufWords, filled : 0..PortStatsResp]
        /\ reply'.size = PortAttrResp /\ reply'.filled = filled /\ reply'.ok
    BY <2>1, CommandSets, ResponseReplies
  <2>3. ActsOn({2})
    BY <1>7, FieldWords DEF PortAttrGet
  <2>4. \A s \in Structures : in.cmd = s[1] => \A w \in {2} : w <= s[2]
    BY Layouts
  <2> QED
    BY <1>7, <2>1, <2>2, <2>3, <2>4, Fields DEF PortAttrGet, ActsOn, HandlerStep
<1>8. CASE VlanPortSet \/ VlanPvidSet
  <2>1. in.cmd \in {"VLAN_PORT_SET", "VLAN_PVID_SET"} /\ ActsOn({2, 4})
    BY <1>8, FieldWords DEF VlanPortSet, VlanPvidSet
  <2>2. \A s \in Structures : in.cmd = s[1] => \A w \in {2, 4} : w <= s[2]
    BY <2>1, Layouts
  <2> QED
    BY <1>8, <2>1, <2>2, Fields, AckStep DEF VlanPortSet, VlanPvidSet
<1>9. CASE RouterVrCreate
  <2>1. Put(0, VrResp) \in Nat
    BY ProtocolAssumption DEF Put, VrResp
  <2>2. reply' = [ok |-> TRUE, size |-> Ret, filled |-> VrResp]
    BY <1>9, <2>1, Replies DEF RouterVrCreate, Reply
  <2>3. Ret \in 0..4*BufWords /\ VrResp \in 0..PortStatsResp
    BY ProtocolAssumption DEF Ret, VrResp, PortStatsResp
  <2>4. /\ reply' \in [ok : BOOLEAN, size : 0..4*BufWords, filled : 0..PortStatsResp]
        /\ reply'.size = Ret /\ reply'.filled = VrResp
    BY <2>2, <2>3
  <2> QED
    BY <1>9, <2>4, Fields DEF RouterVrCreate, ActsOn, HandlerStep
<1> QED
  BY <1>1, <1>2, <1>3, <1>4, <1>5, <1>6, <1>7, <1>8, <1>9 DEF Handler

LEMMA InitInv == Init => Inv
<1> SUFFICES ASSUME Init PROVE Inv
  OBVIOUS
<1>1. in \in [seq : 0..MaxReq, cmd : Cmd, len : Lengths, err : BOOLEAN] /\ in.seq = 0
  BY ProtocolAssumption DEF Init
<1>2. reply \in [ok : BOOLEAN, size : 0..4*BufWords, filled : 0..PortStatsResp]
  BY ProtocolAssumption DEF Init, PortStatsResp
<1>3. TypeOK
  BY <1>1, <1>2, ProtocolAssumption DEF Init, TypeOK, Cmd
<1>4. BufferInv
  BY <1>1, ProtocolAssumption DEF Init, BufferInv
<1>5. reply.size = 0 /\ reply.filled = 0
  BY DEF Init
<1> QED
  BY <1>3, <1>4, <1>5 DEF Init, Inv, WholeRequestIsOwn, DiscardedLeavesNoTrace, OneStructure,
     TwoResponsesMissing

LEMMA HandlerInv == Inv /\ HandlerStep => Inv'
<1> SUFFICES ASSUME Inv, HandlerStep PROVE Inv'
  OBVIOUS
<1>1. PICK ws \in SUBSET (1..BufWords) :
        /\ used' = {buf[w] : w \in ws}
        /\ \A s \in Structures : in.cmd = s[1] => \A w \in ws : w <= s[2]
  BY DEF HandlerStep
<1>2. used' \subseteq 0..MaxReq
  BY <1>1 DEF Inv, TypeOK
<1>3. TypeOK'
  BY <1>2 DEF Inv, TypeOK, HandlerStep
<1>4. BufferInv'
  BY <1>1 DEF Inv, BufferInv, HandlerStep
<1>5. WholeRequestIsOwn'
  <2>1. SUFFICES ASSUME NEW s \in Structures, in.cmd = s[1], in.len >= s[2], NEW w \in ws
                 PROVE  buf[w] = in.seq
    BY <1>1 DEF WholeRequestIsOwn, HandlerStep
  <2>2. s[2] \in Nat /\ in.len \in Nat /\ w \in 1..BufWords
    <3>1. s[2] \in Nat
      BY <2>1, FieldWords DEF Structures
    <3>2. in.len \in Nat
      BY ProtocolAssumption DEF Inv, TypeOK
    <3> QED
      BY <1>1, <2>1, <3>1, <3>2
  <2>3. w <= in.len
    BY <1>1, <2>1, <2>2, ProtocolAssumption
  <2> QED
    BY <2>2, <2>3 DEF Inv, BufferInv
<1>6. DiscardedLeavesNoTrace'
  BY <1>1 DEF Inv, BufferInv, DiscardedLeavesNoTrace, HandlerStep
<1>7. OneStructure' /\ TwoResponsesMissing'
  BY DEF OneStructure, TwoResponsesMissing, HandlerStep
<1> QED
  BY <1>3, <1>4, <1>5, <1>6, <1>7 DEF Inv

LEMMA RequestInv ==
  ASSUME Inv, NEW c \in Cmd, NEW len \in Lengths, RecvRequest(c, len) PROVE Inv'
<1>1. n' = n + 1 /\ n' \in 1..MaxReq /\ n \in Nat /\ n' \in 0..MaxReq
  BY ProtocolAssumption DEF RecvRequest, Message, Inv, TypeOK
<1>2. len \in Nat /\ len < BufWords
  BY ProtocolAssumption DEF RecvRequest
<1>3. /\ in' = [seq |-> n', cmd |-> c, len |-> len, err |-> FALSE]
      /\ buf' = [w \in 1..BufWords |-> IF w <= len THEN n' ELSE buf[w]]
      /\ pc' = "process"
      /\ UNCHANGED <<cb, reply, used, discarded>>
  BY DEF RecvRequest
<1>4. TypeOK'
  <2>1. in' \in [seq : 0..MaxReq, cmd : Cmd, len : Lengths, err : BOOLEAN]
    BY <1>1, <1>3
  <2>2. buf' \in [1..BufWords -> 0..MaxReq]
    BY <1>1, <1>3 DEF Inv, TypeOK
  <2> QED
    BY <1>1, <1>3, <2>1, <2>2 DEF Inv, TypeOK
<1>5. BufferInv'
  <2>1. in'.len = len /\ in'.seq = n'
    BY <1>3
  <2>2. discarded \subseteq 1..n /\ n' \notin discarded
    BY <1>1 DEF Inv, BufferInv
  <2>3. ASSUME NEW w \in 1..BufWords
        PROVE  /\ w <= len => buf'[w] = n'
               /\ buf'[w] \notin discarded /\ buf'[w] \in 0..n'
    BY <1>1, <1>2, <1>3, <2>2, <2>3 DEF Inv, BufferInv
  <2>4. discarded \subseteq 1..n' /\ n' \in 0..n' /\ used \subseteq 0..n'
    BY <1>1, <2>2 DEF Inv, BufferInv
  <2> QED
    BY <1>2, <1>3, <2>1, <2>3, <2>4 DEF BufferInv
<1> QED
  BY <1>3, <1>4, <1>5 DEF Inv, WholeRequestIsOwn, DiscardedLeavesNoTrace, OneStructure,
     TwoResponsesMissing

\* A receive that delivers nothing.
LEMMA RefusedInv ==
  ASSUME Inv, RecvMalformed \/ \E len \in Lengths : RecvTooLong(len) PROVE Inv'
<1>1. n' = n + 1 /\ n' \in 1..MaxReq /\ n \in Nat /\ n' \in 0..MaxReq
  BY ProtocolAssumption DEF RecvTooLong, RecvMalformed, Message, Inv, TypeOK
<1>2. /\ pc = "recv" /\ in' = [in EXCEPT !.err = TRUE]
      /\ discarded' = discarded \cup {n'}
      /\ UNCHANGED <<cb, buf, pc, reply, used>>
  BY DEF RecvTooLong, RecvMalformed, Message
<1>3. /\ in' \in [seq : 0..MaxReq, cmd : Cmd, len : Lengths, err : BOOLEAN]
      /\ in'.len = in.len /\ in'.seq = in.seq /\ in'.cmd = in.cmd
  BY <1>2 DEF Inv, TypeOK
<1>4. TypeOK'
  BY <1>1, <1>2, <1>3 DEF Inv, TypeOK
<1>5. BufferInv'
  <2>1. \A w \in 1..BufWords : buf[w] # n'
    BY <1>1 DEF Inv, BufferInv
  <2> QED
    BY <1>1, <1>2, <1>3, <2>1 DEF Inv, BufferInv
<1>6. WholeRequestIsOwn' /\ OneStructure' /\ TwoResponsesMissing'
  BY <1>2, <1>3 DEF Inv, WholeRequestIsOwn, OneStructure, TwoResponsesMissing
<1>7. DiscardedLeavesNoTrace'
  <2>1. n' \notin used
    BY <1>1 DEF Inv, BufferInv
  <2> QED
    BY <1>2, <2>1 DEF Inv, DiscardedLeavesNoTrace
<1> QED
  BY <1>4, <1>5, <1>6, <1>7 DEF Inv

LEMMA NextInv == Inv /\ [Next]_vars => Inv'
<1> SUFFICES ASSUME Inv, [Next]_vars PROVE Inv'
  OBVIOUS
<1>1. CASE Handler
  BY <1>1, HandlerIsStep, HandlerInv DEF Inv
<1>2. ASSUME NEW c \in Cmd, NEW len \in Lengths, RecvRequest(c, len) PROVE Inv'
  BY <1>2, RequestInv
<1>3. CASE RecvMalformed \/ \E len \in Lengths : RecvTooLong(len)
  BY <1>3, RefusedInv
<1>4. CASE RecvSilent
  BY <1>4 DEF RecvSilent, Inv, TypeOK, BufferInv, WholeRequestIsOwn,
     DiscardedLeavesNoTrace, OneStructure, TwoResponsesMissing
<1>5. CASE UNCHANGED vars
  BY <1>5 DEF vars, Inv, TypeOK, BufferInv, WholeRequestIsOwn,
     DiscardedLeavesNoTrace, OneStructure, TwoResponsesMissing
<1> QED
  BY <1>1, <1>2, <1>3, <1>4, <1>5 DEF Next, Receive

LEMMA SpecInv == Spec => []Inv
BY InitInv, NextInv, PTL DEF Spec

(* The buffers and the request are what their types say (saiagent_ipc.c:   *)
(* 331-363).                                                               *)
THEOREM ProtocolTypeCorrect == Spec => []TypeOK
<1>1. Inv => TypeOK
  BY DEF Inv
<1> QED
  BY <1>1, SpecInv, PTL

(* For requests of any length in any order, one that is as long as its     *)
(* structure is acted on with its own words only (saiagent_ipc.c:221-225). *)
THEOREM WholeRequestIsSafe == Spec => []WholeRequestIsOwn
<1>1. Inv => WholeRequestIsOwn
  BY DEF Inv
<1> QED
  BY <1>1, SpecInv, PTL

(* No handler ever acts on a word of a message the receive refused         *)
(* (saiagent_ipc.c:200-219).                                               *)
THEOREM DiscardedIsGone == Spec => []DiscardedLeavesNoTrace
<1>1. Inv => DiscardedLeavesNoTrace
  BY DEF Inv
<1> QED
  BY <1>1, SpecInv, PTL

(* Every reply is one structure, of the command it answers if it is not a  *)
(* plain return (saiagent_ipc.c:255-256, saiagent_router.c:29-32).         *)
THEOREM ReplyIsOneStructure == Spec => []OneStructure
<1>1. Inv => OneStructure
  BY DEF Inv
<1> QED
  BY <1>1, SpecInv, PTL

(* For any sequence of requests, a reply that is not the response its      *)
(* handler filled in is the one to VR_CREATE or to a request for           *)
(* statistics: the two that the check of the sizes misses, and no other    *)
(* (saiagent_router.c:29-32, saiagent_port.c:98-132).                      *)
THEOREM OnlyTwoResponsesMissing == Spec => []TwoResponsesMissing
<1>1. Inv => TwoResponsesMissing
  BY DEF Inv
<1> QED
  BY <1>1, SpecInv, PTL
=============================================================================
