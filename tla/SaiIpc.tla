------------------------------- MODULE SaiIpc -------------------------------
(***************************************************************************)
(* The IPC component, src/src/saiagent_ipc.c: resolving the driver's       *)
(* netlink family, the DRV_INIT handshake and the request loop.  The       *)
(* driver and the netlink socket are the environment: a bounded queue that *)
(* drops what does not fit and reports the overrun on the next receive.    *)
(***************************************************************************)
EXTENDS Naturals, Sequences, FiniteSets

CONSTANTS MaxSeq,    \* bound: number of messages the driver sends
          Cap,       \* capacity of the socket
          Kinds      \* kinds of messages that may arrive

(* req     a TLV of a size that fits                                       *)
(* stop    the same, and its handler stops the loop                        *)
(* ack     DRV_INIT_ACK                                                    *)
(* bad     the receive callback finds no usable TLV                        *)
(* nlerr   nl_recvmsgs fails                                               *)
(* silent  nl_recvmsgs returns 0 and no callback ran                       *)
AllKinds == {"req", "stop", "ack", "bad", "nlerr", "silent"}

ASSUME IpcAssumption ==
  MaxSeq \in Nat /\ Cap \in Nat \ {0} /\ Kinds \subseteq AllKinds

VARIABLES
  family,    \* the driver has registered its netlink family
  queue,     \* datagrams in the socket
  overrun,   \* a datagram was dropped and nobody was told yet
  sent,      \* number of messages the driver has sent
  greeted,   \* history: the driver's first DRV_INIT_ACK, or 0
  pc,        \* where the main thread is
  hello,     \* status of sending DRV_INIT, kept in drv_init's `status`
  inMsg,     \* in_msg: seq and kind of what the buffer holds, and err
  running,   \* ctx.running
  out,       \* sequence numbers of the replies that reached the driver
  replays    \* history: number of requests processed once more

vars == <<family, queue, overrun, sent, greeted, pc, hello, inMsg, running, out, replays>>

Status == {"OK", "ERR"}
Message == [seq : 1..MaxSeq, kind : Kinds]
InLoop == {"recv", "process", "send"}

TypeOK ==
  /\ family \in BOOLEAN /\ overrun \in BOOLEAN /\ running \in BOOLEAN
  /\ queue \in Seq(Message) /\ Len(queue) <= Cap
  /\ sent \in 0..MaxSeq /\ greeted \in 0..MaxSeq
  /\ pc \in {"connect", "resolve", "hello", "wait", "done", "failed"} \cup InLoop
  /\ hello \in Status
  /\ inMsg \in [seq : 0..MaxSeq, kind : AllKinds, err : Status]
  /\ out \in Seq(0..MaxSeq) /\ replays \in 0..MaxSeq

\* in_msg.err is never initialised; a buffer without a request has seq 0.
Init ==
  /\ family \in BOOLEAN /\ queue = << >> /\ overrun = FALSE /\ sent = 0 /\ greeted = 0
  /\ pc = "connect" /\ hello = "OK" /\ running = FALSE
  /\ inMsg \in {[seq |-> 0, kind |-> "req", err |-> e] : e \in Status}
  /\ out = << >> /\ replays = 0
-----------------------------------------------------------------------------
(* The driver and the socket.                                              *)
RegisterFamily ==
  /\ ~family
  /\ family' = TRUE
  /\ UNCHANGED <<queue, overrun, sent, greeted, pc, hello, inMsg, running, out, replays>>

Listening == pc \in {"hello", "wait"} \cup InLoop

DriverSends(k) ==
  /\ family /\ sent < MaxSeq
  /\ sent' = sent + 1
  /\ greeted' = IF greeted = 0 /\ k = "ack" THEN sent' ELSE greeted
  /\ IF Listening /\ Len(queue) < Cap
     THEN queue' = Append(queue, [seq |-> sent', kind |-> k]) /\ UNCHANGED overrun
     ELSE UNCHANGED queue /\ overrun' = (overrun \/ Listening)
  /\ UNCHANGED <<family, pc, hello, inMsg, running, out, replays>>
-----------------------------------------------------------------------------
(* Start-up.                                                               *)

\* saiagent_ipc_init gives up if there is no socket to ask with.
IpcConnect ==
  /\ pc = "connect"
  /\ pc' \in {"resolve", "failed"}
  /\ UNCHANGED <<family, queue, overrun, sent, greeted, hello, inMsg, running, out, replays>>

\* It asks for the family until it is there; then it joins the group, or
\* gives up on the first error.
IpcInit ==
  /\ pc = "resolve" /\ family
  /\ pc' \in {"hello", "failed"}
  /\ UNCHANGED <<family, queue, overrun, sent, greeted, hello, inMsg, running, out, replays>>

\* saiagent_ipc_drv_init waits for an answer even if nothing was sent.
DrvInitSend ==
  /\ pc = "hello"
  /\ hello' \in Status
  /\ pc' = "wait"
  /\ UNCHANGED <<family, queue, overrun, sent, greeted, inMsg, running, out, replays>>

Receive ==
  /\ ~overrun /\ queue # << >>
  /\ queue' = Tail(queue)
  /\ UNCHANGED overrun

\* An overrun is reported before anything queued is.
ReceiveOverrun ==
  /\ overrun
  /\ overrun' = FALSE
  /\ UNCHANGED queue

MutDrvInitWait ==           \* mutant: any answer is taken for the acknowledgement
  /\ pc = "wait"
  /\ \/ Receive /\ pc' = IF hello = "OK" THEN "recv" ELSE "failed"
     \/ ReceiveOverrun /\ pc' = "failed"
  /\ running' = (pc' = "recv")
  /\ UNCHANGED <<family, sent, greeted, hello, inMsg, out, replays>>

\* Whatever arrives first decides; saiagent_ipc_enter_loop sets ctx.running.
DrvInitWait ==
  /\ pc = "wait"
  /\ \/ Receive /\ pc' = IF Head(queue).kind = "ack" /\ hello = "OK" THEN "recv" ELSE "failed"
     \/ ReceiveOverrun /\ pc' = "failed"
  /\ running' = (pc' = "recv")
  /\ UNCHANGED <<family, sent, greeted, hello, inMsg, out, replays>>
-----------------------------------------------------------------------------
(* saiagent_ipc_enter_loop.                                                *)

MutRecvFails ==             \* mutant: a failed receive is tried again for ever
  /\ pc = "recv"
  /\ (overrun \/ (queue # << >> /\ Head(queue).kind = "nlerr"))
  /\ UNCHANGED vars

\* nl_recvmsgs fails: in_msg is left as it was.
RecvFails ==
  /\ pc = "recv"
  /\ ReceiveOverrun \/ (Receive /\ Head(queue).kind = "nlerr")
  /\ UNCHANGED <<family, sent, greeted, pc, hello, inMsg, running, out, replays>>

MutRecvBad ==               \* mutant: the callback's error is not passed on
  /\ pc = "recv"
  /\ Receive /\ Head(queue).kind \in {"bad", "ack"}
  /\ pc' = "process"
  /\ UNCHANGED <<family, sent, greeted, hello, inMsg, running, out, replays>>

\* The callback found nothing to process.
RecvBad ==
  /\ pc = "recv"
  /\ Receive /\ Head(queue).kind \in {"bad", "ack"}
  /\ inMsg' = [inMsg EXCEPT !.err = "ERR"]
  /\ UNCHANGED <<family, sent, greeted, pc, hello, running, out, replays>>

MutRecvRequest ==           \* mutant: the sequence number of the first request is kept
  /\ pc = "recv"
  /\ Receive /\ Head(queue).kind \in {"req", "stop"}
  /\ inMsg' = [seq  |-> IF inMsg.seq = 0 THEN Head(queue).seq ELSE inMsg.seq,
               kind |-> Head(queue).kind, err |-> "OK"]
  /\ pc' = "process"
  /\ UNCHANGED <<family, sent, greeted, hello, running, out, replays>>

RecvRequest ==
  /\ pc = "recv"
  /\ Receive /\ Head(queue).kind \in {"req", "stop"}
  /\ inMsg' = [seq |-> Head(queue).seq, kind |-> Head(queue).kind, err |-> "OK"]
  /\ pc' = "process"
  /\ UNCHANGED <<family, sent, greeted, hello, running, out, replays>>

\* No callback ran: in_msg.err is that of the last message, and if it was
\* good, its request is processed once more.
RecvSilent ==
  /\ pc = "recv"
  /\ Receive /\ Head(queue).kind = "silent"
  /\ IF inMsg.err = "OK"
     THEN pc' = "process" /\ replays' = replays + 1
     ELSE UNCHANGED <<pc, replays>>
  /\ UNCHANGED <<family, sent, greeted, hello, inMsg, running, out>>

MutProcess ==               \* mutant: the loop's flag is set again by each request
  /\ pc = "process"
  /\ running' = TRUE
  /\ pc' = "send"
  /\ UNCHANGED <<family, queue, overrun, sent, greeted, hello, inMsg, out, replays>>

\* saiagent_ipc_process_req: there is a reply whatever the request is.
Process ==
  /\ pc = "process"
  /\ running' = (running /\ inMsg.kind # "stop")
  /\ pc' = "send"
  /\ UNCHANGED <<family, queue, overrun, sent, greeted, hello, inMsg, out, replays>>

\* The reply is sent, or logged as an error and forgotten; then `while`.
SendReply ==
  /\ pc = "send"
  /\ out' \in {out, Append(out, inMsg.seq)}
  /\ pc' = IF running THEN "recv" ELSE "done"
  /\ UNCHANGED <<family, queue, overrun, sent, greeted, hello, inMsg, running, replays>>

Main ==
  \/ IpcConnect \/ IpcInit \/ DrvInitSend \/ DrvInitWait
  \/ RecvFails \/ RecvBad \/ RecvRequest \/ RecvSilent
  \/ Process \/ SendReply

Environment == RegisterFamily \/ \E k \in Kinds : DriverSends(k)

Next == Main \/ Environment

\* The main thread runs while it is not blocked in a receive.
Spec == Init /\ [][Next]_vars /\ WF_vars(Main)
-----------------------------------------------------------------------------
Queued == {queue[i].seq : i \in DOMAIN queue}
Silent == {queue[i].seq : i \in {j \in DOMAIN queue : queue[j].kind = "silent"}}
Answered == {out[i] : i \in DOMAIN out}
Open == IF pc \in {"process", "send"} THEN {inMsg.seq} ELSE {}

(* The answers come in the order of the requests, also after failed        *)
(* receives and messages without a TLV, and a request is answered again    *)
(* only when a receive that delivered nothing made the loop process it     *)
(* once more (saiagent_ipc.c:235-245, 341-363).                            *)
AnswersInOrder ==
  /\ \A i, j \in DOMAIN out : i < j => out[i] <= out[j]
  /\ Len(out) <= Cardinality(Answered) + replays

(* No request the driver sent before its DRV_INIT_ACK is answered, however *)
(* the socket drops and the receives fail: what is read first must be an   *)
(* acknowledgement, and the agent gives up on anything else; only an empty *)
(* buffer, without a request, may be answered (saiagent_ipc.c:303-313).    *)
NoAnswerBeforeAck == \A s \in Answered \ {0} : greeted # 0 /\ s > greeted

(* A queued request is opened, unless the agent ends first: one receive    *)
(* that fails or finds nothing does not stop the loop                      *)
(* (saiagent_ipc.c:344-348).                                               *)
QueuedIsOpened ==
  \A s \in 1..MaxSeq : s \in Queued ~> (s \notin Queued \/ pc \in {"done", "failed"})

(* A stop request is processed to the end: it may lose its answer, but     *)
(* the loop ends, and nothing is received after it                         *)
(* (saiagent_ipc.c:341, 357, 372).                                         *)
StopEndsLoop == (pc = "process" /\ inMsg.kind = "stop") ~> pc = "done"

(* Nothing but a stop request ends the loop, no failed receive, malformed  *)
(* message or lost reply, and the loop receives nothing after one          *)
(* (saiagent_ipc.c:341-372).                                               *)
OnlyStopEndsLoop ==
  /\ pc = "done" => inMsg.kind = "stop"
  /\ inMsg.kind = "stop" => pc \in {"process", "send", "done"}

(* Refinement: numbered requests, opened one at a time and in order; only  *)
(* silent messages make the latest one be opened again.                    *)
Fate ==
  [s \in 1..MaxSeq |->
    IF s > sent THEN "unsent"
    ELSE IF s \in Silent THEN "empty"
    ELSE IF s \in Queued THEN "queued"
    ELSE IF s \in Open THEN "open"
    ELSE IF s \in Answered THEN "answered" ELSE "lost"]

S == INSTANCE Server WITH fate <- Fate, cur <- inMsg.seq

ImplementsServer == S!Spec
=============================================================================
