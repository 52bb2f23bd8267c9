----------------------------- MODULE SaiIpc_proofs -----------------------------
(***************************************************************************)
(* Proofs about SaiIpc, for any number of messages and a socket of any     *)
(* size: the state is typed, the answers come in order, and only to what   *)
(* was sent after the driver's acknowledgement.                            *)
(***************************************************************************)
EXTENDS SaiIpc, FiniteSetTheorems, TLAPS

(* Messages keep the order of their numbers on the way from the driver     *)
(* through the socket into in_msg, and each replay used up a message.      *)
FlowInv ==
  /\ \A i, j \in DOMAIN queue : i < j => queue[i].seq < queue[j].seq
  /\ \A i \in DOMAIN queue : inMsg.seq < queue[i].seq /\ queue[i].seq <= sent
  /\ inMsg.seq <= sent
  /\ replays + Len(queue) <= sent

(* The answers so far are to in_msg and what came before it, and what is   *)
(* processed is either new or a replay that was counted.                   *)
AnswerInv ==
  /\ \A i, j \in DOMAIN out : i < j => out[i] <= out[j]
  /\ \A i \in DOMAIN out : out[i] <= inMsg.seq
  /\ Len(out) <= Cardinality(Answered) + replays
  /\ pc \in {"process", "send"} /\ inMsg.seq \in Answered
       => Len(out) + 1 <= Cardinality(Answered) + replays

Inv == TypeOK /\ FlowInv /\ AnswerInv

LEMMA ElementsOf ==
  ASSUME NEW T, NEW q \in Seq(T) PROVE \A i \in DOMAIN q : q[i] \in T
OBVIOUS

LEMMA MessagesAreNumbered ==
  ASSUME NEW q \in Seq(Message) PROVE \A i \in DOMAIN q : q[i].seq \in Nat
<1>1. \A i \in DOMAIN q : q[i] \in Message
  BY ElementsOf
<1>2. \A m \in Message : m.seq \in Nat
  BY IpcAssumption DEF Message
<1> QED
  BY <1>1, <1>2

LEMMA AnsweredIsFinite ==
  ASSUME TypeOK PROVE IsFiniteSet(Answered) /\ Cardinality(Answered) \in Nat
<1>1. Answered \subseteq 0..MaxSeq
  <2>1. out \in Seq(0..MaxSeq)
    BY DEF TypeOK
  <2>2. \A i \in DOMAIN out : out[i] \in 0..MaxSeq
    BY <2>1, ElementsOf, Zenon
  <2> QED
    BY <2>2 DEF Answered
<1>2. IsFiniteSet(0..MaxSeq)
  <2>1. 0 \in Int /\ MaxSeq \in Int
    BY IpcAssumption
  <2> QED
    BY <2>1, FS_Interval
<1> QED
  BY <1>1, <1>2, FS_Subset, FS_CardinalityType

\* A receive takes the first message of the socket, if it takes any.
LEMMA ReceiveFlow ==
  ASSUME TypeOK, FlowInv, Receive
  PROVE  /\ queue' \in Seq(Message) /\ Len(queue') = Len(queue) - 1 /\ Len(queue) >= 1
         /\ Head(queue) \in Message
         /\ Head(queue).seq \in 1..MaxSeq /\ Head(queue).kind \in Kinds
         /\ inMsg.seq < Head(queue).seq /\ Head(queue).seq <= sent
         /\ \A i \in DOMAIN queue' : queue'[i] = queue[i + 1] /\ i + 1 \in DOMAIN queue
         /\ \A i \in DOMAIN queue' : Head(queue).seq < queue'[i].seq /\ queue'[i].seq <= sent
         /\ \A i, j \in DOMAIN queue' : i < j => queue'[i].seq < queue'[j].seq
<1>1. queue \in Seq(Message) /\ queue # << >> /\ queue' = Tail(queue)
  BY DEF TypeOK, Receive
<1>2. /\ queue' \in Seq(Message) /\ Len(queue') = Len(queue) - 1 /\ Len(queue) >= 1
      /\ Len(queue) \in Nat /\ DOMAIN queue = 1..Len(queue) /\ DOMAIN queue' = 1..Len(queue')
      /\ Head(queue) = queue[1] /\ 1 \in DOMAIN queue /\ Head(queue) \in Message
      /\ \A i \in DOMAIN queue' : queue'[i] = queue[i + 1] /\ i + 1 \in DOMAIN queue
  BY <1>1
<1>3. /\ Head(queue).seq \in 1..MaxSeq /\ Head(queue).kind \in Kinds
      /\ \A i \in DOMAIN queue : queue[i].seq \in Nat
  <2>1. \A i \in DOMAIN queue : queue[i] \in Message
    BY <1>1
  <2> QED
    BY <1>2, <2>1, IpcAssumption DEF Message
<1>4. /\ inMsg.seq < Head(queue).seq /\ Head(queue).seq <= sent
  BY <1>2 DEF FlowInv
<1>5. \A i \in DOMAIN queue' : Head(queue).seq < queue'[i].seq /\ queue'[i].seq <= sent
  BY <1>2 DEF FlowInv
<1>6. \A i, j \in DOMAIN queue' : i < j => queue'[i].seq < queue'[j].seq
  BY <1>2 DEF FlowInv
<1> QED
  BY <1>2, <1>3, <1>4, <1>5, <1>6

\* A receive that leaves in_msg's number alone.
LEMMA ReceiveKeeps ==
  ASSUME TypeOK, FlowInv, Receive, UNCHANGED sent, inMsg'.seq = inMsg.seq,
         replays' \in {replays, replays + 1}
  PROVE  FlowInv' /\ queue' \in Seq(Message) /\ Len(queue') <= Cap /\ replays' \in 0..MaxSeq
<1>1. /\ sent \in 0..MaxSeq /\ replays \in 0..MaxSeq /\ Len(queue) <= Cap /\ Len(queue) \in Nat
      /\ inMsg.seq \in 0..MaxSeq /\ MaxSeq \in Nat /\ Cap \in Nat
  BY IpcAssumption DEF TypeOK
<1>2. /\ queue' \in Seq(Message) /\ Len(queue') = Len(queue) - 1 /\ Len(queue) >= 1
      /\ inMsg.seq < Head(queue).seq /\ Head(queue).seq \in 1..MaxSeq
      /\ \A i \in DOMAIN queue' : Head(queue).seq < queue'[i].seq /\ queue'[i].seq <= sent
      /\ \A i, j \in DOMAIN queue' : i < j => queue'[i].seq < queue'[j].seq
  BY ReceiveFlow
<1>3. \A i \in DOMAIN queue' : queue'[i].seq \in Nat
  BY <1>2, MessagesAreNumbered
<1>4. replays' + Len(queue') <= sent /\ replays' \in 0..MaxSeq /\ Len(queue') <= Cap
  BY <1>1, <1>2 DEF FlowInv
<1> QED
  BY <1>1, <1>2, <1>3, <1>4 DEF FlowInv

\* The answers when out and in_msg's number stay.
LEMMA AnswersKept ==
  ASSUME TypeOK, AnswerInv, UNCHANGED out, inMsg'.seq = inMsg.seq,
         \/ UNCHANGED replays /\ (pc' \in {"process", "send"} => pc \in {"process", "send"})
         \/ replays' = replays + 1
  PROVE  AnswerInv'
<1>1. Answered' = Answered
  BY DEF Answered
<1>2. Cardinality(Answered) \in Nat
  BY AnsweredIsFinite
<1>3. Len(out) \in Nat /\ replays \in Nat
  BY IpcAssumption DEF TypeOK
<1> QED
  BY <1>1, <1>2, <1>3 DEF AnswerInv

LEMMA InitInv == Init => Inv
<1> SUFFICES ASSUME Init PROVE Inv
  OBVIOUS
<1>1. TypeOK
  <2>1. family \in BOOLEAN /\ overrun \in BOOLEAN /\ running \in BOOLEAN
    BY Zenon DEF Init
  <2>2. queue = << >> /\ out = << >> /\ sent = 0 /\ replays = 0
        /\ greeted = 0 /\ pc = "connect" /\ hello = "OK"
        /\ inMsg \in [seq : 0..MaxSeq, kind : AllKinds, err : Status]
    BY IpcAssumption DEF Init, AllKinds
  <2> QED
    BY <2>1, <2>2, IpcAssumption DEF TypeOK, Status
<1>2. FlowInv
  BY IpcAssumption DEF Init, FlowInv
<1>3. AnswerInv
  <2>1. out = << >> /\ replays = 0 /\ pc = "connect" /\ Answered = {}
    BY DEF Init, Answered
  <2> QED
    BY <2>1, FS_EmptySet DEF AnswerInv
<1> QED
  BY <1>1, <1>2, <1>3 DEF Inv

LEMMA DriverStep ==
  ASSUME Inv, NEW k \in Kinds, DriverSends(k) PROVE Inv'
<1>1. /\ sent \in 0..MaxSeq /\ sent < MaxSeq /\ sent' = sent + 1 /\ MaxSeq \in Nat
      /\ queue \in Seq(Message) /\ Len(queue) \in Nat /\ replays \in Nat /\ Cap \in Nat
      /\ inMsg.seq \in Nat
  BY IpcAssumption DEF DriverSends, Inv, TypeOK
<1>2. queue' \in Seq(Message) /\ Len(queue') <= Cap /\ FlowInv'
  <2>1. CASE queue' = Append(queue, [seq |-> sent', kind |-> k]) /\ Len(queue) < Cap
    <3> DEFINE m == [seq |-> sent', kind |-> k]
    <3>1. m \in Message /\ m.seq = sent + 1
      BY <1>1 DEF Message
    <3> HIDE DEF m
    <3>2. /\ queue' \in Seq(Message) /\ Len(queue') = Len(queue) + 1
          /\ \A i \in DOMAIN queue' : IF i = Len(queue) + 1 THEN queue'[i] = m
                                      ELSE i \in DOMAIN queue /\ queue'[i] = queue[i]
      BY <1>1, <2>1, <3>1 DEF m
    <3>3. \A i \in DOMAIN queue : queue[i].seq \in Nat /\ queue[i].seq <= sent
      BY <1>1, MessagesAreNumbered DEF Inv, FlowInv
    <3>4. DOMAIN queue' = 1..(Len(queue) + 1) /\ DOMAIN queue = 1..Len(queue)
      BY <1>1, <3>2
    <3>5. \A i, j \in DOMAIN queue' : i < j => queue'[i].seq < queue'[j].seq
      BY <1>1, <3>1, <3>2, <3>3, <3>4 DEF Inv, FlowInv
    <3>6. \A i \in DOMAIN queue' : inMsg.seq < queue'[i].seq /\ queue'[i].seq <= sent'
      BY <1>1, <3>1, <3>2, <3>3 DEF Inv, FlowInv
    <3>7. UNCHANGED <<inMsg, replays>>
      BY DEF DriverSends
    <3> QED
      BY <1>1, <2>1, <3>2, <3>5, <3>6, <3>7 DEF Inv, FlowInv
  <2>2. CASE UNCHANGED queue
    <3>1. \A i \in DOMAIN queue : queue[i].seq \in Nat
      BY <1>1, MessagesAreNumbered
    <3> QED
      BY <1>1, <2>2, <3>1 DEF Inv, TypeOK, FlowInv, DriverSends
  <2> QED
    BY <2>1, <2>2 DEF DriverSends
<1>3. overrun' \in BOOLEAN
  BY Zenon DEF DriverSends, Inv, TypeOK
<1>4. /\ UNCHANGED <<family, pc, hello, inMsg, running, out, replays>>
      /\ greeted' \in 0..MaxSeq
  BY <1>1 DEF DriverSends, Inv, TypeOK
<1>5. TypeOK'
  BY <1>1, <1>2, <1>3, <1>4 DEF Inv, TypeOK
<1>6. AnswerInv'
  BY <1>4, AnswersKept DEF Inv
<1> QED
  BY <1>2, <1>5, <1>6 DEF Inv

\* Steps outside the loop, and receives that give the loop nothing new.
LEMMA QuietStep ==
  ASSUME Inv, RegisterFamily \/ IpcConnect \/ IpcInit \/ DrvInitSend \/ DrvInitWait \/ RecvFails
                \/ RecvBad \/ RecvSilent
  PROVE  Inv'
<1>1. \/ Receive
      \/ UNCHANGED queue
  BY DEF RegisterFamily, IpcConnect, IpcInit, DrvInitSend, DrvInitWait, RecvFails, RecvBad,
         RecvSilent, ReceiveOverrun
<1>2. /\ inMsg' \in [seq : 0..MaxSeq, kind : AllKinds, err : Status]
      /\ inMsg'.seq = inMsg.seq
  BY DEF Inv, TypeOK, Status, RegisterFamily, IpcConnect, IpcInit, DrvInitSend, DrvInitWait,
         RecvFails, RecvBad, RecvSilent
<1>3. /\ UNCHANGED <<sent, greeted, out>>
      /\ pc' \in {"connect", "resolve", "hello", "wait", "done", "failed"} \cup InLoop
      /\ \/ UNCHANGED replays /\ (pc' \in {"process", "send"} => pc \in {"process", "send"})
         \/ replays' = replays + 1 /\ Receive
  BY DEF Inv, TypeOK, InLoop, RegisterFamily, IpcConnect, IpcInit, DrvInitSend, DrvInitWait,
         RecvFails, RecvBad, RecvSilent
<1>4. FlowInv' /\ queue' \in Seq(Message) /\ Len(queue') <= Cap /\ replays' \in 0..MaxSeq
  <2>1. CASE Receive
    BY <1>2, <1>3, <2>1, ReceiveKeeps DEF Inv
  <2>2. CASE UNCHANGED queue /\ ~Receive
    BY <1>2, <1>3, <2>2 DEF Inv, TypeOK, FlowInv
  <2> QED
    BY <1>1, <2>1, <2>2
<1>5. AnswerInv'
  BY <1>2, <1>3, AnswersKept DEF Inv
<1>6. family' \in BOOLEAN /\ overrun' \in BOOLEAN /\ hello' \in Status
  BY Zenon DEF Inv, TypeOK, RegisterFamily, IpcConnect, IpcInit, DrvInitSend, DrvInitWait,
         RecvFails, RecvBad, RecvSilent, Receive, ReceiveOverrun
<1>7. running' \in BOOLEAN
  BY Zenon DEF Inv, TypeOK, RegisterFamily, IpcConnect, IpcInit, DrvInitSend, DrvInitWait,
         RecvFails, RecvBad, RecvSilent
<1>8. TypeOK'
  BY <1>2, <1>3, <1>4, <1>6, <1>7 DEF Inv, TypeOK
<1> QED
  BY <1>4, <1>5, <1>8 DEF Inv

\* A request is newer than every answer.
LEMMA RequestStep ==
  ASSUME Inv, RecvRequest PROVE Inv'
<1>1. /\ Receive /\ inMsg' = [seq |-> Head(queue).seq, kind |-> Head(queue).kind, err |-> "OK"]
      /\ Head(queue).kind \in {"req", "stop"}
      /\ pc' = "process"
      /\ UNCHANGED <<family, sent, greeted, hello, running, out, replays>>
  BY DEF RecvRequest
<1>2. /\ queue' \in Seq(Message) /\ Len(queue') = Len(queue) - 1 /\ Len(queue) >= 1
      /\ Head(queue).seq \in 1..MaxSeq
      /\ inMsg.seq < Head(queue).seq /\ Head(queue).seq <= sent
      /\ \A i \in DOMAIN queue' : Head(queue).seq < queue'[i].seq /\ queue'[i].seq <= sent
      /\ \A i, j \in DOMAIN queue' : i < j => queue'[i].seq < queue'[j].seq
  BY <1>1, ReceiveFlow DEF Inv
<1>3. inMsg'.seq = Head(queue).seq
      /\ inMsg' \in [seq : 0..MaxSeq, kind : AllKinds, err : Status]
  BY <1>1, <1>2 DEF AllKinds, Status
<1>4. sent \in Nat /\ replays \in Nat /\ Cap \in Nat /\ Len(queue) \in Nat /\ Len(queue) <= Cap
      /\ inMsg.seq \in Nat /\ MaxSeq \in Nat
  BY IpcAssumption DEF Inv, TypeOK
<1>5. FlowInv'
  BY <1>1, <1>2, <1>3, <1>4 DEF Inv, FlowInv
<1>6. TypeOK'
  <2>1. overrun' = overrun
    BY <1>1 DEF Receive
  <2>2. Len(queue') <= Cap
    BY <1>2, <1>4
  <2> QED
    BY <1>1, <1>2, <1>3, <2>1, <2>2 DEF Inv, TypeOK, InLoop
<1>7. AnswerInv'
  <2>1. Answered' = Answered /\ UNCHANGED <<out, replays>>
    BY <1>1 DEF Answered
  <2>2. \A i \in DOMAIN out : out[i] \in Nat /\ out[i] <= inMsg.seq
    <3>1. out \in Seq(0..MaxSeq)
      BY DEF Inv, TypeOK
    <3>2. \A i \in DOMAIN out : out[i] \in 0..MaxSeq
      BY <3>1, ElementsOf, Zenon
    <3> QED
      BY <1>4, <3>2 DEF Inv, AnswerInv
  <2>3. \A i \in DOMAIN out : out[i] < inMsg'.seq
    BY <1>2, <1>3, <1>4, <2>2
  <2>4. inMsg'.seq \notin Answered
    BY <1>2, <1>3, <1>4, <2>2, <2>3 DEF Answered
  <2> QED
    BY <1>2, <1>3, <1>4, <2>1, <2>2, <2>3, <2>4 DEF Inv, AnswerInv
<1> QED
  BY <1>5, <1>6, <1>7 DEF Inv

LEMMA ProcessStep ==
  ASSUME Inv, Process PROVE Inv'
<1>1. /\ pc = "process" /\ pc' = "send"
      /\ UNCHANGED <<family, queue, overrun, sent, greeted, hello, inMsg, out, replays>>
  BY DEF Process
<1>2. running' \in BOOLEAN
  BY Zenon DEF Process, Inv, TypeOK
<1>3. TypeOK'
  BY <1>1, <1>2 DEF Inv, TypeOK, InLoop
<1>4. FlowInv'
  BY <1>1 DEF Inv, FlowInv
<1> QED
  BY <1>1, <1>3, <1>4, AnswersKept DEF Inv

\* An answer is the first to its request, or one of the replays pays for it.
LEMMA SendStep ==
  ASSUME Inv, SendReply PROVE Inv'
<1>1. /\ pc = "send" /\ pc' \in {"recv", "done"}
      /\ UNCHANGED <<family, queue, overrun, sent, greeted, hello, inMsg, running, replays>>
  BY DEF SendReply
<1>2. FlowInv'
  BY <1>1 DEF Inv, FlowInv
<1>3. CASE out' = out
  <2>1. TypeOK'
    BY <1>1, <1>3 DEF Inv, TypeOK, InLoop
  <2> QED
    BY <1>1, <1>2, <1>3, <2>1, AnswersKept DEF Inv
<1>4. CASE out' = Append(out, inMsg.seq)
  <2>1. out \in Seq(0..MaxSeq) /\ inMsg.seq \in 0..MaxSeq /\ MaxSeq \in Nat /\ replays \in Nat
    BY IpcAssumption DEF Inv, TypeOK
  <2>2. /\ out' \in Seq(0..MaxSeq) /\ Len(out') = Len(out) + 1 /\ Len(out) \in Nat
        /\ DOMAIN out = 1..Len(out) /\ DOMAIN out' = 1..(Len(out) + 1)
        /\ out'[Len(out) + 1] = inMsg.seq
        /\ \A i \in DOMAIN out : i \in DOMAIN out' /\ out'[i] = out[i] /\ out[i] \in 0..MaxSeq
    BY <1>4, <2>1
  <2>3. TypeOK'
    BY <1>1, <2>2 DEF Inv, TypeOK, InLoop
  <2>4. Answered' = Answered \cup {inMsg.seq}
    BY <2>2 DEF Answered
  <2>5. /\ IsFiniteSet(Answered) /\ Cardinality(Answered) \in Nat
        /\ Cardinality(Answered') = IF inMsg.seq \in Answered THEN Cardinality(Answered)
                                    ELSE Cardinality(Answered) + 1
    BY <2>4, AnsweredIsFinite, FS_AddElement DEF Inv
  <2>6. Len(out') <= Cardinality(Answered') + replays
    BY <1>1, <2>1, <2>2, <2>5 DEF Inv, AnswerInv
  <2>7. \A i \in DOMAIN out' : i \in DOMAIN out \/ i = Len(out) + 1
    BY <2>2
  <2>8. \A i \in DOMAIN out' : out'[i] <= inMsg.seq
    BY <2>1, <2>2, <2>7 DEF Inv, AnswerInv
  <2>9. \A i, j \in DOMAIN out' : i < j => out'[i] <= out'[j]
    <3> SUFFICES ASSUME NEW i \in DOMAIN out', NEW j \in DOMAIN out', i < j
                 PROVE  out'[i] <= out'[j]
      OBVIOUS
    <3>1. i \in DOMAIN out
      BY <2>2, <2>7
    <3>2. CASE j \in DOMAIN out
      BY <2>2, <3>1, <3>2 DEF Inv, AnswerInv
    <3>3. CASE j = Len(out) + 1
      BY <2>2, <2>8, <3>3
    <3> QED
      BY <2>7, <3>2, <3>3
  <2>10. AnswerInv'
    BY <1>1, <2>6, <2>8, <2>9 DEF AnswerInv
  <2> QED
    BY <1>2, <2>3, <2>10 DEF Inv
<1> QED
  BY <1>3, <1>4 DEF SendReply

LEMMA NextInv == Inv /\ [Next]_vars => Inv'
<1> SUFFICES ASSUME Inv, [Next]_vars PROVE Inv'
  OBVIOUS
<1>1. CASE Main
  BY <1>1, QuietStep, RequestStep, ProcessStep, SendStep DEF Main
<1>2. CASE Environment
  BY <1>2, QuietStep, DriverStep DEF Environment
<1>3. CASE UNCHANGED vars
  <2>1. AnswerInv'
    BY <1>3, AnswersKept DEF vars, Inv
  <2> QED
    BY <1>3, <2>1 DEF vars, Inv, TypeOK, FlowInv
<1> QED
  BY <1>1, <1>2, <1>3 DEF Next

LEMMA IpcInvariant == Spec => []Inv
  BY InitInv, NextInv, PTL DEF Spec

(* The IPC's state is typed, and a receive that delivers nothing replays a *)
(* request at most once per message (saiagent_ipc.c:229-246, 329-370).     *)
THEOREM IpcTypeCorrect == Spec => []TypeOK
<1>1. Inv => TypeOK
  BY DEF Inv
<1> QED
  BY <1>1, IpcInvariant, PTL

(* Answers keep the order of the requests, and only a replay answers one   *)
(* again (saiagent_ipc.c:235-245, 341-363).                                *)
THEOREM AnswersAreInOrder == Spec => []AnswersInOrder
<1>1. Inv => AnswersInOrder
  BY DEF Inv, AnswerInv, Answered, AnswersInOrder
<1> QED
  BY <1>1, IpcInvariant, PTL
-----------------------------------------------------------------------------
(* SaiIpc implements Server: what a step does to the fate of each message. *)
Seqs == 1..MaxSeq


\* What is in the socket is newer than in_msg, and the answers are not.
LEMMA FateFacts ==
  ASSUME Inv
  PROVE  /\ sent \in Nat /\ inMsg.seq \in 0..MaxSeq /\ inMsg.seq <= sent
         /\ Silent \subseteq Queued
         /\ \A s \in Seqs : s \in Queued => inMsg.seq < s /\ s <= sent
         /\ \A s \in Seqs : s \in Answered => s <= inMsg.seq
<1>1. sent \in Nat /\ inMsg.seq \in 0..MaxSeq /\ inMsg.seq <= sent
  BY IpcAssumption DEF Inv, TypeOK, FlowInv
<1> QED
  BY <1>1 DEF Inv, FlowInv, AnswerInv, Queued, Silent, Answered

\* Only message s moves.
LEMMA OneMoves ==
  ASSUME NEW s \in Seqs, NEW from, NEW to, Fate[s] \in from, Fate'[s] = to,
         \A r \in Seqs : r # s => Fate'[r] = Fate[r]
  PROVE  S!Move(s, from, to)
<1>1. Fate = [r \in Seqs |-> Fate[r]] /\ Fate' = [r \in Seqs |-> Fate'[r]]
  BY DEF Fate, Seqs
<1>2. Fate' = [Fate EXCEPT ![s] = to]
  BY <1>1
<1> QED
  BY <1>2 DEF S!Move

LEMMA NoneMoves ==
  ASSUME \A r \in Seqs : Fate'[r] = Fate[r], inMsg'.seq = inMsg.seq
  PROVE  UNCHANGED S!vars
<1>1. Fate = [r \in Seqs |-> Fate[r]] /\ Fate' = [r \in Seqs |-> Fate'[r]]
  BY DEF Fate, Seqs
<1> QED
  BY <1>1 DEF S!vars

\* What is left in the socket after a receive.
LEMMA TakenFromQueue ==
  ASSUME Inv, Receive, NEW h, h = Head(queue).seq
  PROVE  /\ h \in Seqs /\ inMsg.seq < h /\ h <= sent
         /\ h \in Queued /\ (h \in Silent <=> Head(queue).kind = "silent")
         /\ h \notin Queued'
         /\ \A s \in Seqs : s # h => (s \in Queued' <=> s \in Queued)
         /\ \A s \in Seqs : s # h => (s \in Silent' <=> s \in Silent)
<1>1. queue \in Seq(Message) /\ queue # << >> /\ queue' = Tail(queue)
  BY DEF Inv, TypeOK, Receive
<1>2. /\ Len(queue) \in Nat /\ Len(queue) > 0
      /\ DOMAIN queue = 1..Len(queue) /\ DOMAIN queue' = 1..(Len(queue) - 1)
      /\ Head(queue) = queue[1]
      /\ \A i \in DOMAIN queue' : queue'[i] = queue[i + 1]
  BY <1>1
<1>3. \A i \in DOMAIN queue : queue[i].seq \in Nat
  BY <1>1, MessagesAreNumbered
<1>4. \A i \in DOMAIN queue : i # 1 => h < queue[i].seq
  BY <1>2 DEF Inv, FlowInv
<1>5. h \in Seqs /\ inMsg.seq < h /\ h <= sent
  BY <1>1, <1>2, ReceiveFlow DEF Inv, Seqs
<1>6. h \in Queued /\ (h \in Silent <=> Head(queue).kind = "silent")
  BY <1>2, <1>3, <1>4, <1>5 DEF Queued, Silent, Seqs
<1>7. h \notin Queued'
  <2> SUFFICES ASSUME NEW i \in DOMAIN queue', queue'[i].seq = h PROVE FALSE
    BY DEF Queued
  <2> QED
    BY <1>2, <1>3, <1>4, <1>5 DEF Seqs
<1>8. ASSUME NEW s \in Seqs, s # h
      PROVE  (s \in Queued' <=> s \in Queued) /\ (s \in Silent' <=> s \in Silent)
  <2>1. \A i \in DOMAIN queue : queue[i].seq = s => i - 1 \in DOMAIN queue' /\ queue'[i - 1] = queue[i]
    BY <1>2, <1>8
  <2>2. \A i \in DOMAIN queue' : i + 1 \in DOMAIN queue /\ queue'[i] = queue[i + 1]
    BY <1>2
  <2> QED
    BY <2>1, <2>2 DEF Queued, Silent
<1> QED
  BY <1>5, <1>6, <1>7, <1>8

\* A message that is received, but not opened, is lost.
LEMMA ReceiveLoses ==
  ASSUME Inv, Receive, UNCHANGED <<sent, greeted, out>>, inMsg'.seq = inMsg.seq,
         pc \notin {"process", "send"}, pc' \notin {"process", "send"}
  PROVE  S!Next
<1> DEFINE h == Head(queue).seq
<1>1. /\ h \in Seqs /\ inMsg.seq < h /\ h <= sent
      /\ h \in Queued /\ h \notin Queued' /\ Open = {} /\ Open' = {} /\ Answered' = Answered
      /\ \A s \in Seqs : s # h => (s \in Queued' <=> s \in Queued)
      /\ \A s \in Seqs : s # h => (s \in Silent' <=> s \in Silent)
  BY TakenFromQueue DEF Open, Answered
<1>2. \A s \in Seqs : s # h => Fate'[s] = Fate[s]
  BY <1>1 DEF Fate, Seqs
<1>3. Fate[h] \in {"unsent", "queued", "empty"}
  BY <1>1 DEF Fate, Seqs
<1>4. h \notin Silent' /\ h \notin Answered
  BY <1>1, FateFacts DEF Silent, Queued, Seqs
<1>5. Fate'[h] = "lost"
  BY <1>1, <1>4, FateFacts DEF Fate, Seqs
<1>6. S!Lose(h)
  BY <1>1, <1>2, <1>3, <1>5, OneMoves DEF S!Lose
<1> QED
  BY <1>1, <1>6 DEF S!Next, S!Seqs, Seqs

\* Receives that open nothing: the handshake, errors and messages without TLV.
LEMMA QuietReceive ==
  ASSUME Inv, DrvInitWait \/ RecvFails \/ RecvBad PROVE [S!Next]_(S!vars)
<1>1. /\ UNCHANGED <<sent, greeted, out>> /\ inMsg'.seq = inMsg.seq
      /\ pc \notin {"process", "send"} /\ pc' \notin {"process", "send"}
      /\ Receive \/ UNCHANGED queue
  BY DEF DrvInitWait, RecvFails, RecvBad, ReceiveOverrun, Inv, TypeOK
<1>2. CASE Receive
  BY <1>1, <1>2, ReceiveLoses
<1>3. CASE UNCHANGED queue
  <2>1. Fate' = Fate
    BY <1>1, <1>3 DEF Fate, Queued, Silent, Open, Answered
  <2> QED
    BY <1>1, <2>1 DEF S!vars
<1> QED
  BY <1>1, <1>2, <1>3

LEMMA RequestOpens ==
  ASSUME Inv, RecvRequest PROVE S!Next
<1> DEFINE h == Head(queue).seq
<1>1. /\ pc = "recv" /\ pc' = "process" /\ inMsg'.seq = h /\ Receive
      /\ Head(queue).kind # "silent" /\ UNCHANGED <<sent, greeted, out>>
  BY DEF RecvRequest
<1>2. /\ h \in Seqs /\ inMsg.seq < h /\ h <= sent
      /\ h \in Queued /\ h \notin Silent /\ h \notin Queued'
      /\ \A s \in Seqs : s # h => (s \in Queued' <=> s \in Queued)
      /\ \A s \in Seqs : s # h => (s \in Silent' <=> s \in Silent)
  BY <1>1, TakenFromQueue
<1>3. Open = {} /\ Open' = {h} /\ Answered' = Answered
  BY <1>1 DEF Open, Answered
<1>4. \A s \in Seqs : s # h => Fate'[s] = Fate[s]
  BY <1>1, <1>2, <1>3 DEF Fate, Seqs
<1>5. h \notin Silent'
  BY <1>2 DEF Silent, Queued
<1>6. Fate[h] \in {"queued"} /\ Fate'[h] = "open"
  BY <1>1, <1>2, <1>3, <1>5, FateFacts DEF Fate, Seqs
<1>7. S!Move(h, {"queued"}, "open")
  BY <1>2, <1>4, <1>6, OneMoves
<1>8. S!NoneOpen
  BY <1>3 DEF S!NoneOpen, S!Seqs, Fate
<1>9. S!Open(h)
  BY <1>1, <1>2, <1>7, <1>8, FateFacts DEF S!Open, Seqs
<1> QED
  BY <1>2, <1>9 DEF S!Next, S!Seqs, Seqs

\* A receive without a callback opens the latest request again, if there is one.
LEMMA SilentReopens ==
  ASSUME Inv, RecvSilent PROVE S!Next
<1> DEFINE h == Head(queue).seq
           s == inMsg.seq
<1>1. /\ pc = "recv" /\ Receive /\ Head(queue).kind = "silent"
      /\ UNCHANGED <<sent, greeted, out, inMsg>>
  BY DEF RecvSilent
<1>2. CASE inMsg.err # "OK"
  BY <1>1, <1>2, ReceiveLoses DEF RecvSilent
<1>3. CASE inMsg.err = "OK"
  <2>1. pc' = "process"
    BY <1>3 DEF RecvSilent
  <2>2. /\ h \in Seqs /\ s < h /\ h <= sent
        /\ h \in Queued /\ h \in Silent /\ h \notin Queued'
        /\ \A r \in Seqs : r # h => (r \in Queued' <=> r \in Queued)
        /\ \A r \in Seqs : r # h => (r \in Silent' <=> r \in Silent)
    BY <1>1, TakenFromQueue
  <2>3. Open = {} /\ Open' = {s} /\ Answered' = Answered
    BY <1>1, <2>1 DEF Open, Answered
  <2>4. h \notin Silent' /\ h \notin Answered
    BY <2>2, FateFacts DEF Silent, Queued, Seqs
  <2>5. Fate[h] = "empty" /\ Fate'[h] = "lost"
    BY <1>1, <2>2, <2>3, <2>4, FateFacts DEF Fate, Seqs
  <2>6. \A r \in Seqs : r # h /\ r # s => Fate'[r] = Fate[r]
    BY <1>1, <2>2, <2>3 DEF Fate, Seqs
  <2>7. CASE s = 0
    <3>1. \A r \in Seqs : r # s
      BY <2>7 DEF Seqs
    <3>2. S!Lose(h)
      BY <1>1, <2>2, <2>5, <2>6, <3>1, OneMoves DEF S!Lose
    <3> QED
      BY <2>2, <3>2 DEF S!Next, S!Seqs, Seqs
  <2>8. CASE s # 0
    <3>1. s \in Seqs /\ s # h /\ s <= sent /\ s \notin Queued /\ s \notin Silent
      BY <2>2, <2>8, FateFacts, IpcAssumption DEF Seqs
    <3>2. Fate[s] \in {"answered", "lost"} /\ Fate'[s] = "open"
      BY <1>1, <2>2, <2>3, <3>1, FateFacts DEF Fate, Seqs
    <3>3. S!NoneOpen
      BY <2>3 DEF S!NoneOpen, S!Seqs, Fate
    <3>4. Fate = [r \in Seqs |-> Fate[r]] /\ Fate' = [r \in Seqs |-> Fate'[r]]
      BY DEF Fate, Seqs
    <3>5. Fate' = [Fate EXCEPT ![s] = "open", ![h] = "lost"]
      BY <2>2, <2>5, <2>6, <3>1, <3>2, <3>4
    <3>6. S!Reopen(s, h)
      BY <1>1, <2>5, <3>2, <3>3, <3>5 DEF S!Reopen
    <3> QED
      BY <2>2, <3>1, <3>6 DEF S!Next, S!Seqs, Seqs
  <2> QED
    BY <2>7, <2>8
<1> QED
  BY <1>2, <1>3

LEMMA ReplyCloses ==
  ASSUME Inv, SendReply PROVE [S!Next]_(S!vars)
<1> DEFINE s == inMsg.seq
<1>1. /\ pc = "send" /\ pc' \in {"recv", "done"}
      /\ UNCHANGED <<queue, sent, greeted, inMsg>> /\ out' \in {out, Append(out, s)}
  BY DEF SendReply
<1>2. Open = {s} /\ Open' = {} /\ Queued' = Queued /\ Silent' = Silent
  BY <1>1 DEF Open, Queued, Silent
<1>3. Answered' = Answered \/ Answered' = Answered \cup {s}
  <2>1. CASE out' = out
    BY <2>1 DEF Answered
  <2>2. CASE out' = Append(out, s)
    <3>1. out \in Seq(0..MaxSeq) /\ s \in 0..MaxSeq
      BY DEF Inv, TypeOK
    <3>2. /\ DOMAIN out = 1..Len(out) /\ DOMAIN out' = 1..(Len(out) + 1) /\ Len(out) \in Nat
          /\ out'[Len(out) + 1] = s
          /\ \A i \in DOMAIN out : i \in DOMAIN out' /\ out'[i] = out[i]
      BY <2>2, <3>1
    <3> QED
      BY <3>2 DEF Answered
  <2> QED
    BY <1>1, <2>1, <2>2
<1>4. \A r \in Seqs : r # s => Fate'[r] = Fate[r]
  BY <1>1, <1>2, <1>3 DEF Fate, Seqs
<1>5. CASE s = 0
  <2>1. \A r \in Seqs : Fate'[r] = Fate[r]
    BY <1>4, <1>5 DEF Seqs
  <2> QED
    BY <1>1, <2>1, NoneMoves
<1>6. CASE s # 0
  <2>1. s \in Seqs /\ s <= sent /\ s \notin Queued /\ s \notin Silent
    BY <1>6, FateFacts, IpcAssumption DEF Seqs
  <2>2. Fate[s] \in {"open"} /\ Fate'[s] \in {"answered", "lost"}
    BY <1>1, <1>2, <2>1, FateFacts DEF Fate, Seqs
  <2>3. PICK f \in {"answered", "lost"} : Fate'[s] = f
    BY <2>2
  <2>4. S!Move(s, {"open"}, f)
    BY <1>4, <2>1, <2>2, <2>3, OneMoves
  <2>5. S!Close(s)
    BY <1>1, <2>4 DEF S!Close
  <2> QED
    BY <2>1, <2>5 DEF S!Next, S!Seqs, Seqs
<1> QED
  BY <1>5, <1>6

LEMMA DriverSendsMessage ==
  ASSUME Inv, NEW k \in Kinds, DriverSends(k) PROVE S!Next
<1> DEFINE s == sent + 1
<1>1. /\ s \in Seqs /\ sent' = s /\ UNCHANGED <<pc, inMsg, out>>
  BY FateFacts, IpcAssumption DEF DriverSends, Seqs
<1>2. Open' = Open /\ Answered' = Answered
  BY <1>1 DEF Open, Answered
<1>3. s \notin Queued /\ s \notin Silent /\ s \notin Open /\ s \notin Answered
  BY <1>1, FateFacts DEF Open, Seqs
<1>4. /\ \A r \in Seqs : r # s => (r \in Queued' <=> r \in Queued)
      /\ \A r \in Seqs : r # s => (r \in Silent' <=> r \in Silent)
  <2>1. CASE queue' = queue
    BY <2>1 DEF Queued, Silent
  <2>2. CASE queue' = Append(queue, [seq |-> s, kind |-> k])
    <3>1. queue \in Seq(Message) /\ [seq |-> s, kind |-> k] \in Message
      BY <1>1 DEF Inv, TypeOK, Message, Seqs
    <3>2. /\ DOMAIN queue = 1..Len(queue) /\ DOMAIN queue' = 1..(Len(queue) + 1)
          /\ Len(queue) \in Nat /\ queue'[Len(queue) + 1].seq = s
          /\ \A i \in DOMAIN queue : i \in DOMAIN queue' /\ queue'[i] = queue[i]
      BY <2>2, <3>1
    <3>3. \A i \in DOMAIN queue' : i \in DOMAIN queue \/ queue'[i].seq = s
      BY <3>2
    <3> QED
      BY <3>2, <3>3 DEF Queued, Silent
  <2> QED
    BY <1>1, <2>1, <2>2 DEF DriverSends
<1>5. \A r \in Seqs : r # s => Fate'[r] = Fate[r]
  BY <1>1, <1>2, <1>4, FateFacts DEF Fate, Seqs
<1>6. Fate[s] \in {"unsent"}
  BY <1>1, FateFacts DEF Fate, Seqs
<1>7. Fate'[s] \in {"empty", "queued", "lost"}
  BY <1>1, <1>2, <1>3, FateFacts DEF Fate, Seqs
<1>8. CASE Fate'[s] = "lost"
  <2>1. S!Lose(s)
    BY <1>1, <1>5, <1>6, <1>8, OneMoves DEF S!Lose
  <2> QED
    BY <1>1, <2>1 DEF S!Next, S!Seqs, Seqs
<1>9. CASE Fate'[s] \in {"empty", "queued"}
  <2>1. PICK f \in {"queued", "empty"} : Fate'[s] = f
    BY <1>9
  <2>2. S!Send(s)
    BY <1>1, <1>5, <1>6, <2>1, OneMoves DEF S!Send
  <2> QED
    BY <1>1, <2>2 DEF S!Next, S!Seqs, Seqs
<1> QED
  BY <1>7, <1>8, <1>9

LEMMA NextIsServerStep == Inv /\ [Next]_vars => [S!Next]_(S!vars)
<1> SUFFICES ASSUME Inv, [Next]_vars PROVE [S!Next]_(S!vars)
  OBVIOUS
<1>1. CASE IpcConnect \/ IpcInit \/ DrvInitSend \/ Process \/ RegisterFamily \/ UNCHANGED vars
  <2>1. UNCHANGED <<queue, sent, greeted, inMsg, out>> /\ Open' = Open
    BY <1>1 DEF IpcConnect, IpcInit, DrvInitSend, Process, RegisterFamily, vars, Open
  <2> QED
    BY <2>1 DEF S!vars, Fate, Queued, Silent, Answered
<1>2. CASE DrvInitWait \/ RecvFails \/ RecvBad
  BY <1>2, QuietReceive
<1>3. CASE RecvRequest
  BY <1>3, RequestOpens
<1>4. CASE RecvSilent
  BY <1>4, SilentReopens
<1>5. CASE SendReply
  BY <1>5, ReplyCloses
<1>6. CASE \E k \in Kinds : DriverSends(k)
  BY <1>6, DriverSendsMessage
<1> QED
  BY <1>1, <1>2, <1>3, <1>4, <1>5, <1>6 DEF Next, Main, Environment

LEMMA InitIsServerInit == Init => S!Init
<1> SUFFICES ASSUME Init PROVE S!Init
  OBVIOUS
<1>1. sent = 0 /\ inMsg.seq = 0 /\ MaxSeq \in Nat
  BY IpcAssumption DEF Init
<1> QED
  BY <1>1 DEF S!Init, S!Seqs, Fate

(* The loop implements Server: requests are opened one at a time and in    *)
(* order, each answer belongs to the one that was open, and only an empty  *)
(* message opens one again (saiagent_ipc.c:229-246, 329-372).              *)
THEOREM ServerImplemented == Spec => ImplementsServer
  BY InitIsServerInit, NextIsServerStep, IpcInvariant, PTL DEF Spec, ImplementsServer, S!Spec
-----------------------------------------------------------------------------
(* The flag and the latest request go together: the loop goes on exactly   *)
(* until a stop request was processed.                                     *)
StopInv ==
  /\ OnlyStopEndsLoop
  /\ inMsg.kind \in AllKinds
  /\ pc \in {"recv", "process"} => running
  /\ pc = "send" => (running <=> inMsg.kind # "stop")

LEMMA StopInductive ==
  ASSUME TypeOK, StopInv, [Next]_vars PROVE StopInv'
<1> USE DEF StopInv, OnlyStopEndsLoop
<1>1. CASE RegisterFamily \/ IpcConnect \/ IpcInit \/ DrvInitSend
  BY <1>1 DEF RegisterFamily, IpcConnect, IpcInit, DrvInitSend
<1>2. CASE DrvInitWait
  BY <1>2 DEF DrvInitWait
<1>3. CASE RecvFails
  BY <1>3 DEF RecvFails
<1>4. CASE RecvBad
  <2>1. inMsg'.kind = inMsg.kind
    BY <1>4 DEF RecvBad, TypeOK
  <2> QED
    BY <1>4, <2>1 DEF RecvBad
<1>5. CASE RecvRequest
  BY <1>5 DEF RecvRequest, AllKinds
<1>6. CASE RecvSilent
  BY <1>6 DEF RecvSilent
<1>7. CASE Process
  <2>1. running' <=> inMsg.kind # "stop"
    BY <1>7, Zenon DEF Process
  <2> QED
    BY <1>7, <2>1 DEF Process
<1>8. CASE SendReply
  BY <1>8 DEF SendReply
<1>9. ASSUME NEW k \in Kinds, DriverSends(k) PROVE StopInv'
  BY <1>9 DEF DriverSends
<1>10. CASE UNCHANGED vars
  BY <1>10 DEF vars
<1> QED
  BY <1>1, <1>2, <1>3, <1>4, <1>5, <1>6, <1>7, <1>8, <1>9, <1>10
     DEF Next, Main, Environment

(* Only a stop request ends the loop, and nothing is received after it,    *)
(* whatever is lost, malformed or fails (saiagent_ipc.c:341-372).          *)
THEOREM LoopEndsByStop == Spec => []OnlyStopEndsLoop
<1>1. Init => StopInv
  BY DEF Init, StopInv, OnlyStopEndsLoop, AllKinds
<1>2. TypeOK /\ StopInv /\ [Next]_vars => StopInv'
  BY StopInductive
<1>3. StopInv => OnlyStopEndsLoop
  BY DEF StopInv
<1> QED
  BY <1>1, <1>2, <1>3, IpcTypeCorrect, PTL DEF Spec
-----------------------------------------------------------------------------
Up == pc \in InLoop \cup {"done"}

(* What is queued while the loop runs was sent after the acknowledgement   *)
(* that opened it, and before that no acknowledgement is older than the    *)
(* first one.                                                              *)
GreetInv ==
  /\ greeted <= sent
  /\ \A i \in DOMAIN queue : queue[i].kind = "ack" => greeted # 0 /\ greeted <= queue[i].seq
  /\ Up => /\ greeted # 0
           /\ \A i \in DOMAIN queue : greeted < queue[i].seq
  /\ inMsg.seq = 0 \/ (Up /\ greeted < inMsg.seq)
  /\ \A i \in DOMAIN out : out[i] = 0 \/ (greeted # 0 /\ greeted < out[i])

LEMMA DriverGreets ==
  ASSUME Inv, GreetInv, NEW k \in Kinds, DriverSends(k) PROVE GreetInv'
<1>1. /\ sent \in Nat /\ greeted \in Nat /\ sent' = sent + 1
      /\ greeted' = IF greeted = 0 /\ k = "ack" THEN sent + 1 ELSE greeted
      /\ UNCHANGED <<pc, inMsg, out>>
  BY IpcAssumption DEF DriverSends, Inv, TypeOK
<1>2. \A i \in DOMAIN queue' :
        \/ i \in DOMAIN queue /\ queue'[i] = queue[i]
        \/ queue'[i] = [seq |-> sent + 1, kind |-> k]
  <2>1. queue \in Seq(Message)
    BY DEF Inv, TypeOK
  <2>2. CASE queue' = Append(queue, [seq |-> sent + 1, kind |-> k])
    BY <2>1, <2>2
  <2>3. CASE UNCHANGED queue
    BY <2>3
  <2> QED
    BY <1>1, <2>2, <2>3 DEF DriverSends
<1>3. \A i \in DOMAIN queue : queue[i].seq \in Nat
  BY MessagesAreNumbered DEF Inv, TypeOK
<1>4. Up' = Up
  BY <1>1 DEF Up, InLoop
<1>5. greeted' <= sent'
  BY <1>1 DEF GreetInv
<1>6. \A i \in DOMAIN queue' :
        queue'[i].kind = "ack" => greeted' # 0 /\ greeted' <= queue'[i].seq
  BY <1>1, <1>2 DEF GreetInv
<1>7. Up => greeted' # 0 /\ \A i \in DOMAIN queue' : greeted' < queue'[i].seq
  BY <1>1, <1>2 DEF GreetInv
<1>8. inMsg'.seq = 0 \/ (Up /\ greeted' < inMsg'.seq)
  BY <1>1 DEF GreetInv
<1>9. \A i \in DOMAIN out' : out'[i] = 0 \/ (greeted' # 0 /\ greeted' < out'[i])
  BY <1>1 DEF GreetInv
<1> QED
  BY <1>4, <1>5, <1>6, <1>7, <1>8, <1>9 DEF GreetInv

\* What a step of the main thread takes from the socket.
LEMMA MainGreets ==
  ASSUME Inv, GreetInv, UNCHANGED <<sent, greeted>>, Receive \/ UNCHANGED queue,
         /\ Up' => Up \/ (Receive /\ Head(queue).kind = "ack")
         /\ \/ inMsg'.seq = inMsg.seq
            \/ Up /\ Up' /\ Receive /\ inMsg'.seq = Head(queue).seq
         /\ Up => Up'
         /\ out' \in {out, Append(out, inMsg.seq)}
  PROVE  GreetInv'
<1>1. /\ sent \in Nat /\ greeted \in Nat /\ inMsg.seq \in Nat /\ queue \in Seq(Message)
      /\ out \in Seq(0..MaxSeq)
  BY IpcAssumption DEF Inv, TypeOK
<1>2. \A i \in DOMAIN queue : queue[i].seq \in Nat
  BY <1>1, MessagesAreNumbered
<1>3. \A i \in DOMAIN queue' :
        /\ \E j \in DOMAIN queue : queue'[i] = queue[j]
        /\ Receive => Head(queue).seq < queue'[i].seq
  <2>1. CASE Receive
    BY <2>1, ReceiveFlow DEF Inv
  <2>2. CASE UNCHANGED queue /\ ~Receive
    BY <2>2
  <2> QED
    BY <2>1, <2>2
<1>4. Receive => /\ 1 \in DOMAIN queue /\ Head(queue) = queue[1]
                 /\ Head(queue).seq \in Nat /\ Head(queue).seq # 0
  <2> SUFFICES ASSUME Receive
               PROVE  /\ 1 \in DOMAIN queue /\ Head(queue) = queue[1]
                      /\ Head(queue).seq \in Nat /\ Head(queue).seq # 0
    OBVIOUS
  <2>1. queue # << >> /\ Head(queue).seq \in 1..MaxSeq
    BY ReceiveFlow DEF Inv, Receive
  <2> QED
    BY <1>1, <2>1, IpcAssumption
<1>5. \A i \in DOMAIN queue' :
        queue'[i].kind = "ack" => greeted' # 0 /\ greeted' <= queue'[i].seq
  BY <1>3 DEF GreetInv
<1>6. ASSUME Up' PROVE greeted' # 0 /\ \A i \in DOMAIN queue' : greeted' < queue'[i].seq
  <2>1. CASE Up
    BY <1>3, <2>1 DEF GreetInv
  <2>2. CASE Receive /\ Head(queue).kind = "ack"
    <3>1. greeted # 0 /\ greeted <= Head(queue).seq
      BY <1>4, <2>2 DEF GreetInv
    <3>2. \A i \in DOMAIN queue' : queue'[i].seq \in Nat
      BY <1>2, <1>3
    <3> QED
      BY <1>1, <1>3, <1>4, <2>2, <3>1, <3>2
  <2> QED
    BY <1>6, <2>1, <2>2
<1>7. inMsg'.seq = 0 \/ (Up' /\ greeted' < inMsg'.seq)
  BY <1>4 DEF GreetInv
<1>8. \A i \in DOMAIN out' : out'[i] = 0 \/ (greeted' # 0 /\ greeted' < out'[i])
  <2>1. CASE out' = out
    BY <2>1 DEF GreetInv
  <2>2. CASE out' = Append(out, inMsg.seq)
    <3>1. \A i \in DOMAIN out' : out'[i] = inMsg.seq \/ (i \in DOMAIN out /\ out'[i] = out[i])
      BY <1>1, <2>2
    <3>2. inMsg.seq = 0 \/ (greeted # 0 /\ greeted < inMsg.seq)
      BY DEF GreetInv
    <3> QED
      BY <3>1, <3>2 DEF GreetInv
  <2> QED
    BY <2>1, <2>2
<1>9. greeted' <= sent'
  BY DEF GreetInv
<1> QED
  BY <1>5, <1>6, <1>7, <1>8, <1>9 DEF GreetInv

LEMMA NextGreets == Inv /\ GreetInv /\ [Next]_vars => GreetInv'
<1> SUFFICES ASSUME Inv, GreetInv, [Next]_vars PROVE GreetInv'
  OBVIOUS
<1>1. CASE \/ RegisterFamily \/ IpcConnect \/ IpcInit \/ DrvInitSend \/ DrvInitWait
           \/ RecvFails \/ RecvBad \/ RecvSilent
  <2>1. /\ UNCHANGED <<sent, greeted, out>> /\ inMsg'.seq = inMsg.seq
        /\ Receive \/ UNCHANGED queue
    BY <1>1 DEF RegisterFamily, IpcConnect, IpcInit, DrvInitSend, DrvInitWait, RecvFails,
       RecvBad, RecvSilent, ReceiveOverrun, Inv, TypeOK
  <2>2. /\ Up' => Up \/ (Receive /\ Head(queue).kind = "ack")
        /\ Up => Up'
    BY <1>1 DEF RegisterFamily, IpcConnect, IpcInit, DrvInitSend, DrvInitWait, RecvFails,
       RecvBad, RecvSilent, Up, InLoop
  <2> QED
    BY <2>1, <2>2, MainGreets
<1>2. CASE RecvRequest
  <2>1. /\ UNCHANGED <<sent, greeted, out>> /\ inMsg'.seq = Head(queue).seq
        /\ Receive /\ Up /\ Up'
    BY <1>2 DEF RecvRequest, Up, InLoop
  <2> QED
    BY <2>1, MainGreets
<1>3. CASE Process \/ SendReply
  <2>1. /\ UNCHANGED <<sent, greeted, queue, inMsg>> /\ Up /\ Up'
        /\ out' \in {out, Append(out, inMsg.seq)}
    BY <1>3 DEF Process, SendReply, Up, InLoop
  <2> QED
    BY <2>1, MainGreets
<1>4. CASE \E k \in Kinds : DriverSends(k)
  BY <1>4, DriverGreets
<1>5. CASE UNCHANGED vars
  BY <1>5 DEF vars, GreetInv, Up, InLoop
<1> QED
  BY <1>1, <1>2, <1>3, <1>4, <1>5 DEF Next, Main, Environment

(* Nothing sent before the driver's acknowledgement is ever answered, for  *)
(* any number of messages and a socket of any size                         *)
(* (saiagent_ipc.c:303-313).                                               *)
THEOREM AckComesFirst == Spec => []NoAnswerBeforeAck
<1>1. Init => GreetInv
  BY DEF Init, GreetInv, Up, InLoop
<1>2. Inv /\ GreetInv => NoAnswerBeforeAck
  BY DEF GreetInv, NoAnswerBeforeAck, Answered
<1> QED
  BY <1>1, <1>2, NextGreets, IpcInvariant, PTL DEF Spec
=============================================================================
