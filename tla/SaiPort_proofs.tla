---------------------------- MODULE SaiPort_proofs ----------------------------
(***************************************************************************)
(* Proofs about SaiPort, for any ports and any number of link changes: the *)
(* driver's idea of a link is stale only while a change is under way or    *)
(* when the latest event was lost.                                         *)
(***************************************************************************)
EXTENDS SaiPort, SequenceTheorems, TLAPS

EventPorts == {EventPort(o) : o \in Oid}

(* One step per handler and per step of the notification.                  *)
LEMMA TypeStep == TypeOK /\ [Next]_vars => TypeOK'
<1> SUFFICES ASSUME TypeOK, [Next]_vars PROVE TypeOK'
  OBVIOUS
<1>1. CASE AttrIgnored \/ InfoGet \/ AttrGet
  BY <1>1 DEF AttrIgnored, InfoGet, AttrGet, Answer, sai, link, TypeOK
<1>2. ASSUME NEW p \in Port, NEW v \in Byte, PhySet(p, v) \/ SetRefused("phy", p, v)
                                                  \/ QueryFails("phy", p, v)
      PROVE  TypeOK'
  <2>1. last' \in Request /\ reply' \in {"ACK", "FAILED"} /\ UNCHANGED <<pvid, link>>
    <3>1. PICK fault \in BOOLEAN :
            last' = [attr |-> "phy", port |-> p, value |-> v, fault |-> fault]
      <4>1. (PortFind(p) # Null) \in BOOLEAN
        OBVIOUS
      <4> QED
        BY <1>2, <4>1, Zenon DEF PhySet, SetRefused, QueryFails, Asked
    <3>2. last' \in Request
      BY <3>1, Zenon DEF Request
    <3> QED
      BY <1>2, <3>2 DEF PhySet, SetRefused, QueryFails, sai
  <2>2. admin' \in [Oid -> BOOLEAN]
    <3>1. CASE SetRefused("phy", p, v) \/ QueryFails("phy", p, v)
      BY <3>1 DEF SetRefused, QueryFails, sai, TypeOK
    <3>2. CASE PhySet(p, v)
      <4>1. (v # 0) \in BOOLEAN
        OBVIOUS
      <4> QED
        BY <3>2, <4>1, Zenon DEF PhySet, TypeOK
    <3> QED
      BY <1>2, <3>1, <3>2
  <2> QED
    BY <2>1, <2>2 DEF TypeOK, link
<1>3. ASSUME NEW p \in Port, NEW v \in Vid, PvidSet(p, v) \/ SetRefused("pvid", p, v)
                                                 \/ QueryFails("pvid", p, v)
      PROVE  TypeOK'
  <2>1. last' \in Request /\ reply' \in {"ACK", "FAILED"} /\ UNCHANGED <<admin, link>>
    <3>1. PICK fault \in BOOLEAN :
            last' = [attr |-> "pvid", port |-> p, value |-> v, fault |-> fault]
      <4>1. (PortFind(p) # Null) \in BOOLEAN
        OBVIOUS
      <4> QED
        BY <1>3, <4>1, Zenon DEF PvidSet, SetRefused, QueryFails, Asked
    <3>2. last' \in Request
      BY <3>1, Zenon DEF Request
    <3> QED
      BY <1>3, <3>2 DEF PvidSet, SetRefused, QueryFails, sai
  <2>2. pvid' \in [Oid -> Vid]
    BY <1>3 DEF PvidSet, SetRefused, QueryFails, sai, TypeOK
  <2> QED
    BY <2>1, <2>2 DEF TypeOK, link
<1>4. ASSUME NEW o \in Oid, LinkChanges(o) PROVE TypeOK'
  <2>1. oper' \in [Oid -> BOOLEAN] /\ oper'[o] \in BOOLEAN
    BY <1>4, Zenon DEF LinkChanges, TypeOK
  <2>2. [port |-> o, up |-> oper'[o]] \in Status
    BY <2>1 DEF Status
  <2>3. pending' \in Seq(Status)
    BY <1>4, <2>2 DEF LinkChanges, TypeOK
  <2>4. changes' \in 0..MaxChanges
    BY <1>4, PortAssumption DEF LinkChanges, TypeOK
  <2> QED
    BY <1>4, <2>1, <2>3, <2>4 DEF LinkChanges, sai, TypeOK
<1>5. CASE Notify
  <2>1. PICK n \in 1..Len(pending) :
          /\ data' = SubSeq(pending, 1, n)
          /\ pending' = SubSeq(pending, n + 1, Len(pending))
    BY <1>5 DEF Notify
  <2>2. data' \in Seq(Status) /\ pending' \in Seq(Status)
    BY <2>1 DEF TypeOK
  <2> QED
    BY <1>5, <2>2 DEF Notify, sai, TypeOK
<1>6. CASE SendEvent
  <2>1. Head(data) \in Status /\ Tail(data) \in Seq(Status)
    BY <1>6 DEF SendEvent, TypeOK
  <2>2. Head(data).port \in Oid /\ Head(data).up \in BOOLEAN
    BY <2>1, Zenon DEF Status
  <2>3. view' \in [EventPorts -> BOOLEAN]
    BY <1>6, <2>2, Zenon DEF SendEvent, Sent, NotSent, TypeOK, EventPorts
  <2>4. lost' \subseteq Oid
    BY <1>6, <2>2 DEF SendEvent, Sent, NotSent, TypeOK
  <2> QED
    BY <1>6, <2>1, <2>3, <2>4 DEF SendEvent, sai, TypeOK, EventPorts
<1>7. CASE UNCHANGED vars
  BY <1>7 DEF vars, sai, link, TypeOK
<1> QED
  BY <1>1, <1>2, <1>3, <1>4, <1>5, <1>6, <1>7 DEF Next, Handler

(* The port component is type correct (saiagent_port.c:61-96, 134-160).    *)
THEOREM PortTypeCorrect == Spec => []TypeOK
<1>1. Init => TypeOK
  BY PortAssumption DEF Init, TypeOK
<1> QED
  BY <1>1, TypeStep, PTL DEF Spec

(* A request that was acknowledged, no call of the SAI having failed, took *)
(* effect: the SAI's port has the value (saiagent_port.c:77-95, 154-160).  *)
THEOREM AckIsTrue == Spec => []AckMeansApplied
<1>1. Init => AckMeansApplied
  BY DEF Init, AckMeansApplied
<1>2. TypeOK /\ AckMeansApplied /\ [Next]_vars => AckMeansApplied'
  <2> SUFFICES ASSUME TypeOK, AckMeansApplied, [Next]_vars PROVE AckMeansApplied'
    OBVIOUS
  <2>1. CASE AttrIgnored \/ InfoGet \/ AttrGet
    BY <2>1 DEF AttrIgnored, InfoGet, AttrGet, Answer, AckMeansApplied
  <2>2. ASSUME NEW p \in Port, NEW v \in Byte, PhySet(p, v) PROVE AckMeansApplied'
    <3>1. PortFind(p) \in Oid
      BY <2>2, PortAssumption DEF PhySet, PortFind
    <3>2. last'.attr = "phy" /\ last'.port = p /\ last'.value = v
      BY <2>2 DEF PhySet, Asked
    <3>3. admin'[PortFind(p)] = (v # 0)
      BY <2>2, <3>1, Zenon DEF PhySet, TypeOK
    <3> QED
      BY <2>2, <3>2, <3>3 DEF PhySet, AckMeansApplied
  <2>3. ASSUME NEW p \in Port, NEW v \in Vid, PvidSet(p, v) PROVE AckMeansApplied'
    <3>1. PortFind(p) \in Oid
      BY <2>3, PortAssumption DEF PvidSet, PortFind
    <3>2. last'.attr = "pvid" /\ last'.port = p /\ last'.value = v
      BY <2>3 DEF PvidSet, Asked
    <3>3. pvid'[PortFind(p)] = v
      BY <2>3, <3>1 DEF PvidSet, TypeOK
    <3> QED
      BY <2>3, <3>2, <3>3 DEF PvidSet, AckMeansApplied
  <2>4. ASSUME NEW a, NEW p, NEW v, SetRefused(a, p, v) \/ QueryFails(a, p, v)
        PROVE  AckMeansApplied'
    BY <2>4 DEF SetRefused, QueryFails, Asked, AckMeansApplied
  <2>5. ASSUME UNCHANGED <<admin, pvid, last, reply>> PROVE AckMeansApplied'
    BY <2>5 DEF AckMeansApplied
  <2>6. ASSUME \/ \E o \in Oid : LinkChanges(o)
               \/ Notify \/ SendEvent \/ UNCHANGED vars
        PROVE  UNCHANGED <<admin, pvid, last, reply>>
    BY <2>6 DEF LinkChanges, Notify, SendEvent, vars, sai
  <2> QED
    BY <2>1, <2>2, <2>3, <2>4, <2>5, <2>6 DEF Next, Handler
<1> QED
  BY <1>1, <1>2, PortTypeCorrect, PTL DEF Spec
-----------------------------------------------------------------------------
(* What the driver has not been told yet, in the order it will be.         *)
Wait == data \o pending

(* The latest of the changes of o in s has the state up.                   *)
Latest(s, o, up) ==
  \E k \in DOMAIN s :
    /\ s[k].port = o /\ s[k].up = up
    /\ \A j \in DOMAIN s : j > k => s[j].port # o

NoneOf(s, o) == \A k \in DOMAIN s : s[k].port # o

(* The last change on its way tells the state of the link; if there is     *)
(* none, the driver knows it, or the last event was lost.                  *)
FreshInv == \A o \in Oid :
  \/ Latest(Wait, o, oper[o])
  \/ NoneOf(Wait, o) /\ (o \in lost \/ view[EventPort(o)] = oper[o])

LEMMA LatestAppended ==
  ASSUME NEW s \in Seq(Status), NEW e \in Status, NEW o, NEW up
  PROVE  /\ e.port = o /\ e.up = up => Latest(Append(s, e), o, up)
         /\ e.port # o /\ Latest(s, o, up) => Latest(Append(s, e), o, up)
         /\ e.port # o /\ NoneOf(s, o) => NoneOf(Append(s, e), o)
<1> DEFINE t == Append(s, e)
           n == Len(s)
<1>1. /\ n \in Nat /\ DOMAIN s = 1..n /\ DOMAIN t = 1..(n + 1)
      /\ t[n + 1] = e /\ \A k \in 1..n : t[k] = s[k]
  OBVIOUS
<1> HIDE DEF t, n
<1>2. ASSUME e.port = o, e.up = up PROVE Latest(t, o, up)
  <2>1. n + 1 \in DOMAIN t /\ \A j \in DOMAIN t : ~(j > n + 1)
    BY <1>1
  <2> QED
    BY <1>1, <1>2, <2>1 DEF Latest
<1>3. ASSUME e.port # o, Latest(s, o, up) PROVE Latest(t, o, up)
  <2>1. PICK k \in 1..n : /\ s[k].port = o /\ s[k].up = up
                           /\ \A j \in 1..n : j > k => s[j].port # o
    BY <1>1, <1>3 DEF Latest
  <2>2. ASSUME NEW j \in 1..(n + 1), j > k PROVE t[j].port # o
    <3>1. CASE j = n + 1
      BY <1>1, <1>3, <3>1
    <3>2. CASE j # n + 1
      <4>1. j \in 1..n
        BY <1>1, <3>2
      <4> QED
        BY <1>1, <2>1, <2>2, <4>1
    <3> QED
      BY <3>1, <3>2
  <2>3. k \in 1..(n + 1)
    BY <1>1
  <2> QED
    BY <1>1, <2>1, <2>2, <2>3 DEF Latest
<1>4. ASSUME e.port # o, NoneOf(s, o) PROVE NoneOf(t, o)
  <2>1. ASSUME NEW j \in 1..(n + 1) PROVE t[j].port # o
    <3>1. CASE j = n + 1
      BY <1>1, <1>4, <3>1
    <3>2. CASE j # n + 1
      <4>1. j \in 1..n
        BY <1>1, <3>2
      <4> QED
        BY <1>1, <1>4, <4>1 DEF NoneOf
    <3> QED
      BY <3>1, <3>2
  <2> QED
    BY <1>1, <2>1 DEF NoneOf
<1> QED
  BY <1>2, <1>3, <1>4 DEF t

(* Dropping the first change of a queue: the latest of o stays, unless it  *)
(* is the one dropped.                                                     *)
LEMMA LatestDropped ==
  ASSUME NEW s \in Seq(Status), s # << >>, NEW o, NEW up
  PROVE  /\ Latest(s, o, up) =>
              \/ Latest(Tail(s), o, up)
              \/ NoneOf(Tail(s), o) /\ s[1].port = o /\ s[1].up = up
         /\ NoneOf(s, o) => NoneOf(Tail(s), o) /\ s[1].port # o
<1> DEFINE t == Tail(s)
           n == Len(s) - 1
<1>1. /\ n \in Nat /\ DOMAIN s = 1..(n + 1) /\ DOMAIN t = 1..n
      /\ \A k \in 1..n : t[k] = s[k + 1]
  OBVIOUS
<1> HIDE DEF t, n
<1>2. ASSUME Latest(s, o, up)
      PROVE  Latest(t, o, up) \/ (NoneOf(t, o) /\ s[1].port = o /\ s[1].up = up)
  <2>1. PICK k \in 1..(n + 1) : /\ s[k].port = o /\ s[k].up = up
                                 /\ \A j \in 1..(n + 1) : j > k => s[j].port # o
    BY <1>1, <1>2 DEF Latest
  <2>2. ASSUME NEW j \in 1..n, j + 1 > k PROVE t[j].port # o
    <3>1. j + 1 \in 1..(n + 1)
      BY <1>1
    <3> QED
      BY <1>1, <2>1, <2>2, <3>1
  <2>3. CASE k = 1
    <3>1. \A j \in 1..n : j + 1 > k
      BY <1>1, <2>3
    <3> QED
      BY <1>1, <2>1, <2>2, <2>3, <3>1 DEF NoneOf
  <2>4. CASE k # 1
    <3>1. k - 1 \in 1..n /\ t[k - 1] = s[k]
      BY <1>1, <2>4
    <3>2. \A j \in 1..n : j > k - 1 => j + 1 > k
      BY <1>1
    <3> QED
      BY <1>1, <2>1, <2>2, <3>1, <3>2 DEF Latest
  <2> QED
    BY <2>3, <2>4
<1>3. ASSUME NoneOf(s, o) PROVE NoneOf(t, o) /\ s[1].port # o
  <2>1. ASSUME NEW j \in 1..n PROVE t[j].port # o
    <3>1. j + 1 \in 1..(n + 1)
      BY <1>1
    <3> QED
      BY <1>1, <1>3, <3>1 DEF NoneOf
  <2>2. 1 \in 1..(n + 1)
    BY <1>1
  <2> QED
    BY <1>1, <1>3, <2>1, <2>2 DEF NoneOf
<1> QED
  BY <1>2, <1>3 DEF t

(* What each step does to the queue.                                       *)
LEMMA WaitAppended ==
  ASSUME TypeOK, NEW e \in Status, pending' = Append(pending, e), data' = data
  PROVE  Wait \in Seq(Status) /\ Wait' = Append(Wait, e)
<1>1. data \in Seq(Status) /\ pending \in Seq(Status)
  BY DEF TypeOK
<1> QED
  BY <1>1 DEF Wait

LEMMA WaitKept == TypeOK /\ Notify => Wait' = Wait
<1> SUFFICES ASSUME TypeOK, Notify PROVE Wait' = Wait
  OBVIOUS
<1>1. pending \in Seq(Status) /\ data = << >>
  BY DEF TypeOK, Notify
<1>2. PICK n \in 1..Len(pending) :
        /\ data' = SubSeq(pending, 1, n)
        /\ pending' = SubSeq(pending, n + 1, Len(pending))
  BY DEF Notify
<1>3. Wait = pending
  BY <1>1 DEF Wait
<1>4. SubSeq(pending, 1, n) \o SubSeq(pending, n + 1, Len(pending)) = pending
  BY <1>1, <1>2
<1> QED
  BY <1>2, <1>3, <1>4 DEF Wait

LEMMA WaitDropped ==
  ASSUME TypeOK, data # << >>, data' = Tail(data), pending' = pending
  PROVE  /\ Wait \in Seq(Status) /\ Wait # << >>
         /\ Wait[1] = Head(data) /\ Wait' = Tail(Wait)
<1>1. data \in Seq(Status) /\ pending \in Seq(Status) /\ data # << >>
  BY DEF TypeOK
<1>2. /\ data \o pending \in Seq(Status) /\ data \o pending # << >>
      /\ (data \o pending)[1] = Head(data)
  BY <1>1
<1>3. Tail(data) \o pending = Tail(data \o pending)
  BY <1>1
<1> QED
  BY <1>2, <1>3 DEF Wait
-----------------------------------------------------------------------------
LEMMA FreshStep == TypeOK /\ FreshInv /\ [Next]_vars => FreshInv'
<1> SUFFICES ASSUME TypeOK, FreshInv, [Next]_vars PROVE FreshInv'
  OBVIOUS
<1>1. ASSUME UNCHANGED <<oper, view, lost>>, Wait' = Wait PROVE FreshInv'
  BY <1>1 DEF FreshInv
<1>2. ASSUME Handler \/ UNCHANGED vars PROVE UNCHANGED link
  BY <1>2 DEF Handler, AttrIgnored, InfoGet, AttrGet, Answer, PhySet, PvidSet, SetRefused,
                  QueryFails, vars
<1>3. CASE UNCHANGED link
  BY <1>1, <1>3 DEF link, Wait
<1>4. CASE Notify
  BY <1>1, <1>4, WaitKept DEF Notify
<1>5. ASSUME NEW p \in Oid, LinkChanges(p) PROVE FreshInv'
  <2> DEFINE e == [port |-> p, up |-> oper'[p]]
  <2>1. oper'[p] \in BOOLEAN
    BY <1>5, Zenon DEF LinkChanges, TypeOK
  <2>2. e \in Status /\ e.port = p /\ e.up = oper'[p]
    BY <2>1 DEF Status
  <2>3. \A o \in Oid : o # p => oper'[o] = oper[o]
    BY <1>5, Zenon DEF LinkChanges, TypeOK
  <2>4. /\ UNCHANGED <<view, lost>>
        /\ Wait \in Seq(Status) /\ Wait' = Append(Wait, e)
    BY <1>5, <2>2, WaitAppended DEF LinkChanges
  <2> HIDE DEF e
  <2>5. ASSUME NEW o \in Oid
        PROVE  \/ Latest(Wait', o, oper'[o])
               \/ NoneOf(Wait', o) /\ (o \in lost' \/ view'[EventPort(o)] = oper'[o])
    <3>1. CASE o = p
      BY <2>2, <2>4, <3>1, LatestAppended
    <3>2. CASE o # p
      BY <2>2, <2>3, <2>4, <3>2, LatestAppended DEF FreshInv
    <3> QED
      BY <3>1, <3>2
  <2> QED
    BY <2>5 DEF FreshInv
<1>6. CASE SendEvent
  <2> DEFINE e == Head(data)
  <2>1. /\ data # << >> /\ data' = Tail(data) /\ UNCHANGED <<oper, pending>>
        /\ Sent(e.port, e.up) \/ NotSent(e.port)
    BY <1>6 DEF SendEvent
  <2>2. e \in Status /\ e.port \in Oid
    <3>1. e \in Status
      BY <2>1 DEF TypeOK
    <3> QED
      BY <3>1 DEF Status
  <2>3. /\ Wait \in Seq(Status) /\ Wait # << >>
        /\ Wait[1] = e /\ Wait' = Tail(Wait)
    BY <2>1, WaitDropped
  <2> HIDE DEF e
  <2>4. ASSUME NEW o \in Oid, o # e.port
        PROVE  view'[EventPort(o)] = view[EventPort(o)] /\ (o \in lost' <=> o \in lost)
    <3>1. EventPort(o) # EventPort(e.port)
      BY <2>2, <2>4, PortAssumption
    <3>2. EventPort(o) \in EventPorts /\ view \in [EventPorts -> BOOLEAN]
      BY DEF EventPorts, TypeOK
    <3>3. view'[EventPort(o)] = view[EventPort(o)]
      BY <2>1, <3>1, <3>2, Zenon DEF Sent, NotSent
    <3> QED
      BY <2>1, <2>4, <3>3 DEF Sent, NotSent
  <2>5. e.port \in lost' \/ view'[EventPort(e.port)] = e.up
    <3>1. EventPort(e.port) \in EventPorts /\ view \in [EventPorts -> BOOLEAN]
      BY <2>2 DEF EventPorts, TypeOK
    <3> QED
      BY <2>1, <3>1, Zenon DEF Sent, NotSent
  <2>6. ASSUME NEW o \in Oid
        PROVE  \/ Latest(Wait', o, oper'[o])
               \/ NoneOf(Wait', o) /\ (o \in lost' \/ view'[EventPort(o)] = oper'[o])
    <3>1. CASE Latest(Wait, o, oper[o])
      <4>1. Latest(Wait', o, oper[o]) \/ (NoneOf(Wait', o) /\ e.port = o /\ e.up = oper[o])
        BY <2>3, <3>1, LatestDropped
      <4> QED
        BY <2>1, <2>5, <4>1
    <3>2. CASE NoneOf(Wait, o) /\ (o \in lost \/ view[EventPort(o)] = oper[o])
      <4>1. NoneOf(Wait', o) /\ e.port # o
        BY <2>3, <3>2, LatestDropped
      <4> QED
        BY <2>1, <2>4, <3>2, <4>1
    <3> QED
      BY <3>1, <3>2 DEF FreshInv
  <2> QED
    BY <2>6 DEF FreshInv
<1> QED
  BY <1>2, <1>3, <1>4, <1>5, <1>6 DEF Next

(* The driver's idea of a link is right once no change of it is under way, *)
(* unless the latest event about it was lost (saiagent_switch.c:44-56).    *)
THEOREM DriverIsTold == Spec => []ViewIsFresh
<1>1. Init => FreshInv
  <2> SUFFICES ASSUME Init PROVE FreshInv
    OBVIOUS
  <2>1. Wait = << >>
    BY DEF Init, Wait
  <2>2. \A o \in Oid : view[EventPort(o)] = oper[o]
    BY DEF Init
  <2> QED
    BY <2>1, <2>2 DEF FreshInv, NoneOf
<1>2. TypeOK /\ FreshInv => ViewIsFresh
  <2> SUFFICES ASSUME TypeOK, FreshInv, NEW o \in Oid, ~Waiting(o), o \notin lost
               PROVE  view[EventPort(o)] = oper[o]
    BY DEF ViewIsFresh
  <2>1. data \in Seq(Status) /\ pending \in Seq(Status)
    BY DEF TypeOK
  <2>2. /\ \A k \in 1..Len(data) : data[k].port # o
        /\ \A k \in 1..Len(pending) : pending[k].port # o
    BY <2>1 DEF Waiting
  <2>3. Wait \in Seq(Status) /\ Len(Wait) = Len(data) + Len(pending)
    BY <2>1 DEF Wait
  <2>4. ASSUME NEW k \in 1..(Len(data) + Len(pending)) PROVE Wait[k].port # o
    <3>1. CASE k <= Len(data)
      <4>1. Wait[k] = data[k] /\ k \in 1..Len(data)
        BY <2>1, <3>1 DEF Wait
      <4> QED
        BY <2>2, <4>1
    <3>2. CASE ~(k <= Len(data))
      <4>1. Wait[k] = pending[k - Len(data)] /\ k - Len(data) \in 1..Len(pending)
        BY <2>1, <3>2 DEF Wait
      <4> QED
        BY <2>2, <4>1
    <3> QED
      BY <3>1, <3>2
  <2>5. NoneOf(Wait, o) /\ ~Latest(Wait, o, oper[o])
    BY <2>3, <2>4 DEF NoneOf, Latest
  <2> QED
    BY <2>5 DEF FreshInv
<1> QED
  BY <1>1, <1>2, FreshStep, PortTypeCorrect, PTL DEF Spec
-----------------------------------------------------------------------------
(* The steps of LinkReports, under the mapping of SaiPort.                 *)
Told == [o \in Oid |-> view[EventPort(o)]]

(* A link change is a change of the abstract link and joins its queue.     *)
LEMMA ChangeIsChange ==
  ASSUME TypeOK, NEW o \in Oid, LinkChanges(o) PROVE L!Change(o)
<1> DEFINE e == [port |-> o, up |-> oper'[o]]
<1>1. oper'[o] = ~oper[o] /\ oper'[o] \in BOOLEAN
  BY Zenon DEF LinkChanges, TypeOK
<1>2. e \in Status
  BY <1>1 DEF Status
<1>3. Wait' = Append(Wait, e)
  BY <1>2, WaitAppended DEF LinkChanges
<1>4. e = [port |-> o, up |-> ~oper[o]]
  BY <1>1
<1> QED
  BY <1>3, <1>4 DEF L!Change, LinkChanges, Wait

(* An event sent is a change told, an event lost one missed: EventPort     *)
(* tells the ports apart, so no other port's state is touched.             *)
LEMMA SendIsDeliverOrMiss == TypeOK /\ SendEvent => L!Deliver \/ L!Miss
<1> SUFFICES ASSUME TypeOK, SendEvent PROVE L!Deliver \/ L!Miss
  OBVIOUS
<1> DEFINE e == Head(data)
<1>1. /\ data # << >> /\ data' = Tail(data) /\ UNCHANGED <<oper, pending>>
      /\ Sent(e.port, e.up) \/ NotSent(e.port)
  BY DEF SendEvent
<1>2. e \in Status /\ e.port \in Oid
  <2>1. e \in Status
    BY <1>1 DEF TypeOK
  <2> QED
    BY <2>1 DEF Status
<1>3. Wait # << >> /\ Head(Wait) = e /\ Wait' = Tail(Wait)
  BY <1>1, WaitDropped
<1> HIDE DEF e
<1>4. CASE Sent(e.port, e.up)
  <2>1. ASSUME NEW o \in Oid
        PROVE  view'[EventPort(o)] = IF o = e.port THEN e.up ELSE view[EventPort(o)]
    <3>1. EventPort(o) \in EventPorts /\ view \in [EventPorts -> BOOLEAN]
      BY DEF EventPorts, TypeOK
    <3>2. o # e.port => EventPort(o) # EventPort(e.port)
      BY <1>2, PortAssumption
    <3> QED
      BY <1>4, <3>1, <3>2, Zenon DEF Sent
  <2>2. Told' = [Told EXCEPT ![e.port] = e.up]
    BY <2>1 DEF Told
  <2> QED
    BY <1>1, <1>3, <1>4, <2>2 DEF Sent, L!Deliver, Told, Wait
<1>5. CASE NotSent(e.port)
  BY <1>1, <1>3, <1>5 DEF NotSent, L!Miss, Wait
<1> QED
  BY <1>1, <1>4, <1>5

(* The port notifications implement LinkReports, for any object ids whose  *)
(* low bits differ and any number of changes: handing the SAI's report to  *)
(* the callback is a stutter, and the driver's requests touch none of it   *)
(* (saiagent_switch.c:40-57).                                              *)
THEOREM LinkReportsImplemented == Spec => ImplementsLinkReports
<1>1. Init => L!Init
  <2> SUFFICES ASSUME Init PROVE L!Init
    OBVIOUS
  <2>1. Told = [o \in Oid |-> FALSE]
    BY DEF Init, Told
  <2>2. Wait = << >>
    BY DEF Init, Wait
  <2> QED
    BY <2>1, <2>2 DEF Init, L!Init, Told, Wait
<1>2. TypeOK /\ [Next]_vars => [L!Next]_(L!vars)
  <2> SUFFICES ASSUME TypeOK, [Next]_vars PROVE [L!Next]_(L!vars)
    OBVIOUS
  <2>1. ASSUME UNCHANGED link PROVE UNCHANGED L!vars
    BY <2>1 DEF link, L!vars
  <2>2. CASE Handler \/ UNCHANGED vars
    BY <2>1, <2>2 DEF Handler, AttrIgnored, InfoGet, AttrGet, Answer, PhySet, PvidSet,
                      SetRefused, QueryFails, vars
  <2>3. CASE \E o \in Oid : LinkChanges(o)
    BY <2>3, ChangeIsChange DEF L!Next
  <2>4. CASE Notify
    <3>1. Wait' = Wait
      BY <2>4, WaitKept
    <3> QED
      BY <2>4, <3>1 DEF Notify, L!vars, Wait
  <2>5. CASE SendEvent
    BY <2>5, SendIsDeliverOrMiss DEF L!Next
  <2> QED
    BY <2>2, <2>3, <2>4, <2>5 DEF Next
<1> QED
  BY <1>1, <1>2, PortTypeCorrect, PTL DEF Spec, ImplementsLinkReports, L!Spec
=============================================================================
