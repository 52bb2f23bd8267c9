---------------------------- MODULE SaiAgent_proofs ----------------------------
(***************************************************************************)
(* Proofs about SaiAgent, for any number of contexts and events: what an   *)
(* acknowledged reset has done, that the socket outlives its users, that   *)
(* the process runs the threads of SaiThread and the handlers of           *)
(* SaiSwitch, and that a lost thread is left alone.                        *)
(***************************************************************************)
EXTENDS SaiAgent, TLAPS

InReset == {"remove", "destroy", "join"}

(* What the memory of a context says about its thread.                     *)
MemInv ==
  /\ KeepaliveMemorySafe
  /\ \A c \in Ctx : mem[c] = "unused" => tpc[c] = "none"

(* A reset runs over a switch and a keepalive thread, and joins only that; *)
(* switch_oid is set exactly from create_switch on.                        *)
ResetInv ==
  /\ hpc \in InReset => /\ loop /\ sai # "down" /\ sw.ka # None
                        /\ last = "SWITCH_RESET" /\ reply = None
  /\ joining = IF hpc = "join" THEN sw.ka ELSE None
  /\ sw.oid <=> sai # "down"

(* Only a reset that is done stops the loop, and nothing is asked then.    *)
DoneInv ==
  ~loop => /\ hpc = "idle" /\ last = "SWITCH_RESET" /\ reply = "ACK"
           /\ sw.ka # None /\ tpc[sw.ka] = "done" /\ mem[sw.ka] = "freed"

SwitchInv ==
  /\ TypeOK /\ MemInv /\ ResetInv /\ DoneInv
  /\ KeepaliveUsable /\ AcknowledgedResetIsDone

\* The properties that speak of the threads, for a step that leaves them alone.
LEMMA ThreadsUnchanged ==
  ASSUME T!TypeOK, MemInv, UNCHANGED threadVars PROVE T!TypeOK' /\ MemInv'
BY DEF threadVars, T!TypeOK, MemInv, KeepaliveMemorySafe, T!NoUseAfterFree

LEMMA SwitchCreated ==
  ASSUME TypeOK, NEW o \in Outcome, SaiSwitchInit(o)
  PROVE  /\ sw' \in SwitchInfo
         /\ sai' \in {"down", "up", "removed"}
         /\ sw'.ka = sw.ka
         /\ sw'.oid <=> sw.oid \/ o.far # "nothing"
         /\ sai' # "down" <=> sai # "down" \/ o.far # "nothing"
<1>1. sw \in SwitchInfo
  BY DEF TypeOK
<1>2. PICK oid \in BOOLEAN, known \in BOOLEAN, called \in BOOLEAN :
        /\ sw' = [sw EXCEPT !.oid = oid, !.known = known, !.callback = called]
        /\ oid <=> (sw.oid \/ o.far # "nothing")
  <2>1. /\ (sw.oid \/ o.far # "nothing") \in BOOLEAN
        /\ (sw.known \/ o.far \in {"known", "all"}) \in BOOLEAN
        /\ (sw.callback \/ o.far = "all") \in BOOLEAN
    OBVIOUS
  <2> QED
    BY <2>1, Zenon DEF SaiSwitchInit
<1>3. sw'.oid = oid /\ sw'.ka = sw.ka
  BY <1>1, <1>2 DEF SwitchInfo
<1>4. sw' \in SwitchInfo
  BY <1>1, <1>2 DEF SwitchInfo
<1>5. /\ sai' \in {"down", "up", "removed"}
      /\ sai' # "down" <=> sai # "down" \/ o.far # "nothing"
  BY DEF SaiSwitchInit, TypeOK
<1> QED
  BY <1>2, <1>3, <1>4, <1>5

LEMMA SwitchInitInv ==
  ASSUME SwitchInv, SwitchInit PROVE SwitchInv'
<1>1. PICK o \in Outcome :
        \/ SwitchInitRefused(o)
        \/ \E v \in {"failed", "early", "cached"}, rc \in Garbage : SwitchInitDone(o, v, rc)
  BY DEF SwitchInit
<1>2. /\ SaiSwitchInit(o) /\ hpc = "idle" /\ loop /\ last' = "SWITCH_INIT"
      /\ UNCHANGED threadVars /\ UNCHANGED <<loop, hpc>>
      /\ reply' \in {"FAILED", "INFO"}
  BY <1>1 DEF SwitchInitRefused, SwitchInitDone, Dispatch
<1>3. /\ sw' \in SwitchInfo
      /\ sai' \in {"down", "up", "removed"}
      /\ sw'.ka = sw.ka
      /\ sw'.oid <=> sai' # "down"
  BY <1>2, SwitchCreated DEF SwitchInv, ResetInv
<1>4. cb' \subseteq Cmd /\ cached' \in BOOLEAN
  <2>1. CASE SwitchInitRefused(o)
    BY <2>1 DEF SwitchInitRefused, SwitchHandlers, OwnCmd, Cmd, SwitchInv, TypeOK
  <2>2. ASSUME NEW v \in {"failed", "early", "cached"}, NEW rc \in Garbage,
               SwitchInitDone(o, v, rc)
        PROVE  cb' \subseteq Cmd /\ cached' \in BOOLEAN
    <3>1. cb' = cb \cup SwitchHandlers(o) \cup {"PORT", "FDB", "ROUTER"} \cup VlanHandlers(v)
      BY <2>2 DEF SwitchInitDone
    <3>2. cb' \subseteq Cmd
      BY <3>1 DEF SwitchHandlers, VlanHandlers, OwnCmd, Cmd, Component, SwitchInv, TypeOK
    <3>3. cached' \in BOOLEAN
      BY <2>2, Zenon DEF SwitchInitDone, VlanInit, SwitchInv, TypeOK
    <3> QED
      BY <3>2, <3>3
  <2> QED
    BY <1>1, <2>1, <2>2
<1>5. TypeOK' /\ MemInv'
  BY <1>2, <1>3, <1>4, ThreadsUnchanged DEF SwitchInv, TypeOK, Cmd
<1> QED
  BY <1>2, <1>3, <1>4, <1>5
     DEF SwitchInv, ResetInv, DoneInv, KeepaliveUsable, AcknowledgedResetIsDone, InReset, threadVars

\* Requests that leave the threads alone.
LEMMA QuietInv ==
  ASSUME SwitchInv, AttrSet \/ \E cmd \in Cmd : Unsupported(cmd) PROVE SwitchInv'
<1>1. /\ hpc = "idle" /\ loop /\ UNCHANGED threadVars
      /\ UNCHANGED <<cb, sw, sai, cached, loop, hpc>>
      /\ last' \in Cmd /\ reply' \in {"ACK", "FAILED"}
      /\ last' = "SWITCH_RESET" => reply' = "FAILED"
  BY DEF AttrSet, Unsupported, Dispatch, Cmd, OwnCmd
<1>2. TypeOK' /\ MemInv'
  BY <1>1, ThreadsUnchanged DEF SwitchInv, TypeOK
<1> QED
  BY <1>1, <1>2
     DEF SwitchInv, ResetInv, DoneInv, KeepaliveUsable, AcknowledgedResetIsDone, InReset, threadVars

\* The types and MemInv under what the owner does to the threads.
LEMMA OwnerStep ==
  ASSUME T!TypeOK, MemInv, NEW c \in Ctx,
         T!Create(c, "LOOP") \/ T!CreateFails(c) \/ T!Stop(c) \/ T!BeginDestroy(c)
           \/ T!FinishDestroy(c)
  PROVE  T!TypeOK' /\ MemInv'
<1> USE DEF T!TypeOK, MemInv, KeepaliveMemorySafe, T!NoUseAfterFree, T!InLoop
<1>1. CASE T!Create(c, "LOOP")
  BY <1>1 DEF T!Create
<1>2. CASE T!CreateFails(c)
  BY <1>2 DEF T!CreateFails
<1>3. CASE T!Stop(c) \/ T!BeginDestroy(c)
  BY <1>3 DEF T!Stop, T!BeginDestroy
<1>4. CASE T!FinishDestroy(c)
  BY <1>4 DEF T!FinishDestroy
<1> QED
  BY <1>1, <1>2, <1>3, <1>4

LEMMA KeepaliveInitInv ==
  ASSUME SwitchInv, NEW c \in Ctx, KeepaliveInit(c) PROVE SwitchInv'
<1>1. /\ hpc = "idle" /\ loop /\ last' = "KEEPALIVE_INIT"
      /\ UNCHANGED <<cb, sai, cached, loop, hpc>>
      /\ joining = None /\ joining' = None
  BY DEF KeepaliveInit, Dispatch, SwitchInv, ResetInv, T!Create, T!CreateFails
<1>2. T!TypeOK' /\ MemInv'
  BY OwnerStep DEF KeepaliveInit, SwitchInv, TypeOK
<1>3. CASE T!Create(c, "LOOP") /\ sw' = [sw EXCEPT !.ka = c] /\ reply' = "ACK"
  <2>1. /\ sw' \in SwitchInfo
        /\ sw'.ka = c /\ sw'.oid = sw.oid
    BY <1>3 DEF SwitchInv, TypeOK, SwitchInfo
  <2>2. mem'[c] = "live"
    BY <1>3 DEF T!Create, T!TypeOK, SwitchInv, TypeOK
  <2> QED
    BY <1>1, <1>2, <1>3, <2>1, <2>2
       DEF SwitchInv, TypeOK, Cmd, OwnCmd, ResetInv, DoneInv, KeepaliveUsable,
           AcknowledgedResetIsDone, InReset
<1>4. CASE T!CreateFails(c) /\ UNCHANGED sw /\ reply' = "FAILED"
  <2>1. sw.ka # None => sw.ka \in Ctx /\ mem[sw.ka] = "live" /\ sw.ka # c
    BY <1>1, <1>4 DEF SwitchInv, TypeOK, SwitchInfo, KeepaliveUsable, T!CreateFails
  <2>2. sw.ka # None => mem'[sw.ka] = "live"
    BY <1>4, <2>1 DEF T!CreateFails, T!TypeOK, SwitchInv, TypeOK
  <2> QED
    BY <1>1, <1>2, <1>4, <2>2
       DEF SwitchInv, TypeOK, Cmd, OwnCmd, ResetInv, DoneInv, KeepaliveUsable,
           AcknowledgedResetIsDone, InReset
<1> QED
  BY <1>3, <1>4 DEF KeepaliveInit

LEMMA ResetBeginInv ==
  ASSUME SwitchInv, ResetBegin PROVE SwitchInv'
<1>1. /\ hpc = "idle" /\ loop /\ last' = "SWITCH_RESET"
      /\ UNCHANGED <<cb, sw, sai, cached, loop>>
      /\ joining = None
  BY DEF ResetBegin, Dispatch, SwitchInv, ResetInv
<1>2. /\ \/ hpc' = "idle" /\ reply' = "ACK" /\ ~sw.oid
         \/ hpc' = "crashed" /\ reply' = None
         \/ hpc' = "remove" /\ reply' = None /\ sw.oid /\ sw.ka # None
      /\ joining' = None
      /\ T!TypeOK' /\ MemInv'
      /\ UNCHANGED mem
  <2>1. CASE ~sw.oid \/ sw.ka = None
    BY <1>1, <2>1, ThreadsUnchanged DEF ResetBegin, SwitchInv, TypeOK, threadVars
  <2>2. CASE sw.oid /\ sw.ka # None
    <3>1. T!Stop(sw.ka) /\ hpc' = "remove" /\ reply' = None /\ sw.ka \in Ctx
      BY <1>1, <2>2 DEF ResetBegin, SwitchInv, TypeOK, SwitchInfo
    <3>2. T!TypeOK' /\ MemInv'
      BY <3>1, OwnerStep DEF SwitchInv, TypeOK
    <3> QED
      BY <1>1, <2>2, <3>1, <3>2 DEF T!Stop
  <2> QED
    BY <2>1, <2>2
<1>3. TypeOK'
  BY <1>1, <1>2 DEF SwitchInv, TypeOK, Cmd, OwnCmd
<1>4. AcknowledgedResetIsDone'
  BY <1>1, <1>2, SwitchAssumption DEF AcknowledgedResetIsDone, SwitchInv, ResetInv
<1> QED
  BY <1>1, <1>2, <1>3, <1>4 DEF SwitchInv, ResetInv, DoneInv, KeepaliveUsable, InReset

LEMMA ResetGoesOnInv ==
  ASSUME SwitchInv, ResetGoesOn PROVE SwitchInv'
<1>1. /\ hpc \in InReset /\ loop /\ sw.ka \in Ctx /\ last = "SWITCH_RESET" /\ reply = None
      /\ UNCHANGED <<cb, sw, cached, last>>
  BY DEF ResetGoesOn, ResetRemove, ResetDestroy, ResetFinish, InReset, SwitchInv,
     ResetInv, TypeOK, SwitchInfo
<1>2. CASE ResetRemove
  <2>1. TypeOK' /\ MemInv'
    BY <1>2, ThreadsUnchanged DEF ResetRemove, SwitchInv, TypeOK
  <2> QED
    BY <1>1, <1>2, <2>1
       DEF ResetRemove, SwitchInv, ResetInv, DoneInv, KeepaliveUsable, threadVars,
           AcknowledgedResetIsDone, InReset
<1>3. CASE ResetDestroy
  <2>1. T!TypeOK' /\ MemInv'
    BY <1>1, <1>3, OwnerStep DEF ResetDestroy, SwitchInv, TypeOK
  <2>2. joining' = sw.ka /\ UNCHANGED mem
    BY <1>3 DEF ResetDestroy, T!BeginDestroy
  <2> QED
    BY <1>1, <1>3, <2>1, <2>2, SwitchAssumption
       DEF ResetDestroy, SwitchInv, TypeOK, ResetInv, DoneInv, KeepaliveUsable,
           AcknowledgedResetIsDone, InReset
<1>4. CASE ResetFinish
  <2>1. T!TypeOK' /\ MemInv'
    BY <1>1, <1>4, OwnerStep DEF ResetFinish, SwitchInv, TypeOK
  <2>2. joining' = None /\ tpc'[sw.ka] = "done" /\ mem'[sw.ka] = "freed"
    BY <1>1, <1>4 DEF ResetFinish, T!FinishDestroy, SwitchInv, TypeOK, T!TypeOK
  <2>3. /\ loop' = FALSE /\ hpc' = "idle" /\ reply' = "ACK" /\ sw'.ka # None
        /\ UNCHANGED <<cb, sw, sai, cached, last>>
    BY <1>1, <1>4 DEF ResetFinish, SwitchInv, ResetInv
  <2>4. TypeOK'
    BY <2>1, <2>3 DEF SwitchInv, TypeOK
  <2>5. ResetInv' /\ DoneInv'
    BY <1>1, <2>2, <2>3 DEF SwitchInv, ResetInv, DoneInv, InReset
  <2>6. KeepaliveUsable' /\ AcknowledgedResetIsDone'
    BY <1>1, <2>2, <2>3
       DEF SwitchInv, KeepaliveUsable, AcknowledgedResetIsDone
  <2> QED
    BY <2>1, <2>4, <2>5, <2>6 DEF SwitchInv
<1> QED
  BY <1>2, <1>3, <1>4 DEF ResetGoesOn

\* A step of a thread changes neither the memory nor what the owner waits for,
\* and a thread that is done takes none.
LEMMA ThreadStep ==
  ASSUME T!TypeOK, MemInv, NEW c \in Ctx, T!Thread(c)
  PROVE  /\ T!TypeOK' /\ MemInv'
         /\ UNCHANGED <<mem, joining>>
         /\ tpc[c] \notin {"none", "done"}
         /\ \A d \in Ctx \ {c} : tpc'[d] = tpc[d]
<1> USE DEF T!TypeOK, T!InLoop
<1>1. /\ UNCHANGED <<mem, joining, kind>>
      /\ tpc[c] \in {"start"} \cup T!InLoop
      /\ \E p \in {"done"} \cup T!InLoop : tpc' = [tpc EXCEPT ![c] = p]
  <2>1. CASE T!StartLoop(c) \/ T!StartNormal(c) \/ T!Call(c) \/ T!Wake(c)
    BY <2>1 DEF T!StartLoop, T!StartNormal, T!Call, T!Wake
  <2>2. CASE T!Test(c)
    <3>1. PICK p \in {"call", "done"} : tpc' = [tpc EXCEPT ![c] = p]
      BY <2>2, Zenon DEF T!Test
    <3> QED
      BY <2>2, <3>1 DEF T!Test
  <2> QED
    BY <2>1, <2>2 DEF T!Thread
<1>2. running' \in [Ctx -> BOOLEAN]
  BY DEF T!Thread, T!StartLoop, T!StartNormal, T!Test, T!Call, T!Wake
<1>3. late' \in [Ctx -> Nat]
  <2>1. CASE T!Call(c)
    <3>1. late' = [late EXCEPT ![c] = late[c]] \/ late' = [late EXCEPT ![c] = late[c] + 1]
      BY <2>1, Zenon DEF T!Call
    <3> QED
      BY <3>1
  <2> QED
    BY <2>1 DEF T!Thread, T!StartLoop, T!StartNormal, T!Test, T!Wake
<1>4. T!TypeOK'
  BY <1>1, <1>2, <1>3
<1>5. MemInv'
  BY <1>1 DEF MemInv, KeepaliveMemorySafe, T!NoUseAfterFree
<1> QED
  BY <1>1, <1>4, <1>5

LEMMA KeepaliveInv ==
  ASSUME SwitchInv, NEW c \in Ctx, Keepalive(c) PROVE SwitchInv'
<1>1. /\ T!TypeOK' /\ MemInv' /\ UNCHANGED <<mem, joining>>
      /\ tpc[c] \notin {"none", "done"}
      /\ \A d \in Ctx \ {c} : tpc'[d] = tpc[d]
      /\ UNCHANGED switchVars
  BY ThreadStep DEF Keepalive, SwitchInv, TypeOK
<1>2. sw.ka # None /\ tpc[sw.ka] = "done" => tpc'[sw.ka] = "done"
  BY <1>1 DEF SwitchInv, TypeOK, SwitchInfo
<1> QED
  BY <1>1, <1>2
     DEF SwitchInv, TypeOK, ResetInv, DoneInv, KeepaliveUsable, switchVars,
         AcknowledgedResetIsDone, InReset
-----------------------------------------------------------------------------
(* The process around the handlers.                                        *)

\* No request was served yet.
Pristine == loop /\ sai = "down" /\ \A c \in Ctx : tpc[c] = "none"

(* Where main is tells what there is to use and to clean up.               *)
MainInv ==
  /\ main \in StartUp => Pristine
  /\ main \in ShutDown => Pristine \/ ~loop
  /\ main \in {"ipc", "hello", "recv", "send", "uninit"} => api
  /\ main \in {"start", "ipc"} => socket = "none"
  /\ main \in {"hello", "recv", "send", "uninit"} => socket = "open"
  /\ main \in {"recv"} \cup StartUp => loop
  /\ main = "uninit" => ~loop
  /\ socket = "freed" => main \in {"exiting", "gone"}
  /\ main \in {"exiting", "gone"} => socket # "open"
  /\ main \in {"deinit", "exiting", "gone"} => ~api \/ sai = "down"
  /\ notify # 0 => main \in {"recv", "send", "uninit"}

(* What was sent, to whom, and when.                                       *)
SentInv ==
  /\ socket # "freed" => misused = {}
  /\ ~acked => after = {}
  /\ acked => main \in ShutDown /\ ~loop
  /\ SocketOutlivesUsers
  /\ NothingAfterResetAck

AgentInv == SwitchInv /\ AgentTypeOK /\ MainInv /\ SentInv

LEMMA InitSwitchInv ==
  ASSUME Init PROVE SwitchInv /\ Pristine
<1>1. T!TypeOK /\ MemInv /\ \A c \in Ctx : tpc[c] = "none"
  BY DEF Init, T!Init, T!TypeOK, T!InLoop, MemInv, KeepaliveMemorySafe, T!NoUseAfterFree
<1>2. TypeOK
  BY <1>1 DEF Init, TypeOK, SwitchInfo, Cmd
<1>3. ResetInv /\ DoneInv
  <2>1. ~sw.oid
    BY Zenon DEF Init
  <2> QED
    BY <2>1 DEF Init, T!Init, ResetInv, DoneInv, InReset
<1>4. KeepaliveUsable /\ AcknowledgedResetIsDone
  BY SwitchAssumption
     DEF Init, KeepaliveUsable, AcknowledgedResetIsDone
<1> QED
  BY <1>1, <1>2, <1>3, <1>4 DEF SwitchInv, Pristine, Init

LEMMA InitAgentInv ==
  AgentInit => AgentInv
<1> SUFFICES ASSUME AgentInit PROVE AgentInv
  OBVIOUS
<1>1. SwitchInv /\ Pristine
  BY InitSwitchInv DEF AgentInit
<1>2. AgentTypeOK
  <2>1. api \in BOOLEAN /\ acked \in BOOLEAN
    BY Zenon DEF AgentInit
  <2>2. /\ TypeOK
        /\ main = "start" /\ socket = "none" /\ notify = 0 /\ after = {} /\ misused = {}
    BY <1>1, Zenon DEF AgentInit, SwitchInv
  <2> QED
    BY <2>1, <2>2, AgentAssumption DEF AgentTypeOK, StartUp
<1> QED
  BY <1>1, <1>2
     DEF AgentInit, AgentInv, MainInv, SentInv, StartUp, ShutDown, Pristine,
         SocketOutlivesUsers, NothingAfterResetAck

\* main serves a request only while the loop runs, and a request never ends it.
LEMMA RequestInv ==
  ASSUME SwitchInv, Request PROVE SwitchInv' /\ loop /\ loop'
<1>1. SwitchInv'
  BY SwitchInitInv, QuietInv, KeepaliveInitInv, ResetBeginInv DEF Request
<1>2. loop /\ loop' = loop
  BY DEF Request, Unsupported, SwitchInit, SwitchInitRefused, SwitchInitDone, AttrSet,
     KeepaliveInit, ResetBegin, Dispatch
<1> QED
  BY <1>1, <1>2

LEMMA StutterInv ==
  ASSUME SwitchInv, UNCHANGED vars PROVE SwitchInv'
<1>1. T!TypeOK' /\ MemInv'
  BY ThreadsUnchanged DEF vars, SwitchInv, TypeOK
<1> QED
  BY <1>1
     DEF SwitchInv, TypeOK, ResetInv, DoneInv, KeepaliveUsable, switchVars, threadVars,
         vars, AcknowledgedResetIsDone, InReset

\* Steps of main around the loop.
LEMMA AroundLoopInv ==
  ASSUME AgentInv, SaiStart \/ IpcStart \/ Handshake \/ SaiStop \/ Deinit \/ Exit
  PROVE  AgentInv'
<1>1. UNCHANGED vars /\ UNCHANGED historyVars /\ UNCHANGED notify
  BY DEF SaiStart, IpcStart, Handshake, SaiStop, Deinit, Exit
<1>2. SwitchInv' /\ (Pristine' <=> Pristine)
  BY <1>1, StutterInv DEF AgentInv, Pristine, vars, threadVars, switchVars
<1>3. AgentTypeOK'
  <2>1. TypeOK' /\ (notify \in 0..MaxEvents)' /\ acked' \in BOOLEAN
        /\ after' \subseteq Ctx \cup {Sai, "reply"} /\ misused' \subseteq Ctx \cup {Sai}
    BY <1>1, <1>2 DEF AgentInv, AgentTypeOK, SwitchInv, historyVars
  <2>2. /\ main' \in StartUp \cup {"recv", "send"} \cup ShutDown
        /\ socket' \in {"none", "open", "freed"}
    BY DEF AgentInv, AgentTypeOK, StartUp, ShutDown, SaiStart, IpcStart, Handshake,
       SaiStop, Deinit, Exit
  <2>3. api' \in BOOLEAN
    <3>1. CASE SaiStart
      BY <3>1, Zenon DEF SaiStart
    <3>2. CASE SaiStop
      BY <3>2, Zenon DEF SaiStop
    <3>3. CASE IpcStart \/ Handshake \/ Deinit \/ Exit
      BY <3>3 DEF AgentInv, AgentTypeOK, IpcStart, Handshake, Deinit, Exit
    <3> QED
      BY <3>1, <3>2, <3>3
  <2> QED
    BY <2>1, <2>2, <2>3 DEF AgentTypeOK
<1>4. MainInv'
  <2>1. (loop' <=> loop) /\ UNCHANGED <<sai, notify>>
    BY <1>1 DEF vars, switchVars
  <2> USE <1>2, <2>1 DEF AgentInv, MainInv, StartUp, ShutDown
  <2>2. CASE SaiStart
    BY <2>2 DEF SaiStart, Pristine
  <2>3. CASE IpcStart
    BY <2>3 DEF IpcStart, Pristine
  <2>4. CASE Handshake
    BY <2>4 DEF Handshake, AgentTypeOK, Pristine
  <2>5. CASE SaiStop
    BY <2>5 DEF SaiStop
  <2>6. CASE Deinit
    BY <2>6 DEF Deinit
  <2>7. CASE Exit
    BY <2>7 DEF Exit
  <2> QED
    BY <2>2, <2>3, <2>4, <2>5, <2>6, <2>7
<1>5. SentInv'
  BY <1>1
     DEF AgentInv, MainInv, SentInv, StartUp, ShutDown, SaiStart, IpcStart, Handshake,
         SaiStop, Deinit, Exit, vars, switchVars, historyVars, SocketOutlivesUsers,
         NothingAfterResetAck
<1> QED
  BY <1>2, <1>3, <1>4, <1>5 DEF AgentInv

LEMMA HandlerInv ==
  ASSUME AgentInv, Serve \/ HandlerGoesOn PROVE AgentInv'
<1>1. /\ SwitchInv'
      /\ main \in {"recv", "send"} /\ main' = "send"
      /\ UNCHANGED <<api, socket, notify, historyVars>>
  <2>1. CASE Serve
    BY <2>1, RequestInv DEF Serve, AgentInv
  <2>2. CASE HandlerGoesOn
    BY <2>2, ResetGoesOnInv DEF HandlerGoesOn, AgentInv, processVars
  <2> QED
    BY <2>1, <2>2
<1>2. AgentTypeOK'
  BY <1>1 DEF AgentInv, AgentTypeOK, SwitchInv, historyVars
<1>3. MainInv'
  BY <1>1 DEF AgentInv, MainInv, StartUp, ShutDown
<1>4. ~acked /\ after' = {} /\ misused' = {} /\ ~acked'
  BY <1>1 DEF AgentInv, MainInv, SentInv, StartUp, ShutDown, historyVars
<1>5. SentInv'
  BY <1>4 DEF SentInv, SocketOutlivesUsers, NothingAfterResetAck
<1> QED
  BY <1>1, <1>2, <1>3, <1>5 DEF AgentInv

LEMMA SendReplyInv ==
  ASSUME AgentInv, SendReply PROVE AgentInv'
<1>1. /\ main = "send" /\ main' = IF loop THEN "recv" ELSE "uninit"
      /\ UNCHANGED <<vars, api, socket, notify>>
      /\ socket = "open" /\ ~acked /\ after = {} /\ misused = {}
  BY DEF SendReply, AgentInv, MainInv, SentInv, ShutDown
<1>2. SwitchInv' /\ UNCHANGED loop
  BY <1>1, StutterInv DEF AgentInv, vars, switchVars
<1>3. after' = {} /\ misused' = {}
  BY <1>1 DEF SendReply, Sends
<1>4. acked' \in BOOLEAN /\ (acked' => ~loop)
  BY <1>1 DEF SendReply, AgentInv, SwitchInv, ResetInv, AcknowledgedResetIsDone
<1>5. AgentTypeOK'
  BY <1>1, <1>2, <1>3, <1>4 DEF AgentInv, AgentTypeOK, SwitchInv, StartUp, ShutDown
<1>6. MainInv'
  BY <1>1, <1>2 DEF AgentInv, MainInv, StartUp, ShutDown
<1>7. SentInv'
  BY <1>1, <1>2, <1>3, <1>4
     DEF SentInv, ShutDown, SocketOutlivesUsers, NothingAfterResetAck
<1> QED
  BY <1>2, <1>5, <1>6, <1>7 DEF AgentInv

\* A message of a thread that is neither main nor the known keepalive thread,
\* or one that is sent before the reply to a reset.
LEMMA SendsInv ==
  ASSUME AgentInv, NEW s \in Ctx \cup {Sai}, Sends(s),
         s = sw.ka \/ s = Sai => socket # "freed",
         s = sw.ka => ~acked,
         UNCHANGED <<main, socket, acked, loop, sw>>
  PROVE  /\ SentInv'
         /\ after' \subseteq Ctx \cup {Sai, "reply"} /\ misused' \subseteq Ctx \cup {Sai}
<1>1. s # "reply" /\ Sai # sw.ka
  BY AgentAssumption DEF AgentInv, SwitchInv, TypeOK, SwitchInfo
<1>2. CASE socket = "freed"
  BY <1>1, <1>2
     DEF Sends, AgentInv, AgentTypeOK, SentInv, SocketOutlivesUsers, NothingAfterResetAck
<1>3. CASE socket # "freed" /\ ~acked
  BY <1>1, <1>3
     DEF Sends, AgentInv, AgentTypeOK, SentInv, SocketOutlivesUsers, NothingAfterResetAck
<1>4. CASE socket # "freed" /\ acked
  BY <1>1, <1>4
     DEF Sends, AgentInv, AgentTypeOK, SentInv, SocketOutlivesUsers, NothingAfterResetAck
<1> QED
  BY <1>2, <1>3, <1>4

\* The known keepalive thread runs only while the loop does.
LEMMA KeepaliveRunsInv ==
  ASSUME AgentInv, NEW c \in Ctx, KeepaliveRuns(c) PROVE AgentInv'
<1>1. /\ SwitchInv' /\ tpc[c] \notin {"none", "done"}
      /\ UNCHANGED switchVars /\ UNCHANGED processVars /\ UNCHANGED acked
  BY KeepaliveInv, ThreadStep DEF KeepaliveRuns, Keepalive, AgentInv, SwitchInv, TypeOK
<1>2. ~Pristine /\ (c = sw.ka => loop)
  BY <1>1 DEF Pristine, AgentInv, SwitchInv, DoneInv
<1>3. MainInv'
  BY <1>1, <1>2 DEF AgentInv, MainInv, Pristine, switchVars, processVars
<1>4. /\ SentInv'
      /\ after' \subseteq Ctx \cup {Sai, "reply"} /\ misused' \subseteq Ctx \cup {Sai}
  <2>1. CASE Sends(c)
    <3>1. c = sw.ka => socket # "freed" /\ ~acked
      BY <1>2 DEF AgentInv, MainInv, SentInv, ShutDown
    <3>2. c # Sai
      BY AgentAssumption
    <3> QED
      BY <1>1, <2>1, <3>1, <3>2, SendsInv DEF switchVars, processVars
  <2>2. CASE UNCHANGED <<after, misused>>
    BY <1>1, <2>2
       DEF AgentInv, AgentTypeOK, SentInv, SocketOutlivesUsers, NothingAfterResetAck,
           switchVars, processVars
  <2> QED
    BY <2>1, <2>2 DEF KeepaliveRuns
<1>5. AgentTypeOK'
  BY <1>1, <1>4 DEF AgentInv, AgentTypeOK, SwitchInv, processVars
<1> QED
  BY <1>1, <1>3, <1>4, <1>5 DEF AgentInv

LEMMA NotifyInv ==
  ASSUME AgentInv, NotifyBegins \/ NotifySends PROVE AgentInv'
<1>1. UNCHANGED vars /\ UNCHANGED <<main, api, socket, acked>>
  BY DEF NotifyBegins, NotifySends, historyVars
<1>2. SwitchInv' /\ (Pristine' <=> Pristine)
  BY <1>1, StutterInv DEF AgentInv, Pristine, vars, threadVars, switchVars
<1>3. notify' \in 0..MaxEvents /\ main \in {"recv", "send", "uninit"}
  <2>1. CASE NotifyBegins
    BY <2>1, AgentAssumption
       DEF NotifyBegins, Alive, AgentInv, AgentTypeOK, MainInv, Pristine, StartUp, ShutDown
  <2>2. CASE NotifySends
    BY <2>2, AgentAssumption DEF NotifySends, AgentInv, AgentTypeOK, MainInv
  <2> QED
    BY <2>1, <2>2
<1>4. MainInv'
  BY <1>1, <1>2, <1>3 DEF AgentInv, MainInv, vars, switchVars, Pristine
<1>5. /\ SentInv'
      /\ after' \subseteq Ctx \cup {Sai, "reply"} /\ misused' \subseteq Ctx \cup {Sai}
  <2>1. CASE Sends(Sai)
    <3>1. socket # "freed" /\ Sai # sw.ka
      BY <1>3, AgentAssumption DEF AgentInv, MainInv, SwitchInv, TypeOK, SwitchInfo
    <3> QED
      BY <1>1, <2>1, <3>1, SendsInv DEF vars, switchVars
  <2>2. CASE UNCHANGED historyVars
    BY <1>1, <2>2
       DEF AgentInv, AgentTypeOK, SentInv, SocketOutlivesUsers, NothingAfterResetAck,
           vars, switchVars, historyVars
  <2> QED
    BY <2>1, <2>2 DEF NotifyBegins, NotifySends
<1>6. AgentTypeOK'
  BY <1>1, <1>2, <1>3, <1>5 DEF AgentInv, AgentTypeOK, SwitchInv
<1> QED
  BY <1>2, <1>4, <1>5, <1>6 DEF AgentInv

LEMMA NextAgentInv ==
  AgentInv /\ [AgentNext]_agentVars => AgentInv'
<1> SUFFICES ASSUME AgentInv, [AgentNext]_agentVars PROVE AgentInv'
  OBVIOUS
<1>1. CASE Main
  BY <1>1, AroundLoopInv, HandlerInv, SendReplyInv DEF Main
<1>2. CASE \E c \in Ctx : KeepaliveRuns(c)
  BY <1>2, KeepaliveRunsInv
<1>3. CASE NotifyBegins \/ NotifySends
  BY <1>3, NotifyInv
<1>4. CASE UNCHANGED agentVars
  <2>1. SwitchInv' /\ (Pristine' <=> Pristine)
    BY <1>4, StutterInv DEF AgentInv, agentVars, Pristine, vars, threadVars, switchVars
  <2> QED
    BY <1>4, <2>1
       DEF AgentInv, AgentTypeOK, SwitchInv, MainInv, SentInv, SocketOutlivesUsers,
           NothingAfterResetAck, agentVars, vars, switchVars, processVars, historyVars
<1> QED
  BY <1>1, <1>2, <1>3, <1>4 DEF AgentNext

LEMMA AgentInvariant ==
  AgentSpec => []AgentInv
BY InitAgentInv, NextAgentInv, PTL DEF AgentSpec
-----------------------------------------------------------------------------
(* The state of the process is typed, whatever the driver asks for and     *)
(* however the threads run (saiagent.c:157-195, saiagent_switch.c:85-252). *)
THEOREM AgentTypeCorrect ==
  AgentSpec => []AgentTypeOK
<1>1. AgentInv => AgentTypeOK
  BY DEF AgentInv
<1> QED
  BY <1>1, AgentInvariant, PTL

(* keepalive_ctx is live whenever a request may use it                     *)
(* (saiagent_switch.c:226, 238-248).                                       *)
THEOREM KeepaliveIsUsable ==
  AgentSpec => []KeepaliveUsable
<1>1. AgentInv => KeepaliveUsable
  BY DEF AgentInv, SwitchInv
<1> QED
  BY <1>1, AgentInvariant, PTL

(* No keepalive thread reads a freed context: a reset joins the thread     *)
(* before it frees (saiagent_switch.c:245, saiagent_thread.c:87-91).       *)
THEOREM KeepaliveIsMemorySafe ==
  AgentSpec => []KeepaliveMemorySafe
<1>1. AgentInv => KeepaliveMemorySafe
  BY DEF AgentInv, SwitchInv, MemInv
<1> QED
  BY <1>1, AgentInvariant, PTL

(* Once a switch was created, a reset that is acknowledged has stopped the *)
(* loop and joined the known keepalive thread, also where SWITCH_INIT      *)
(* failed or ended early (saiagent_switch.c:85, 230-252).                  *)
THEOREM AckedResetIsDone ==
  AgentSpec => []AcknowledgedResetIsDone
<1>1. AgentInv => AcknowledgedResetIsDone
  BY DEF AgentInv, SwitchInv
<1> QED
  BY <1>1, AgentInvariant, PTL

(* Only a keepalive thread made unreachable by a second KEEPALIVE_INIT can *)
(* send on the freed socket (saiagent.c:186-190, saiagent_ipc.c:378-381).  *)
THEOREM SocketIsFreedLast ==
  AgentSpec => []SocketOutlivesUsers
<1>1. AgentInv => SocketOutlivesUsers
  BY DEF AgentInv, SentInv
<1> QED
  BY <1>1, AgentInvariant, PTL

(* Neither a reply nor a pulse of the known keepalive thread follows the   *)
(* acknowledgement of the reset of a switch (saiagent_switch.c:234-251).   *)
THEOREM ResetAckIsLast ==
  AgentSpec => []NothingAfterResetAck
<1>1. AgentInv => NothingAfterResetAck
  BY DEF AgentInv, SentInv
<1> QED
  BY <1>1, AgentInvariant, PTL

(* The process ends without an open socket, and with the SAI down unless   *)
(* it never had a switch (saiagent.c:157-195).                             *)
THEOREM AgentExitsClean ==
  AgentSpec => []ExitIsClean
<1>1. AgentInv => ExitIsClean
  BY DEF AgentInv, MainInv, ExitIsClean
<1> QED
  BY <1>1, AgentInvariant, PTL

-----------------------------------------------------------------------------
(* SaiAgent takes the steps of its parts, so that what was proved of them  *)
(* holds in the whole process.                                             *)
TP == INSTANCE SaiThread_proofs

(* The steps of SaiThread that each step of the process may contain.       *)
LEMMA RequestStepsThreads ==
  ASSUME SwitchInv, Request
  PROVE  (\E c \in Ctx : T!Owner(c)) \/ UNCHANGED threadVars
<1>1. CASE SwitchInit
  BY <1>1 DEF SwitchInit, SwitchInitRefused, SwitchInitDone
<1>2. CASE AttrSet \/ \E cmd \in Cmd : Unsupported(cmd)
  BY <1>2 DEF AttrSet, Unsupported
<1>3. ASSUME NEW c \in Ctx, KeepaliveInit(c) PROVE T!Owner(c)
  <2>1. T!Create(c, "LOOP") \/ T!CreateFails(c)
    BY <1>3 DEF KeepaliveInit
  <2> QED
    BY <2>1 DEF T!Owner
<1>4. CASE ResetBegin
  <2>1. UNCHANGED threadVars \/ (sw.ka \in Ctx /\ T!Stop(sw.ka))
    BY <1>4 DEF ResetBegin, SwitchInv, TypeOK, SwitchInfo
  <2> QED
    BY <2>1 DEF T!Owner
<1> QED
  BY <1>1, <1>2, <1>3, <1>4 DEF Request

LEMMA ResetStepsThreads ==
  ASSUME SwitchInv, ResetGoesOn
  PROVE  (\E c \in Ctx : T!Owner(c)) \/ UNCHANGED threadVars
<1>1. hpc \in InReset /\ sw.ka \in Ctx
  BY DEF ResetGoesOn, ResetRemove, ResetDestroy, ResetFinish, InReset, SwitchInv,
     ResetInv, TypeOK, SwitchInfo
<1>2. UNCHANGED threadVars \/ T!BeginDestroy(sw.ka) \/ T!FinishDestroy(sw.ka)
  BY DEF ResetGoesOn, ResetRemove, ResetDestroy, ResetFinish
<1> QED
  BY <1>1, <1>2 DEF T!Owner

LEMMA AgentStepsThreads ==
  AgentInv /\ [AgentNext]_agentVars => [T!Next]_(T!vars)
<1> SUFFICES ASSUME AgentInv, [AgentNext]_agentVars
             PROVE  T!Next \/ UNCHANGED threadVars
  BY DEF threadVars, T!vars
<1>1. CASE Serve \/ HandlerGoesOn
  BY <1>1, RequestStepsThreads, ResetStepsThreads
     DEF Serve, HandlerGoesOn, AgentInv, T!Next
<1>2. CASE \E c \in Ctx : KeepaliveRuns(c)
  BY <1>2 DEF KeepaliveRuns, Keepalive, T!Next
<1>3. CASE \/ SaiStart \/ IpcStart \/ Handshake \/ SendReply \/ SaiStop \/ Deinit \/ Exit
           \/ NotifyBegins \/ NotifySends \/ UNCHANGED agentVars
  BY <1>3
     DEF SaiStart, IpcStart, Handshake, SendReply, SaiStop, Deinit, Exit, NotifyBegins,
         NotifySends, agentVars, vars
<1> QED
  BY <1>1, <1>2, <1>3 DEF AgentNext, Main

(* The same steps, as the module of the proofs about SaiThread names them. *)
LEMMA SameThreads ==
  /\ T!Init <=> TP!Init
  /\ T!Next <=> TP!Next
  /\ T!vars = TP!vars
<1>1. (T!Init <=> TP!Init) /\ T!vars = TP!vars
  BY DEF T!Init, TP!Init, T!vars, TP!vars
<1>2. ASSUME NEW c \in Ctx PROVE T!Owner(c) <=> TP!Owner(c)
  BY DEF T!Owner, TP!Owner, T!Create, TP!Create, T!CreateFails, TP!CreateFails, T!Stop,
     TP!Stop, T!BeginDestroy, TP!BeginDestroy, T!FinishDestroy, TP!FinishDestroy
<1>3. ASSUME NEW c \in Ctx PROVE T!Thread(c) <=> TP!Thread(c)
  BY DEF T!Thread, TP!Thread, T!StartLoop, TP!StartLoop, T!StartNormal, TP!StartNormal,
     T!Test, TP!Test, T!Call, TP!Call, T!Wake, TP!Wake
<1> QED
  BY <1>1, <1>2, <1>3 DEF T!Next, TP!Next

(* The keepalive threads and their owner behave as SaiThread says, however *)
(* requests, resets and notifications mix (saiagent_switch.c:211-252).     *)
THEOREM AgentRunsThreads ==
  AgentSpec => T!SafeSpec
<1>1. AgentInit => T!Init
  BY DEF AgentInit, Init
<1> QED
  BY <1>1, AgentStepsThreads, AgentInvariant, PTL DEF AgentSpec, T!SafeSpec

LEMMA AgentRunsProvedThreads ==
  AgentSpec => TP!SafeSpec
<1>1. AgentInit => TP!Init
  BY SameThreads DEF AgentInit, Init
<1>2. AgentInv /\ [AgentNext]_agentVars => [TP!Next]_(TP!vars)
  BY AgentStepsThreads, SameThreads DEF T!vars, TP!vars
<1> QED
  BY <1>1, <1>2, AgentInvariant, PTL DEF AgentSpec, TP!SafeSpec

LEMMA ThreadAssumption == TP!NoneAssumption
BY SwitchAssumption DEF TP!NoneAssumption

(* A keepalive thread misses the stop of a reset by one pulse at most,     *)
(* although the reset, the thread and the notifications interleave         *)
(* (saiagent_switch.c:238-245, saiagent_thread.c:25-28).                   *)
THEOREM OneLatePulseOnly ==
  AgentSpec => []OneLatePulse
<1>1. AgentSpec => []TP!AtMostOneLateCall
  BY AgentRunsProvedThreads, ThreadAssumption, TP!MissedOnce, PTL
<1>2. TP!AtMostOneLateCall => OneLatePulse
  BY DEF TP!AtMostOneLateCall, OneLatePulse, T!AtMostOneLateCall
<1> QED
  BY <1>1, <1>2, PTL

(* Every keepalive thread lives the life of a worker, also one that a      *)
(* second KEEPALIVE_INIT made unreachable (saiagent_switch.c:211-252).     *)
THEOREM KeepalivesLiveAsWorkers ==
  AgentSpec => KeepalivesAreWorkers
<1> DEFINE life == [c \in Ctx |-> T!Life(c)]
           lifeTP == [c \in Ctx |-> TP!Life(c)]
<1>1. AgentSpec => TP!ImplementsWorker
  BY AgentRunsProvedThreads, ThreadAssumption, TP!LivesAsWorker, PTL
<1>2. life = lifeTP
  BY DEF T!Life, TP!Life
<1>3. TP!W!Init => T!W!Init
  BY <1>2 DEF TP!W!Init, T!W!Init
<1>4. [TP!W!Next]_lifeTP => [T!W!Next]_life
  <2>1. life' = lifeTP'
    BY DEF T!Life, TP!Life
  <2> QED
    BY <1>2, <2>1 
       DEF TP!W!Next, T!W!Next, TP!W!Spawn, T!W!Spawn, TP!W!Refuse, T!W!Refuse,
           TP!W!Finish, T!W!Finish, TP!W!Reap, T!W!Reap, TP!W!Move, T!W!Move
<1> QED
  BY <1>1, <1>3, <1>4, PTL DEF TP!ImplementsWorker, KeepalivesAreWorkers,
     T!ImplementsWorker, TP!W!Spec, T!W!Spec

(* The thread a reset hangs on never ends its loop: nobody is left to lower *)
(* the flag again (saiagent_thread.c:24-28, 77-81, saiagent_switch.c:245). *)
LEMMA HangStays ==
  ASSUME AgentInv, TP!FlagInv, Hung, [AgentNext]_agentVars PROVE Hung'
<1>1. hpc = "join" /\ running[sw.ka] /\ sw.ka \in Ctx /\ T!TypeOK
  BY DEF Hung, AgentInv, SwitchInv, TypeOK, SwitchInfo, ResetInv, InReset
<1>2. tpc[sw.ka] \in T!InLoop
  BY <1>1 DEF TP!FlagInv, TP!InLoop, T!InLoop
<1>3. CASE HandlerGoesOn
  BY <1>1, <1>2, <1>3
     DEF HandlerGoesOn, ResetGoesOn, ResetRemove, ResetDestroy, ResetFinish,
         T!FinishDestroy, T!InLoop
<1>4. ASSUME NEW c \in Ctx, KeepaliveRuns(c) PROVE Hung'
  <2>1. UNCHANGED switchVars /\ T!Thread(c)
    BY <1>4 DEF KeepaliveRuns, Keepalive
  <2>2. running'[sw.ka]
    BY <1>1, <2>1
       DEF T!Thread, T!StartLoop, T!StartNormal, T!Test, T!Call, T!Wake, T!TypeOK
  <2> QED
    BY <1>1, <2>1, <2>2 DEF Hung, switchVars
<1>5. CASE Serve
  BY <1>1, <1>5
     DEF Serve, Request, SwitchInit, SwitchInitRefused, SwitchInitDone, AttrSet,
         Unsupported, KeepaliveInit, ResetBegin, Dispatch
<1>6. CASE \/ SaiStart \/ IpcStart \/ Handshake \/ SendReply \/ SaiStop \/ Deinit \/ Exit
           \/ NotifyBegins \/ NotifySends \/ UNCHANGED agentVars
  <2>1. UNCHANGED vars
    BY <1>6
       DEF SaiStart, IpcStart, Handshake, SendReply, SaiStop, Deinit, Exit, NotifyBegins,
           NotifySends, agentVars
  <2> QED
    BY <1>1, <2>1 DEF Hung, vars, threadVars, switchVars
<1> QED
  BY <1>3, <1>4, <1>5, <1>6 DEF AgentNext, Main

(* A reset that hangs hangs for ever, whatever the other threads do        *)
(* (saiagent_thread.c:24, 80-81).                                          *)
THEOREM HangStaysForever ==
  AgentSpec => HangIsFinal
<1>1. AgentSpec => []TP!FlagInv
  BY AgentRunsProvedThreads, ThreadAssumption, TP!FlagUpInLoop, PTL
<1>2. AgentInv /\ TP!FlagInv /\ [AgentNext]_agentVars => [Hung => Hung']_vars
  BY HangStays
<1> QED
  BY <1>1, <1>2, AgentInvariant, PTL DEF AgentSpec, HangIsFinal
-----------------------------------------------------------------------------
(* main calls the handlers only as SaiSwitch says: whatever holds of every *)
(* behaviour of the switch component holds in the process (saiagent_ipc.c: *)
(* 341-370).                                                               *)
THEOREM AgentRunsSwitch ==
  AgentSpec => Init /\ [][Next]_vars
<1>1. AgentInit => Init
  BY DEF AgentInit
<1>2. [AgentNext]_agentVars => [Next]_vars
  <2> SUFFICES ASSUME [AgentNext]_agentVars PROVE Next \/ UNCHANGED vars
    OBVIOUS
  <2>1. CASE Main
    BY <2>1
       DEF Main, SaiStart, IpcStart, Handshake, Serve, HandlerGoesOn, SendReply, SaiStop,
           Deinit, Exit, Next
  <2>2. CASE \E c \in Ctx : KeepaliveRuns(c)
    BY <2>2 DEF KeepaliveRuns, Next
  <2>3. CASE NotifyBegins \/ NotifySends \/ UNCHANGED agentVars
    BY <2>3 DEF NotifyBegins, NotifySends, agentVars
  <2> QED
    BY <2>1, <2>2, <2>3 DEF AgentNext
<1> QED
  BY <1>1, <1>2, PTL DEF AgentSpec

(* keepalive_ctx is set once and for all, and from then on no request      *)
(* makes SWITCH_RESET use a null pointer (saiagent_switch.c:221-226, 238). *)
THEOREM KeepaliveInitIsEnough ==
  AgentSpec => KeepaliveInitSuffices
<1>1. AgentInv /\ [AgentNext]_agentVars
        => [sw.ka # None => sw'.ka # None /\ (hpc' = "crashed" => hpc = "crashed")]_vars
  <2> SUFFICES ASSUME AgentInv, AgentNext, sw.ka # None
               PROVE  (sw'.ka # None /\ (hpc' = "crashed" => hpc = "crashed")) \/ UNCHANGED vars
    BY DEF agentVars
  <2>1. CASE Serve
    <3>1. CASE SwitchInit
      <4>1. PICK o \in Outcome : SaiSwitchInit(o) /\ UNCHANGED hpc
        BY <3>1 DEF SwitchInit, SwitchInitRefused, SwitchInitDone
      <4> QED
        BY <4>1, SwitchCreated DEF AgentInv, SwitchInv
    <3>2. CASE (\E cmd \in Cmd : Unsupported(cmd)) \/ AttrSet
      BY <3>2 DEF Unsupported, AttrSet
    <3>3. ASSUME NEW c \in Ctx, KeepaliveInit(c)
          PROVE  sw'.ka # None /\ UNCHANGED hpc
      BY <3>3, SwitchAssumption DEF KeepaliveInit, AgentInv, SwitchInv, TypeOK, SwitchInfo
    <3>4. CASE ResetBegin
      BY <3>4 DEF ResetBegin
    <3> QED
      BY <2>1, <3>1, <3>2, <3>3, <3>4 DEF Serve, Request
  <2>2. CASE HandlerGoesOn
    BY <2>2 DEF HandlerGoesOn, ResetGoesOn, ResetRemove, ResetDestroy, ResetFinish
  <2>3. CASE \E c \in Ctx : KeepaliveRuns(c)
    BY <2>3 DEF KeepaliveRuns, Keepalive, switchVars
  <2>4. CASE \/ SaiStart \/ IpcStart \/ Handshake \/ SendReply \/ SaiStop \/ Deinit \/ Exit
             \/ NotifyBegins \/ NotifySends
    BY <2>4
       DEF SaiStart, IpcStart, Handshake, SendReply, SaiStop, Deinit, Exit, NotifyBegins,
           NotifySends
  <2> QED
    BY <2>1, <2>2, <2>3, <2>4 DEF AgentNext, Main
<1> QED
  BY <1>1, AgentInvariant, PTL DEF AgentSpec, KeepaliveInitSuffices

\* A request or a reset that goes on leaves a thread it cannot reach alone.
LEMMA LostIsLeftAlone ==
  ASSUME SwitchInv, Request \/ ResetGoesOn, NEW c \in Ctx, Lost(c)
  PROVE  Lost(c)' /\ (running[c] => running'[c])
<1>1. T!TypeOK /\ mem[c] = "live" /\ c # sw.ka
  BY DEF Lost, SwitchInv, TypeOK
<1>2. CASE SwitchInit
  <2>1. PICK o \in Outcome : SaiSwitchInit(o) /\ UNCHANGED threadVars
    BY <1>2 DEF SwitchInit, SwitchInitRefused, SwitchInitDone
  <2>2. sw'.ka = sw.ka
    BY <2>1, SwitchCreated DEF SwitchInv
  <2> QED
    BY <1>1, <2>1, <2>2 DEF Lost, threadVars
<1>3. CASE AttrSet \/ \E cmd \in Cmd : Unsupported(cmd)
  BY <1>1, <1>3 DEF AttrSet, Unsupported, Lost, threadVars
<1>4. ASSUME NEW d \in Ctx, KeepaliveInit(d) PROVE Lost(c)' /\ UNCHANGED running[c]
  <2>1. mem[d] = "unused" /\ d # c
    BY <1>1, <1>4 DEF KeepaliveInit, T!Create, T!CreateFails
  <2>2. mem'[c] = mem[c] /\ running'[c] = running[c]
    BY <1>1, <1>4, <2>1 DEF KeepaliveInit, T!Create, T!CreateFails, T!TypeOK
  <2>3. sw'.ka = sw.ka \/ sw'.ka = d
    BY <1>4 DEF KeepaliveInit, SwitchInv, TypeOK, SwitchInfo
  <2> QED
    BY <1>1, <2>1, <2>2, <2>3 DEF Lost
<1>5. CASE ResetBegin \/ ResetGoesOn
  <2>1. /\ UNCHANGED sw
        /\ \/ UNCHANGED threadVars
           \/ T!Stop(sw.ka) \/ T!BeginDestroy(sw.ka) \/ T!FinishDestroy(sw.ka)
    BY <1>5 DEF ResetBegin, ResetGoesOn, ResetRemove, ResetDestroy, ResetFinish
  <2>2. mem'[c] = mem[c] /\ running'[c] = running[c]
    BY <1>1, <2>1 DEF threadVars, T!Stop, T!BeginDestroy, T!FinishDestroy, T!TypeOK
  <2> QED
    BY <1>1, <2>1, <2>2 DEF Lost
<1> QED
  BY <1>2, <1>3, <1>4, <1>5 DEF Request

(* A keepalive thread that a second KEEPALIVE_INIT made unreachable is     *)
(* never stopped or released, by no request, reset or shutdown             *)
(* (saiagent_switch.c:226, 238-245).                                       *)
THEOREM LostThreadRunsOn ==
  AgentSpec => LostRunsOn
<1> DEFINE Kept == \A c \in Ctx : Lost(c) => Lost(c)' /\ (running[c] => running'[c])
<1>1. AgentInv /\ [AgentNext]_agentVars => [Kept]_vars
  <2> SUFFICES ASSUME AgentInv, [AgentNext]_agentVars, NEW c \in Ctx, Lost(c)
               PROVE  (Lost(c)' /\ (running[c] => running'[c])) \/ UNCHANGED vars
    OBVIOUS
  <2>1. CASE Serve \/ HandlerGoesOn
    BY <2>1, LostIsLeftAlone DEF Serve, HandlerGoesOn, AgentInv
  <2>2. ASSUME NEW d \in Ctx, KeepaliveRuns(d) PROVE Lost(c)' /\ (running[c] => running'[c])
    <3>1. T!Thread(d) /\ UNCHANGED switchVars
      BY <2>2 DEF KeepaliveRuns, Keepalive
    <3>2. UNCHANGED mem
      BY <3>1, ThreadStep DEF AgentInv, SwitchInv, TypeOK
    <3>3. running[c] => running'[c]
      BY <3>1
         DEF T!Thread, T!StartLoop, T!StartNormal, T!Test, T!Call, T!Wake, T!TypeOK,
             AgentInv, SwitchInv, TypeOK
    <3> QED
      BY <3>1, <3>2, <3>3 DEF Lost, switchVars
  <2>3. CASE \/ SaiStart \/ IpcStart \/ Handshake \/ SendReply \/ SaiStop \/ Deinit \/ Exit
             \/ NotifyBegins \/ NotifySends \/ UNCHANGED agentVars
    BY <2>3
       DEF SaiStart, IpcStart, Handshake, SendReply, SaiStop, Deinit, Exit, NotifyBegins,
           NotifySends, agentVars
  <2> QED
    BY <2>1, <2>2, <2>3 DEF AgentNext, Main
<1>2. AgentSpec => [][Kept]_vars
  BY <1>1, AgentInvariant, PTL DEF AgentSpec
<1> QED
  BY <1>2 DEF LostRunsOn
=============================================================================
