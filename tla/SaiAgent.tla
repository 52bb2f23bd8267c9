------------------------------ MODULE SaiAgent ------------------------------
(***************************************************************************)
(* The whole process: main of src/src/saiagent.c starts the SAI and the    *)
(* IPC, serves requests with the handlers and keepalive threads of         *)
(* SaiSwitch, and shuts down.  Three kinds of threads share the netlink    *)
(* socket: main replies on it, keepalive threads and the SAI's             *)
(* notification thread send events on it, and main frees it in the end.    *)
(* How requests reach main is in SaiIpc; here any request may be next.     *)
(***************************************************************************)
EXTENDS SaiSwitch, Naturals

CONSTANTS MaxEvents,   \* bound: port states in one notification
          Sai          \* the SAI's notification thread

ASSUME AgentAssumption ==
  /\ MaxEvents \in Nat
  /\ Sai \notin Ctx \cup {None, "reply"} /\ "reply" \notin Ctx \cup {None}

VARIABLES
  main,      \* where main is
  api,       \* the SAI is initialised
  socket,    \* ctx.nl.sock: "none" (NULL), "open" or "freed"
  notify,    \* port states the notification thread has still to report
  acked,     \* history: the reset of a switch was acknowledged
  after,     \* history: who sent something to the driver after that
  misused    \* history: threads that sent on the freed socket

processVars == <<main, api, socket, notify>>
historyVars == <<acked, after, misused>>
agentVars == <<vars, processVars, historyVars>>

StartUp == {"start", "ipc", "hello"}
ShutDown == {"uninit", "deinit", "exiting", "gone"}

AgentTypeOK ==
  /\ TypeOK
  /\ main \in StartUp \cup {"recv", "send"} \cup ShutDown
  /\ api \in BOOLEAN
  /\ socket \in {"none", "open", "freed"}
  /\ notify \in 0..MaxEvents
  /\ acked \in BOOLEAN
  /\ after \subseteq Ctx \cup {Sai, "reply"}
  /\ misused \subseteq Ctx \cup {Sai}

\* The command line is accepted, see SaiProfile.
AgentInit ==
  /\ Init
  /\ main = "start" /\ api = FALSE /\ socket = "none" /\ notify = 0
  /\ acked = FALSE /\ after = {} /\ misused = {}
-----------------------------------------------------------------------------
(* main, up to the loop.                                                   *)

\* sai_api_initialize, then sai_log_set; main returns if one fails.
SaiStart ==
  /\ main = "start"
  /\ \/ main' = "ipc" /\ api' = TRUE
     \/ main' = "gone" /\ api' \in BOOLEAN
  /\ UNCHANGED <<vars, socket, notify, historyVars>>

MutIpcStart ==              \* mutant: a socket that is not ready is kept
  /\ main = "ipc"
  /\ \/ main' = "hello" /\ socket' = "open"
     \/ main' = "gone" /\ socket' \in {"none", "open"}
  /\ UNCHANGED <<vars, api, notify, historyVars>>

\* saiagent_ipc_init keeps the socket only if every step succeeded.
IpcStart ==
  /\ main = "ipc"
  /\ \/ main' = "hello" /\ socket' = "open"
     \/ main' = "deinit" /\ socket' = "none"
  /\ UNCHANGED <<vars, api, notify, historyVars>>

\* saiagent_ipc_drv_init
Handshake ==
  /\ main = "hello"
  /\ main' \in {"recv", "deinit"}
  /\ UNCHANGED <<vars, api, socket, notify, historyVars>>
-----------------------------------------------------------------------------
(* The loop.                                                               *)
Serve ==
  /\ main = "recv"
  /\ Request
  /\ main' = "send"
  /\ UNCHANGED <<api, socket, notify, historyVars>>

MutHandlerGoesOn ==         \* mutant: a reset is acknowledged before it is done
  /\ main = "send"
  /\ ResetGoesOn
  /\ acked' = TRUE
  /\ UNCHANGED <<processVars, after, misused>>

HandlerGoesOn ==
  /\ main = "send"
  /\ ResetGoesOn
  /\ UNCHANGED <<processVars, historyVars>>

\* A message of s arrives at the driver, is lost, or meets a freed socket.
Sends(s) ==
  IF socket = "freed"
  THEN misused' = misused \cup {s} /\ UNCHANGED after
  ELSE /\ after' \in {after, IF acked THEN after \cup {s} ELSE after}
       /\ UNCHANGED misused

SendReply ==
  /\ main = "send" /\ hpc = "idle"
  /\ Sends("reply")
  /\ acked' = (acked \/ (last = "SWITCH_RESET" /\ reply = "ACK" /\ sw.oid))
  /\ main' = IF loop THEN "recv" ELSE "uninit"
  /\ UNCHANGED <<vars, api, socket, notify>>
-----------------------------------------------------------------------------
(* main, after the loop.                                                   *)

MutSaiStop ==               \* mutant: the socket is freed before the SAI is stopped
  /\ main = "uninit"
  /\ IF socket = "open"
     THEN socket' = "freed" /\ UNCHANGED <<main, api>>
     ELSE notify = 0 /\ main' = "deinit" /\ api' = FALSE /\ UNCHANGED socket
  /\ UNCHANGED <<vars, notify, historyVars>>

\* sai_api_uninitialize returns when no callback runs any more.
SaiStop ==
  /\ main = "uninit" /\ notify = 0
  /\ main' = "deinit" /\ api' = FALSE
  /\ UNCHANGED <<vars, socket, notify, historyVars>>

\* nl_socket_free, which accepts NULL.
Deinit ==
  /\ main = "deinit"
  /\ main' = "exiting"
  /\ socket' = IF socket = "open" THEN "freed" ELSE socket
  /\ UNCHANGED <<vars, api, notify, historyVars>>

\* main returns, and every thread is gone.
Exit ==
  /\ main = "exiting"
  /\ main' = "gone"
  /\ UNCHANGED <<vars, api, socket, notify, historyVars>>
-----------------------------------------------------------------------------
(* The other threads.                                                      *)
Alive == main # "gone" /\ hpc # "crashed"

\* keepalive_routine sends a pulse.
KeepaliveRuns(c) ==
  /\ Alive
  /\ Keepalive(c)
  /\ IF tpc[c] = "call" THEN Sends(c) ELSE UNCHANGED <<after, misused>>
  /\ UNCHANGED <<processVars, acked>>

\* The SAI calls the agent once sai_switch_init has set its callback.
NotifyBegins ==
  /\ Alive /\ main # "uninit"
  /\ api /\ sai = "up" /\ sw.callback
  /\ notify = 0 /\ notify' \in 1..MaxEvents
  /\ UNCHANGED <<vars, main, api, socket, historyVars>>

MutNotifySends ==           \* mutant: the callback waits for the main thread
  /\ Alive /\ main = "recv"
  /\ notify > 0 /\ notify' = notify - 1
  /\ Sends(Sai)
  /\ UNCHANGED <<vars, main, api, socket, acked>>

NotifySends ==
  /\ Alive
  /\ notify > 0 /\ notify' = notify - 1
  /\ Sends(Sai)
  /\ UNCHANGED <<vars, main, api, socket, acked>>

Main ==
  \/ SaiStart \/ IpcStart \/ Handshake
  \/ Serve \/ HandlerGoesOn \/ SendReply
  \/ SaiStop \/ Deinit \/ Exit

AgentNext ==
  \/ Main
  \/ \E c \in Ctx : KeepaliveRuns(c)
  \/ NotifyBegins \/ NotifySends

\* Every thread is scheduled; main may wait for the driver, in Handshake and
\* Serve, for ever.
AgentFairness ==
  /\ WF_agentVars(HandlerGoesOn \/ SendReply \/ SaiStop \/ Deinit \/ Exit)
  /\ \A c \in Ctx : WF_agentVars(KeepaliveRuns(c))
  /\ WF_agentVars(NotifySends)

AgentSpec == AgentInit /\ [][AgentNext]_agentVars /\ AgentFairness
-----------------------------------------------------------------------------
(* The socket outlives its users: neither the SAI's thread nor the         *)
(* keepalive thread the agent knows sends on it after saiagent_ipc_deinit  *)
(* (saiagent.c:186-190).  Only a thread that a second KEEPALIVE_INIT made  *)
(* unreachable (saiagent_switch.c:226) can.                                *)
SocketOutlivesUsers == misused \subseteq Ctx \ {sw.ka}

(* The acknowledgement of the reset of a switch is the last reply, and no  *)
(* pulse of the known keepalive thread follows it, although both threads   *)
(* send on the socket without a lock (saiagent_switch.c:234-251).          *)
NothingAfterResetAck == after \cap {"reply", sw.ka} = {}

(* The process never ends with an open socket, or with the SAI initialised *)
(* once it had created a switch, whichever step of the start-up failed     *)
(* (saiagent.c:157-193).                                                   *)
ExitIsClean == main = "gone" => socket # "open" /\ (api => sai = "down")

(* After the acknowledgement of the reset of a switch the process ends,    *)
(* whatever the keepalive threads and the notifications do                 *)
(* (saiagent_switch.c:248, saiagent.c:186-194).                            *)
AckedResetEndsProcess == acked ~> main = "gone"

(* A reset that stops a thread which had already raised its flag ends the  *)
(* process (saiagent_switch.c:238-248, saiagent_thread.c:25-28).           *)
StartedResetEndsProcess ==
  (hpc = "remove" /\ tpc[sw.ka] # "start") ~> main = "gone"
=============================================================================
