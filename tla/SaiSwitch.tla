----------------------------- MODULE SaiSwitch -----------------------------
(***************************************************************************)
(* The switch component, src/src/saiagent_switch.c, composed with the      *)
(* keepalive threads of SaiThread.  The IPC thread runs one handler at a   *)
(* time; SWITCH_RESET takes several steps, between which the keepalive     *)
(* threads run.                                                            *)
(***************************************************************************)
CONSTANTS Ctx,       \* thread contexts, so a bound on KEEPALIVE_INIT requests
          None,      \* the null pointer
          Garbage    \* return codes an uninitialised status may hold

ASSUME SwitchAssumption == None \notin Ctx \cup {"ACK"} /\ Garbage \subseteq {"OK", "ERR"}

VARIABLES
  mem, kind, running, tpc, joining, late,    \* the threads, see SaiThread
  cb,        \* commands (or components) with a handler in ctx.ipc_cb_list
  sw,        \* sw_info: switch_oid set, attributes known, keepalive_ctx; and
             \* whether the SAI has the agent's notification callback
  sai,       \* the switch in the SAI: "down", "up" or "removed"
  cached,    \* the default VLAN is in the VLAN cache
  loop,      \* ctx.running of the IPC loop
  hpc,       \* where the handler is, "idle" between two requests
  last,      \* the command of the last request
  reply      \* its reply: "ACK", "FAILED", "INFO" (switch_init_resp) or None

threadVars == <<mem, kind, running, tpc, joining, late>>
switchVars == <<cb, sw, sai, cached, loop, hpc, last, reply>>
vars == <<threadVars, switchVars>>

T == INSTANCE SaiThread

OwnCmd == {"SWITCH_RESET", "SWITCH_ATTR_SET", "KEEPALIVE_INIT"}
Component == {"PORT", "FDB", "VLAN", "ROUTER"}
Cmd == {"SWITCH_INIT"} \cup OwnCmd \cup Component

SwitchInfo ==
  [oid : BOOLEAN, known : BOOLEAN, callback : BOOLEAN, ka : Ctx \cup {None}]

TypeOK ==
  /\ T!TypeOK
  /\ cb \subseteq Cmd
  /\ sw \in SwitchInfo
  /\ sai \in {"down", "up", "removed"}
  /\ cached \in BOOLEAN /\ loop \in BOOLEAN
  /\ hpc \in {"idle", "remove", "destroy", "join", "crashed"}
  /\ last \in Cmd \cup {None}
  /\ reply \in {"ACK", "FAILED", "INFO", None}

\* main has called saiagent_switch_ipc_init and entered the loop.
Init ==
  /\ T!Init
  /\ cb = {"SWITCH_INIT"}
  /\ sw = [oid |-> FALSE, known |-> FALSE, callback |-> FALSE, ka |-> None]
  /\ sai = "down"
  /\ cached = FALSE /\ loop = TRUE
  /\ hpc = "idle" /\ last = None /\ reply = None
-----------------------------------------------------------------------------
(* One request is taken from the loop.                                     *)
Dispatch(cmd) ==
  /\ hpc = "idle" /\ loop
  /\ last' = cmd

\* No handler: NOT_SUPP, which put_reply_ack turns into ACK_FAILED.
Unsupported(cmd) ==
  /\ Dispatch(cmd)
  /\ cmd \notin cb
  /\ reply' = "FAILED"
  /\ UNCHANGED <<threadVars, cb, sw, sai, cached, loop, hpc>>

(* How far sai_switch_init comes (to nothing, to a switch, to its          *)
(* attributes, to the callback) and what it returns.  SAI_RET_ERR makes a  *)
(* call that failed again and returns the second result: a query or an     *)
(* attribute read that fails only once ends the function with SUCCESS.     *)
Outcome == [far : {"nothing", "switch", "known", "all"}, rc : {"OK", "ERR"}]
             \ {[far |-> "all", rc |-> "ERR"]}

MutSaiSwitchInit(o) ==      \* mutant: switch_oid is stored with the attributes
  /\ sai = "up" => o.far = "nothing"
  /\ sai' = IF o.far = "nothing" THEN sai ELSE "up"
  /\ sw' = [sw EXCEPT !.oid = @ \/ o.far \in {"known", "all"},
                      !.known = @ \/ o.far \in {"known", "all"},
                      !.callback = @ \/ o.far = "all"]

\* The SAI has one switch: it refuses a second create_switch, whose status
\* is not read twice.
SaiSwitchInit(o) ==
  /\ sai = "up" => o.far = "nothing"
  /\ sai' = IF o.far = "nothing" THEN sai ELSE "up"
  /\ sw' = [sw EXCEPT !.oid = @ \/ o.far # "nothing",
                      !.known = @ \/ o.far \in {"known", "all"},
                      !.callback = @ \/ o.far = "all"]

\* saiagent_switch_init registers its handlers after a SUCCESS, over
\* whatever sai_switch_init has reached.
SwitchHandlers(o) == IF o.rc = "OK" THEN OwnCmd ELSE {}

\* The status saiagent_switch_init returns was never initialised: here not OK.
SwitchInitRefused(o) ==
  /\ Dispatch("SWITCH_INIT")
  /\ SaiSwitchInit(o)
  /\ "ERR" \in Garbage
  /\ cb' = cb \cup SwitchHandlers(o)
  /\ reply' = "FAILED"
  /\ UNCHANGED <<threadVars, cached, loop, hpc>>

(* saiagent_vlan_init fails, caches the default VLAN, which must be known, *)
(* or returns early: a query or get_vlan_attribute that fails only once is *)
(* a SUCCESS of sai_vlan_default_init, see SAI_RET_ERR.                    *)
VlanInit(v) ==
  /\ v = "cached" => sw'.known
  /\ cached' = (cached \/ v = "cached")

\* saiagent_vlan_init registers its handlers after a SUCCESS.
VlanHandlers(v) == IF v = "failed" THEN {} ELSE {"VLAN"}

(* The status was OK by chance or by merit: the components are initialised *)
(* and only the status of the last one, never initialised either, counts.  *)
SwitchInitDone(o, v, rc) ==
  /\ Dispatch("SWITCH_INIT")
  /\ SaiSwitchInit(o)
  /\ "OK" \in Garbage
  /\ VlanInit(v)
  /\ cb' = cb \cup SwitchHandlers(o) \cup {"PORT", "FDB", "ROUTER"}
              \cup VlanHandlers(v)
  /\ reply' = IF rc = "OK" THEN "INFO" ELSE "FAILED"
  /\ UNCHANGED <<threadVars, loop, hpc>>

MutAttrSet ==               \* mutant: the return code is sent as it is
  /\ Dispatch("SWITCH_ATTR_SET")
  /\ "SWITCH_ATTR_SET" \in cb
  /\ reply' = "OK"
  /\ UNCHANGED <<threadVars, cb, sw, sai, cached, loop, hpc>>

\* Every attribute is logged and acknowledged.
AttrSet ==
  /\ Dispatch("SWITCH_ATTR_SET")
  /\ "SWITCH_ATTR_SET" \in cb
  /\ reply' = "ACK"
  /\ UNCHANGED <<threadVars, cb, sw, sai, cached, loop, hpc>>

MutKeepaliveInit(c) ==      \* mutant: keepalive_ctx takes the result unchecked
  /\ Dispatch("KEEPALIVE_INIT")
  /\ "KEEPALIVE_INIT" \in cb
  /\ \/ /\ T!Create(c, "LOOP")
        /\ sw' = [sw EXCEPT !.ka = c]
        /\ reply' = "ACK"
     \/ /\ T!CreateFails(c)
        /\ sw' = [sw EXCEPT !.ka = None]
        /\ reply' = "FAILED"
  /\ UNCHANGED <<cb, sai, cached, loop, hpc>>

\* The new context replaces keepalive_ctx, whatever was there.
KeepaliveInit(c) ==
  /\ Dispatch("KEEPALIVE_INIT")
  /\ "KEEPALIVE_INIT" \in cb
  /\ \/ /\ T!Create(c, "LOOP")
        /\ sw' = [sw EXCEPT !.ka = c]
        /\ reply' = "ACK"
     \/ /\ T!CreateFails(c)
        /\ UNCHANGED sw
        /\ reply' = "FAILED"
  /\ UNCHANGED <<cb, sai, cached, loop, hpc>>
-----------------------------------------------------------------------------
(* SWITCH_RESET, up to the next access that another thread can see.        *)

\* Without a switch the handler only acknowledges, and the loop goes on;
\* without a keepalive thread it is saiagent_thread_stop(NULL).
ResetBegin ==
  /\ Dispatch("SWITCH_RESET")
  /\ "SWITCH_RESET" \in cb
  /\ IF ~sw.oid
     THEN hpc' = "idle" /\ reply' = "ACK" /\ UNCHANGED threadVars
     ELSE /\ reply' = None
          /\ IF sw.ka = None THEN hpc' = "crashed" /\ UNCHANGED threadVars
                             ELSE hpc' = "remove" /\ T!Stop(sw.ka)
  /\ UNCHANGED <<cb, sw, sai, cached, loop>>

\* The status of remove_switch is ignored.
ResetRemove ==
  /\ hpc = "remove"
  /\ sai' \in {sai, "removed"}
  /\ hpc' = "destroy"
  /\ UNCHANGED <<threadVars, cb, sw, cached, loop, last, reply>>

ResetDestroy ==
  /\ hpc = "destroy"
  /\ T!BeginDestroy(sw.ka)
  /\ hpc' = "join"
  /\ UNCHANGED <<cb, sw, sai, cached, loop, last, reply>>

MutResetFinish ==           \* mutant: the loop goes on after a reset
  /\ hpc = "join"
  /\ T!FinishDestroy(sw.ka)
  /\ hpc' = "idle" /\ reply' = "ACK"
  /\ UNCHANGED <<cb, sw, sai, cached, loop, last>>

MutResetFreesAll ==         \* mutant: every context is freed, one thread joined
  /\ hpc = "join"
  /\ tpc[sw.ka] = "done"
  /\ joining' = None
  /\ mem' = [c \in Ctx |-> IF mem[c] = "live" THEN "freed" ELSE mem[c]]
  /\ loop' = FALSE
  /\ hpc' = "idle" /\ reply' = "ACK"
  /\ UNCHANGED <<kind, running, tpc, late, cb, sw, sai, cached, last>>

MutResetDetach ==           \* mutant: the thread is not joined
  /\ hpc = "join"
  /\ joining' = None
  /\ mem' = [mem EXCEPT ![sw.ka] = "freed"]
  /\ loop' = FALSE
  /\ hpc' = "idle" /\ reply' = "ACK"
  /\ UNCHANGED <<kind, running, tpc, late, cb, sw, sai, cached, last>>

\* keepalive_ctx keeps the address of the freed context.
ResetFinish ==
  /\ hpc = "join"
  /\ T!FinishDestroy(sw.ka)
  /\ loop' = FALSE
  /\ hpc' = "idle" /\ reply' = "ACK"
  /\ UNCHANGED <<cb, sw, sai, cached, last>>

MutKeepalive(c) ==          \* mutant: the pulse waits for a lock of the handlers
  /\ hpc = "idle"
  /\ T!Thread(c)
  /\ UNCHANGED switchVars

Keepalive(c) ==
  /\ hpc # "crashed"
  /\ T!Thread(c)
  /\ UNCHANGED switchVars

SwitchInit ==
  \E o \in Outcome :
    \/ SwitchInitRefused(o)
    \/ \E v \in {"failed", "early", "cached"}, rc \in Garbage : SwitchInitDone(o, v, rc)

Request ==
  \/ \E cmd \in Cmd : Unsupported(cmd)
  \/ SwitchInit
  \/ AttrSet
  \/ \E c \in Ctx : KeepaliveInit(c)
  \/ ResetBegin

ResetGoesOn == ResetRemove \/ ResetDestroy \/ ResetFinish

Next == Request \/ ResetGoesOn \/ \E c \in Ctx : Keepalive(c)

\* The kernel runs every thread; the SAI calls return.
Fairness == WF_vars(ResetGoesOn) /\ \A c \in Ctx : WF_vars(Keepalive(c))

Spec == Init /\ [][Next]_vars /\ Fairness
-----------------------------------------------------------------------------
(* keepalive_ctx points to a live context whenever a request may use it:   *)
(* only a reset frees the context (saiagent_switch.c:245), and the loop is *)
(* over then (248).                                                        *)
KeepaliveUsable ==
  loop /\ sw.ka # None /\ hpc # "crashed" => mem[sw.ka] = "live"

(* Also when a reset runs in between, no keepalive thread reads a freed    *)
(* context (saiagent_switch.c:238-245).                                    *)
KeepaliveMemorySafe == T!NoUseAfterFree

(* Once a switch was created, by a SWITCH_INIT that ended wherever, a      *)
(* SWITCH_RESET is acknowledged only after the loop was stopped and the    *)
(* known keepalive thread joined: switch_oid is set by create_switch       *)
(* itself, so `if (sw_info.switch_oid)` (saiagent_switch.c:85, 234) skips  *)
(* nothing.  Without a switch the acknowledged reset did nothing at all.   *)
AcknowledgedResetIsDone ==
  last = "SWITCH_RESET" /\ reply = "ACK" =>
    \/ sai = "down"
    \/ ~loop /\ sw.ka # None /\ tpc[sw.ka] = "done" /\ mem[sw.ka] = "freed"

(* A keepalive thread that a second KEEPALIVE_INIT made unreachable        *)
(* (saiagent_switch.c:226) is out of every handler's reach: none stops it  *)
(* or releases its context, and no later request finds it again, so it     *)
(* sends its pulses for as long as the process lives.                      *)
Lost(c) == mem[c] = "live" /\ c # sw.ka
LostRunsOn ==
  [][\A c \in Ctx : Lost(c) => Lost(c)' /\ (running[c] => running'[c])]_vars

(* A keepalive thread misses the stop of a reset at most once, also when   *)
(* it runs between the stop and the join (saiagent_switch.c:238-245,       *)
(* saiagent_thread.c:25-28).                                               *)
OneLatePulse == T!AtMostOneLateCall

(* Refinement: every keepalive thread, the one a second KEEPALIVE_INIT     *)
(* made unreachable (saiagent_switch.c:226) included, lives the life of a  *)
(* worker: the handlers release a context once and only after its thread.  *)
KeepalivesAreWorkers == T!ImplementsWorker

(* One KEEPALIVE_INIT that is acknowledged is enough: no later request,    *)
(* failed KEEPALIVE_INIT included, makes SWITCH_RESET use a null pointer   *)
(* (saiagent_switch.c:221-226, 238).                                       *)
KeepaliveInitSuffices ==
  [][sw.ka # None => sw'.ka # None /\ (hpc' = "crashed" => hpc = "crashed")]_vars

(* A thread that raised its flag after a reset had lowered it for good is  *)
(* never joined: the handler hangs in saiagent_thread_destroy for ever     *)
(* (saiagent_thread.c:24-28, 77-81).                                       *)
Hung == hpc = "join" /\ running[sw.ka]
HangIsFinal == [][Hung => Hung']_vars
-----------------------------------------------------------------------------
(* What comments and messages of saiagent_switch.c say and the code does   *)
(* not do.                                                                 *)

(* "stop IPC loop" (saiagent_switch.c:247): a reset that has begun ends    *)
(* the loop.                                                               *)
ResetStopsLoop == (hpc = "remove") ~> ~loop

(* "Finished system initialization" (saiagent_switch.c:168): the reply     *)
(* with the switch parameters follows an initialisation of every part.     *)
InfoMeansInitialised ==
  reply = "INFO" => sai = "up" /\ sw.callback /\ cb = Cmd /\ cached
=============================================================================
