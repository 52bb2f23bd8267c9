# A verification project for the SAI agent

The SAI agent (`src/`) is a user-space process that drives a switch ASIC
through the SAI library on behalf of the Linux `prestera` driver.  The driver
sends requests over generic netlink; the agent translates each into SAI calls
and replies; events (port state, keepalive pulses) travel the other way.  This
directory holds TLA+ models of the agent, the TLC runs that check them and
TLAPS proofs about them.  Paths below are relative to `src/src/`.

## Inventory

| Component | State | Operations | What must hold |
|---|---|---|---|
| main and profile, `saiagent.c` | command-line options, list of profile parameters, `g_iter` | parse the profile, `profile_get_value`, `profile_get_next_value`, start and stop everything | every variable of the file is enumerated once; what was started is stopped |
| IPC, `saiagent_ipc.c` | netlink socket and family, table of handlers, `ctx.running`, `in_msg`, `out_msg` | `init`, `drv_init` handshake, `enter_loop` (receive, dispatch, reply), `loop_stop`, `send_event`, `deinit` | one reply for each request, in order; a bad receive does not stop the loop; a stop request does |
| message buffer, `saiagent_msg.c` | buffer, payload size, read position | put, get, `put_event`, clear | a message is a stream of words; nothing is read that was not written |
| switch, `saiagent_switch.c` | `sw_info`: switch object, ports, bridge, default VLAN, `keepalive_ctx` | SWITCH_INIT, ATTR_SET, KEEPALIVE_INIT, SWITCH_RESET; port notification | an acknowledged reset has stopped what was started; a reported initialisation happened |
| threads, `saiagent_thread.c` | per thread: `running`, `timeout`, `type`, the context itself | create, stop, destroy; the loop | no use of a freed context, stop takes effect, join returns |
| VLAN, `saiagent_vlan.c` | list of (id, object) | PORT_SET; init; PVID_SET; stubs CREATE, DELETE, STP | the list agrees with the SAI; an acknowledged port is a member |
| port, `saiagent_port.c` | none of its own; SAI port attributes | INFO_GET, ATTR_SET, ATTR_GET, pvid; link events | an acknowledged attribute is set; the driver learns of links |
| router, FDB | none | stubs that acknowledge | a reply is one structure |
| driver protocol, `linux/prestera/` | none | layouts of requests and responses | a handler acts on the request it was called for |

**Interaction.**  main calls IPC, which calls one handler at a time on the main
thread.  Handlers call the SAI, which may fail at each call.  SWITCH_INIT
registers the other handlers.  Keepalive threads run next to the main thread
and share two things with it: their context (`running`) and the socket.  The
SAI calls the port notification on a thread of its own, which also sends on
the socket.  main frees the socket when the loop has ended, and the SAI is shut
down before that.

**What is hard.**  The context of a thread is shared without a lock and its
flag is raised by the thread, lowered by its owner.  Handlers stop at the first
failing call and undo nothing.  `SAI_RET_ERR` (`saiagent_sai.h:6-10`) makes a
call that failed a second time and returns what that one says: a call that fails
only once ends its function early, and with success.  Several return codes are read before they are
written (`status |= ...` on an uninitialised variable).  The socket loses
messages when it is full, and a receive may succeed without delivering
anything.  There is no timeout anywhere.  `PROJECT.json` lists each hazard at
its line.

## Modules

| Module | Models | Abstract specification |
|---|---|---|
| `SaiThread` | `saiagent_thread.c` | `Worker` |
| `SaiSwitch` | `saiagent_switch.c`, composed with `SaiThread` (`T == INSTANCE SaiThread`) | |
| `SaiVlan` | `saiagent_vlan.c` and the SAI objects it manages | `Membership` |
| `SaiIpc` | `saiagent_ipc.c`, with the driver and the socket as environment | `Server` |
| `SaiMsg` | `saiagent_msg.c` | `Stream` |
| `SaiProfile` | the command line and the profile, `saiagent.c` | `Enumeration` |
| `SaiPort` | `saiagent_port.c`, the port notifications of `saiagent_switch.c`, with the SAI's links as environment | `LinkReports` |
| `SaiAgent` | main around the loop, on top of `SaiSwitch` (`EXTENDS`): start-up, shutdown, the socket, and the three kinds of threads that use it | |
| `SaiProtocol` | the request and reply buffers, and every handler of every component as a reader of the one and a writer of the other | |
| `SaiThread_proofs`, `SaiVlan_proofs`, `SaiIpc_proofs`, `SaiMsg_proofs`, `SaiProfile_proofs`, `SaiPort_proofs`, `SaiProtocol_proofs`, `SaiAgent_proofs` | theorems and proofs | |

`SaiAgent_proofs` also instantiates `SaiThread_proofs`, whose theorems are used of
the threads in the process.

`MC<Module>` fixes the instance TLC checks; each `.cfg` is one run.  An operator
called `Mut...` in a module is a variant of the definition after it with a
plausible bug.  No specification uses these operators: replacing a definition
by its variant must make the property that guards it fail.

**SaiThread.**  One action per access to the shared context.  `thread_loop` is
`StartLoop` (raise the flag), `Test`, `Call`, `Wake`; after raising the flag a
build may skip the first test, because the compiler knows the value, and the
model allows both.  `destroy` is `BeginDestroy` (lower the flag, enter the
join) and `FinishDestroy` (the thread has ended: free).  `thread_loop` has no
`return`; the value `pthread_join` gets is then whatever the return register
holds, which in the builds we looked at is the flag just read as zero, so
`free(res)` frees NULL and the model ignores it.  Nor is there an error of
`pthread_join`: the thread is joinable, and its one owner joins it once.

**SaiSwitch.**  Requests are actions guarded by `Dispatch` (the loop runs, no
handler is busy).  SWITCH_INIT is atomic, since nothing it writes is read by
another thread.  The outcome of `sai_switch_init` says how far it got *and* what
it returned: after a call that failed only once, `SAI_RET_ERR` makes that SUCCESS,
and the switch's handlers are registered over no switch at all, over one without
attributes, or over one left behind by an earlier try.  `VlanInit` likewise fails,
caches the default VLAN, or ends early with SUCCESS.  The status
`saiagent_switch_init` returns is uninitialised on both paths, and so is the
router's: each is any value of `Garbage`.  SWITCH_RESET is
`ResetBegin`-`ResetRemove`-`ResetDestroy`-`ResetFinish`, and the keepalive
threads (`T!Thread`) run between them; without a switch it only acknowledges, and
the loop goes on.  A null `keepalive_ctx` is the state
`crashed`, in which nothing moves.  That the SAI has one switch and refuses a
second `create_switch` is an assumption about the SAI.

**SaiVlan.**  `list` is the cache; `saiVlan`, `members`, `brUp` are the SAI's
side.  `VlanPortSet` has a disjunct for each way out of
`sai_vlan_add_port_member`, in the order of the code, built from `EnsureVlan`
and `EnsureMember`.  `QueryFails` and `MembersUnread` (and `InitEarly` in
`saiagent_vlan_init`) are those where `SAI_RET_ERR` may turn a call that fails
once into SUCCESS; the history `last.fault` says that a call failed on the way.
The handlers need a switch and its ports to be there; over less, every port
is null.  `Fetched(m, 1)` is what asking a member for one attribute
yields.  `last` and `oom` are history variables.  `Membership` is the driver's
picture of VLAN_PORT_SET, without objects and cache: VLAN, member and admin state
are added in this order, a request may stop after each, and is acknowledged only
if all are there or a call failed on the way (`failed`).  The SAI refuses a VLAN id or
a member that exists (an assumption); any call may fail for other reasons.

**SaiIpc.**  The main thread's `pc` goes connect, resolve, hello, wait, then
recv, process, send in the loop.  A datagram is its number and what the receive makes
of it: a request, a request whose handler stops the loop, an acknowledgement,
something without a usable TLV, a libnl error, or a receive that returns 0 and
calls nobody back; after the last, `in_msg.err` is still that of the message
before, so a good request is processed once more, which the history variable
`replays` counts and `Server` calls `Reopen`.  The history variable `greeted` is
the driver's first acknowledgement of DRV_INIT.  The socket holds `Cap` datagrams; one more is lost and the
next receive fails.  Handlers are `Process`: there is always a reply, because
`saiagent_ipc_process_req` answers unknown and short requests itself.

**SaiMsg.**  The buffer in words, sizes and offsets in bytes; `CopyEnds` is the
termination condition of the copy loop with unsigned arithmetic.

**SaiProfile.**  One action per option and per line of a file.  A line is a
parameter or `Bad`; a line that is longer than the buffer, or whose fields are,
is not modelled.  `LineFails` is also a failed `calloc`, so it is enabled for
every line.  `iter` is a position in the list, 0 for NULL.  `file`, and `loaded`
are history variables, and `call` tells a restart from a `-1` at the end,
which have one answer.

**SaiAgent.**  `main` is the place of main: start-up (`SaiStart`, `IpcStart`,
`Handshake`), the loop (`recv`, `send`), shutdown (`SaiStop`, `Deinit`, `Exit`).
`Serve` takes any request `SaiSwitch` can handle, `HandlerGoesOn` is the rest of
a reset, `SendReply` sends and tests `ctx.running`.  Everything that sends goes
through `Sends`: the message may arrive, be lost, or find the socket freed.
Which messages came after the acknowledgement of a reset, and who used the freed
socket, are history variables.  Where requests come from, and that the receive
may fail, is in `SaiIpc`; failed receives change nothing here and are left out.
A null `keepalive_ctx` ends everything, as in `SaiSwitch`.

**SaiProtocol.**  A word of the request buffer holds the number of the message
that wrote it last, a field is a place in the structure of its command, and
`ActsOn` collects the writers of the words a handler uses for more than its log.
Sizes of responses are in bytes, with the padding of the compiler, as
`tests/check_saiagent.c` pins them.  `Put` is `saiagent_msg_put_data` without the
copy, which is in `SaiMsg`.  What the handlers do to the switch is in the other
modules; here an outcome that depends on it is a choice.  SWITCH_RESET ends the
module's behaviour if there is a switch, and that without a keepalive thread it crashes is left to
`SaiSwitch`.

**SaiPort.**  The handlers are the main thread.  `QueryFails` is a query that
`SAI_RET_ERR` repeats, which may acknowledge a request before anything is set;
`fault` in `last` is as in `SaiVlan`.  `Notify` and `SendEvent` the
SAI's, which calls `sai_on_port_state_change_notify` with some of the changes
and has one event sent per turn of its loop.  `view` is what the events told the
driver, by the `port_id` they carry; how the driver relates it to its port
numbers is not in this repository.  `LinkReports` has one queue of changes
instead of the SAI's list and the one the callback works on, and ports instead
of identifiers.  That the objects of ports differ in the low
32 bits (an event carries no more of them, so the driver could not tell two such
ports apart), that the switch is up, and that the SAI reports the changes in order, are assumptions about
the SAI.

## Runs

| Run | Bounds | Shows |
|---|---|---|
| `thread` | 2 contexts | `NoUseAfterFree`, `AtMostOneLateCall`; a destroy whose worker had started ends; refinement of `Worker` |
| `agent` | 2 contexts, both return codes, 2 events in a notification | what an acknowledged reset of a switch has done; no dangling `keepalive_ctx` in use; no null one after one KEEPALIVE_INIT succeeded; a thread that a second one made unreachable is left alone and runs on; the keepalive threads refine `Worker` in the whole process; a reset that hangs does so for ever; only an unreachable thread uses the freed socket; nothing follows the acknowledgement of the reset of a switch; the exit leaves no open socket and no SAI with a switch; such a reset, and one of a started thread, end the process |
| `switch_hang`, `switch_init` | 2 contexts, both return codes | counterexamples 1 and 2 below |
| `vlan` | default VLAN and 2 more, 3 ports of which 2 have a bridge port, as many objects as VLANs, no `saiagent_vlan_init` on a cache of 2 entries or more | cache and SAI agree; only a failed `calloc` loses a VLAN the agent created, and for ever; an acknowledged port is a member, if no call failed; a new member succeeds if nothing fails; refinement of `Membership` |
| `vlan_member` | as `vlan` | an existing member is not recognised |
| `ipc` | 5 messages, room for 2 | answers in order, a second answer only after a receive that delivered nothing; queued requests are taken; a stop ends the loop, and nothing else does; nothing sent before the driver's acknowledgement is answered; refinement of `Server` |
| `msg` | 5 words, data of 2, 4 and 8 bytes, `size_t` of 64 values | nothing is read that was not written; refinement of `Stream` |
| `profile` | files of up to 3 lines over 2 names and 2 values, 2 options | the parameters are one whole file; the last definition wins; refinement of `Enumeration` |
| `port` | 2 ports with an object and 1 without, 3 link changes, identifiers of 2 bits | acknowledged attributes are set, if no call failed; the driver's view of a link is right unless an event was lost; every change is reported or lost; refinement of `LinkReports` |
| `protocol` | 3 messages of 0, 1, 2, 4, 36 or 37 words, buffers of 37 words | a whole request is acted on alone; a refused message leaves no trace; a reply is one structure |
| `reply` | as `protocol` | counterexample 4 below |

**Why the bounds are enough.**  Two contexts are one that `keepalive_ctx` knows
and one it has lost, or a creation that failed and one that did not; contexts
do not interact otherwise.  Two VLANs besides the default one let one be
orphaned while another is created, and objects are fresh, so as many objects as
VLANs suffice; two ports are a member and one that is not yet.  Five messages
are a handshake, a request, a silent or lost one, another request and a stop;
a socket of two overruns with them.  Twenty bytes fit two data of eight and
leave room for half an event.  A `size_t` of 64 values wraps as one of 64 bits does:
both are powers of two divisible by four.  Three lines are two definitions of a
name and one of another, or a bad line between two good ones; two options are a
good file before or after a bad one.  Three link changes are a port that goes up
and down around a change of the other, in one notification or in three.  Two events
are one that is sent before the reset is acknowledged and one after it.  The
lengths are those of the structures, one shorter than each, and one the buffer
does not hold; three messages are a refused one, a long one and a short one, in
any order.  The buffer is shorter than the agent's, but longer than every
structure, and nothing else is asked of it.

**Fairness.**  Threads of the process are scheduled, `usleep` and the SAI's
calls return: weak fairness of each thread, of the reset handler's next step
and of the main thread's next step.  The SAI calls back
about a link that changed, and its thread runs (`Notify`, `SendEvent`).  The
driver owes nothing: requests have no fairness, and in `agent` neither have
`SaiStart`, `IpcStart` and `Handshake`, which may wait for the driver for ever.
That `sai_api_uninitialize` returns only when no callback runs any more, and that
none begins later, is an assumption about the SAI; of `remove_switch`, whose
result is ignored, nothing of the kind is assumed.  A receive on an empty socket
is disabled, so blocking there for ever is allowed.  `thread` and `ipc` switch
deadlock checking off because the owner and the driver may simply stop; `agent`
because the process ends, and `protocol` because the loop does;
`msg` because a copy that runs away ends everything;
`profile` because the agent may exit.  `vlan` and `port` check for deadlock.

## What the code does and its comments deny

1. *Reset can hang* (`switch_hang`).  The flag of a thread is raised by the
   thread.  A reset right after KEEPALIVE_INIT lowers it first, the thread
   raises it and runs on, and the join never returns.
2. *SWITCH_INIT reports success after a failure* (`switch_init`): results are
   overwritten, were never initialised, or are those of a repeated call.
3. *Existing VLAN members are not found* (`vlan_member`): one attribute is
   asked for, two are compared.
4. *Two replies are not the responses of their commands* (`reply`): VR_CREATE
   answers with a plain acknowledgement, statistics with the wrong structure.

`PROJECT.json` quotes the comment each one contradicts.

Four theorems say of every state what the counterexamples say of one
behaviour.  `HangStaysForever`: once the thread has raised its flag again, the
reset never ends, whatever the other threads do.  `ExistingMemberRefused`:
VLAN_PORT_SET for an existing member fails unless a call fails on the way.  `OnlyTwoResponsesMissing`:
no other reply than those two differs from the response its handler filled in.
`OnlyPartWordsRunAway` (with `CopyEndsOnWords`): the copy of the message buffer
runs away only for a size that is not whole words, so never for those in use.

`SAI_RET_ERR` is behind more than the second: an acknowledgement of VLAN_PORT_SET,
VLAN_PVID_SET or PORT_ATTR_SET means what it says only if no call failed once.
`AckMeansMember`, `AckMeansApplied`, `NewMemberSucceeds`, `ExistingMemberRefused`,
the answers in `OrphanForever` and `Membership` leave out requests on which one
did.  With every call allowed to fail, nothing more can be said of these.  An
acknowledged SWITCH_RESET likewise may have found no switch and done nothing;
`AcknowledgedResetIsDone`, `NothingAfterResetAck` and `AckedResetEndsProcess` are
about the reset of a switch.

Further failures are plain in the code, and have no run.  A reset without a
keepalive thread writes through NULL (`crashed` in `SaiSwitch`); that it takes
no more than one successful KEEPALIVE_INIT to rule this out is
`KeepaliveInitSuffices`.  A second
KEEPALIVE_INIT makes the first thread unreachable: no later request stops or
releases it (`LostRunsOn`), so it outlives the reset and may send after its
acknowledgement and on the freed socket, the one case `SocketOutlivesUsers` and
`NothingAfterResetAck` leave out.  A short
request is completed by the words of earlier ones, the case `WholeRequestIsOwn`
leaves out.  One line of the profile that does not parse, such as a comment,
drops all parameters of the file, and the agent asks for a `-p` option it got
(`LineFails` in `SaiProfile`).  The byte and half-word functions of the message
buffer, which nothing calls, send the copy loop past zero (`stuck` in `SaiMsg`).

## Proofs

All proofs hold for every value of the constants.  The type invariants of all
modules are theorems; a run has one only where it tells something (`AgentTypeOK`,
which a return code sent as it is would break).

* `SaiThread_proofs`, under `NoneAssumption` (the null pointer is no context).
  `TypeCorrect` is inductive by itself.  `MemorySafe` needs `MemInv`: besides
  the property, an unused context has no thread, a live one has, and a join in
  progress is on a live context; without the last, freeing at the end of a join
  could not be told from freeing twice.  `LateCallOnce` needs `LateInv`: a late
  call leaves the flag down and the thread at a place from which it only
  leaves the loop.  Creation preserves it because an unused context has no
  thread.  `WorkerImplemented` maps each action to a step of `Worker` or to a
  stutter, using `MemInv`.  The lemmas are about `SafeSpec`, the specification
  without fairness, because a thread inside the process is not always given a
  turn: `FlagUpInLoop` (`FlagInv`: a raised flag belongs to a worker in its loop)
  is there for `SaiAgent_proofs` only.
* `SaiVlan_proofs`, under `VlanAssumption`.  `StepIsVlanStep` reduces every
  action to four things it can do to the cache and the SAI's VLANs.
  `CacheCoherent` follows with `CacheTypes`: a VLAN being created has no entry,
  so no entry becomes stale.  `OrphanOnlyByAllocFailure` needs `CachedInv`,
  which also covers the time before `saiagent_vlan_init`; it is about VLANs other
  than the default one, which the agent does not create.  The other theorems
  need `MemberInv`: the cache agrees with the SAI, members belong to VLANs the SAI
  has, and a port that is up has a member in a VLAN of the cache.  A search
  of the list finds what is in it (`GetFinds`) because a set of indices has a
  least element, by well-foundedness of the naturals.  `MembershipImplemented`
  adds `Distinct`, that two VLANs never share an object: without it a member of
  one VLAN would be one of another too, and creating a VLAN could bring members
  with it.  Then each way out of VLAN_PORT_SET is one of the four of
  `Membership`; `VlanAdded` and `MemberAdded` are the two that add something.
  `ExistingMemberRefused`: the member loop compares with an attribute it did not
  ask for, so it finds nobody, and `EnsureMember` is left only for a new member.
* `SaiIpc_proofs`, under `IpcAssumption`.  `FlowInv`: numbers grow along the
  way from in_msg through the socket to the driver, and each replay used up a
  message.  `AnswerInv`: the answers are to in_msg and what came before it, and
  if its request was answered already, the answer to come is paid for by a
  counted replay; `AnswersInOrder` is the part of it that a reader sees.
  `ServerImplemented` maps each step to the fate of one message, or of two when a
  silent one opens the latest request again, from `FateFacts`: what is in the
  socket is newer than in_msg, and the answers are not.  `LoopEndsByStop` needs
  `StopInv`: `ctx.running` is low exactly after a stop request was processed.
  `AckComesFirst` needs `GreetInv`: from the first receive in the loop on,
  `greeted` is set and older than what in_msg, the socket and the answers hold.
* `SaiMsg_proofs`, under `MsgAssumption`.  The types and `ReadIsWritten` are
  inductive together once `EndsOnWords` has shown that a copy which ends copies
  whole words; of `size_t` only a number of values divisible by four is needed.
  `CopyEndsOnWords` is the other direction too: the loop ends for these only.
  `StreamImplemented` rewrites a put and a get as words appended to the
  contents and a segment of them.
* `SaiProfile_proofs`, under `ProfileAssumption`.  `Inv` holds the types,
  `AllOrNothing` and `ParseInv`: while a file is parsed, the parameters read,
  newest first, and the lines left make it up.  The types need `ParseInv` too, as
  only what was parsed is known to be a parameter when the file ends.
  `LookupCorrect` turns the first match in the list into the last in the file;
  that there is a first one is well-foundedness of the naturals.
  `EnumerationImplemented` maps position `iter` of the list to the lines of the
  file not handed out yet.
* `SaiPort_proofs`, under `PortAssumption`.  `DriverIsTold` needs `FreshInv`
  about `Wait`, the changes being sent followed by those to be notified: the
  last of a port's changes in it is the state of the link.  Without it, sending
  one of several events of a port would say nothing about the next.  Only the
  assumption that events tell ports apart is used of `EventPort`.
  `LinkReportsImplemented` maps a link change to one that joins the queue, an
  event sent or not to one told or missed, and the SAI's call of the callback,
  which only moves changes from one list to the other, to a stutter.

* `SaiProtocol_proofs`, under `ProtocolAssumption`.  `WholeRequestIsSafe` needs
  that the first `in.len` words of the buffer are the last request's, which a
  refused message leaves so because it changes neither; `DiscardedIsGone` that
  no word of the buffer, and no writer of one that was used, is a message that
  was refused; `ReplyIsOneStructure` that a response fits the empty buffer,
  which is where the assumption on `BufWords` is used.  `HandlerStep` is what any
  handler may do to the buffers; that each does no more is shown once, and
  `OnlyTwoResponsesMissing` is a conjunct of it.
* `SaiAgent_proofs`, under `SwitchAssumption` and `AgentAssumption`.  `AgentInv`
  is layered.  `SwitchInv` is about the handlers: `MemInv` (an unused context
  has no thread), `ResetInv` (a reset in progress runs over a switch and a
  keepalive thread, and joins only that one; `switch_oid` is set from
  `create_switch` on) and `DoneInv` (the loop is stopped
  only by a reset that is done).  `MainInv` says what there is to use and to
  clean up at each place of main: before the loop nothing runs, after it
  `DoneInv` holds.  `SentInv` has the history: before the socket is freed nobody
  misused it, before the acknowledgement nothing followed it.
  `SocketIsFreedLast` and `ResetAckIsLast` come from their meeting: a thread that
  still sends is not the one `DoneInv` says has ended, and the SAI's, which may
  have events left until `SaiStop`, has none after it.  `LostThreadRunsOn` needs
  only that a reset joins the thread `keepalive_ctx` names, and that a new context
  was unused.  `AgentRunsThreads` and `AgentRunsSwitch` show the
  composition: each step of the process is one of `SaiThread`, or a stutter, and
  likewise one of `SaiSwitch`, so what is proved of every behaviour of these
  holds of the process.  `KeepalivesLiveAsWorkers`, `OneLatePulseOnly` and the
  flag that `HangStaysForever` needs come this way from `SaiThread_proofs`, with
  no second proof.  `HangStaysForever` also needs `ResetInv`: nothing but the
  reset lowers a flag or creates a thread, and the reset is waiting.

Liveness (`StartedWorkerIsJoined`, `StartedResetEndsProcess`,
`AckedResetEndsProcess`, `QueuedIsOpened`,
`StopEndsLoop`, `EveryChangeIsReported`) is model-checked only: the prover
handles no liveness under fairness.  Every other property of the passing runs is
proved as well as model-checked.  `HangStaysForever` is the safety half of
the finding about resets; that a reset not hanging ends is liveness.

## Not modelled

* Structures of `linux/prestera/` that the agent never uses, and the layout of
  events; array indices from the driver beyond 64 ports; time; lengths of lines
  in the profile; the exit status.
* The SAI's own logic, beyond what its calls may answer and the assumptions
  named above; libnl, beyond what a receive may do.
* `tests/check_saiagent.c` holds compile-time checks of sizes; the sizes are used,
  the checks themselves have no behaviour.

## Plan

1. Done: `Worker`, `SaiThread`; `SaiSwitch` over it; `SaiVlan`; `Server`,
   `SaiIpc`; `Stream`, `SaiMsg`; `Enumeration`, `SaiProfile`; `SaiPort`;
   `SaiAgent` over `SaiSwitch`; `SaiProtocol`; `Membership`, `LinkReports`; the
   proofs of every safety property and refinement, and of the composition.
2. Left: the layout of events (`linux/prestera/prestera_event.h`).
