----------------------------- MODULE SaiThread -----------------------------
(***************************************************************************)
(* The worker threads of src/src/saiagent_thread.c: a context is allocated *)
(* and a thread started on it, the owner lowers ctx->running, and destroy  *)
(* joins the thread and frees the context.  The owner (the IPC thread) and *)
(* every worker interleave at each access to the shared context.           *)
(***************************************************************************)
EXTENDS Naturals

CONSTANTS Ctx,       \* thread contexts the owner may allocate
          None       \* the null pointer

ASSUME NoneAssumption == None \notin Ctx

VARIABLES
  mem,        \* mem[c]: "unused", "live" (after calloc) or "freed"
  kind,       \* kind[c]: ctx->type, "LOOP" or "NORMAL"
  running,    \* running[c]: ctx->running
  tpc,        \* tpc[c]: where the thread of c is, "none" before pthread_create
  joining,    \* the context whose pthread_join blocks the owner, or None
  late        \* late[c]: routine calls made by a loop whose flag was down

vars == <<mem, kind, running, tpc, joining, late>>

InLoop == {"test", "call", "sleep"}

TypeOK ==
  /\ mem \in [Ctx -> {"unused", "live", "freed"}]
  /\ kind \in [Ctx -> {"LOOP", "NORMAL"}]
  /\ running \in [Ctx -> BOOLEAN]
  /\ tpc \in [Ctx -> {"none", "start", "done"} \cup InLoop]
  /\ joining \in Ctx \cup {None}
  /\ late \in [Ctx -> Nat]

Init ==
  /\ mem = [c \in Ctx |-> "unused"]
  /\ kind = [c \in Ctx |-> "LOOP"]
  /\ running = [c \in Ctx |-> FALSE]
  /\ tpc = [c \in Ctx |-> "none"]
  /\ joining = None
  /\ late = [c \in Ctx |-> 0]
-----------------------------------------------------------------------------
(* The owner.  It runs one call at a time and is stuck while it joins.     *)

\* saiagent_thread_create: the thread exists, it has not run yet.
Create(c, k) ==
  /\ joining = None
  /\ mem[c] = "unused"
  /\ mem' = [mem EXCEPT ![c] = "live"]
  /\ kind' = [kind EXCEPT ![c] = k]
  /\ tpc' = [tpc EXCEPT ![c] = "start"]
  /\ UNCHANGED <<running, joining, late>>

\* pthread_create failed: the context is freed and NULL returned.
CreateFails(c) ==
  /\ joining = None
  /\ mem[c] = "unused"
  /\ mem' = [mem EXCEPT ![c] = "freed"]
  /\ UNCHANGED <<kind, running, tpc, joining, late>>

\* saiagent_thread_stop: only lowers the flag.
Stop(c) ==
  /\ joining = None
  /\ mem[c] = "live"
  /\ running' = [running EXCEPT ![c] = FALSE]
  /\ UNCHANGED <<mem, kind, tpc, joining, late>>

\* saiagent_thread_destroy up to pthread_join.
BeginDestroy(c) ==
  /\ joining = None
  /\ mem[c] = "live"
  /\ running' = [running EXCEPT ![c] = FALSE]
  /\ joining' = c
  /\ UNCHANGED <<mem, kind, tpc, late>>

MutFinishDestroy(c) ==      \* mutant: the context is freed without joining
  /\ joining = c
  /\ mem' = [mem EXCEPT ![c] = "freed"]
  /\ joining' = None
  /\ UNCHANGED <<kind, running, tpc, late>>

\* pthread_join returned: the result and the context are freed.  It cannot
\* fail for a joinable thread that its one owner joins once.
FinishDestroy(c) ==
  /\ joining = c
  /\ tpc[c] = "done"
  /\ mem' = [mem EXCEPT ![c] = "freed"]
  /\ joining' = None
  /\ UNCHANGED <<kind, running, tpc, late>>

Owner(c) ==
  \/ \E k \in {"LOOP", "NORMAL"} : Create(c, k)
  \/ CreateFails(c)
  \/ Stop(c)
  \/ BeginDestroy(c)
  \/ FinishDestroy(c)
-----------------------------------------------------------------------------
(* The worker.                                                             *)

\* thread_loop raises the flag itself.  A build may test the flag or use the
\* value just stored, so the first test can be skipped.
StartLoop(c) ==
  /\ tpc[c] = "start"
  /\ kind[c] = "LOOP"
  /\ running' = [running EXCEPT ![c] = TRUE]
  /\ \E p \in {"test", "call"} : tpc' = [tpc EXCEPT ![c] = p]
  /\ UNCHANGED <<mem, kind, joining, late>>

\* A NORMAL thread is the routine itself: one call, and the thread is over.
StartNormal(c) ==
  /\ tpc[c] = "start"
  /\ kind[c] = "NORMAL"
  /\ tpc' = [tpc EXCEPT ![c] = "done"]
  /\ UNCHANGED <<mem, kind, running, joining, late>>

MutTest(c) ==               \* mutant: the flag is never looked at
  /\ tpc[c] = "test"
  /\ tpc' = [tpc EXCEPT ![c] = "call"]
  /\ UNCHANGED <<mem, kind, running, joining, late>>

MutTestIdle(c) ==           \* mutant: a lowered flag only skips the routine
  /\ tpc[c] = "test"
  /\ tpc' = [tpc EXCEPT ![c] = IF running[c] THEN "call" ELSE "sleep"]
  /\ UNCHANGED <<mem, kind, running, joining, late>>

\* while (ctx->running)
Test(c) ==
  /\ tpc[c] = "test"
  /\ tpc' = [tpc EXCEPT ![c] = IF running[c] THEN "call" ELSE "done"]
  /\ UNCHANGED <<mem, kind, running, joining, late>>

\* ctx->func(ctx->udata)
Call(c) ==
  /\ tpc[c] = "call"
  /\ tpc' = [tpc EXCEPT ![c] = "sleep"]
  /\ late' = [late EXCEPT ![c] = IF running[c] THEN @ ELSE @ + 1]
  /\ UNCHANGED <<mem, kind, running, joining>>

\* usleep returns.
Wake(c) ==
  /\ tpc[c] = "sleep"
  /\ tpc' = [tpc EXCEPT ![c] = "test"]
  /\ UNCHANGED <<mem, kind, running, joining, late>>

Thread(c) == StartLoop(c) \/ StartNormal(c) \/ Test(c) \/ Call(c) \/ Wake(c)

Next == \E c \in Ctx : Owner(c) \/ Thread(c)

\* The kernel schedules every runnable thread, usleep and the routine return.
Fairness == \A c \in Ctx : WF_vars(Thread(c)) /\ WF_vars(FinishDestroy(c))

SafeSpec == Init /\ [][Next]_vars

Spec == SafeSpec /\ Fairness
-----------------------------------------------------------------------------
(* A worker never reads its context after the owner has freed it: destroy  *)
(* (saiagent_thread.c:75-89) joins before it frees.                        *)
NoUseAfterFree ==
  \A c \in Ctx : tpc[c] \in {"start"} \cup InLoop => mem[c] = "live"

(* A loop whose flag was lowered after the thread raised it calls the      *)
(* routine at most once more (saiagent_thread.c:25-28): the stop can fall  *)
(* between the test and the call, never be missed twice.                   *)
AtMostOneLateCall == \A c \in Ctx : late[c] <= 1

(* saiagent_thread_destroy returns whenever the worker had already started *)
(* when the flag was lowered for good.                                     *)
StartedWorkerIsJoined ==
  \A c \in Ctx : (joining = c /\ tpc[c] # "start" /\ ~running[c]) ~> joining # c

(* Refinement: the context of a thread is released once and only after the *)
(* thread has ended.                                                       *)
Life(c) ==
  IF mem[c] = "unused" THEN "absent"
  ELSE IF mem[c] = "freed" THEN "reaped"
  ELSE IF tpc[c] = "done" THEN "ended" ELSE "alive"

W == INSTANCE Worker WITH life <- [c \in Ctx |-> Life(c)]

ImplementsWorker == W!Spec
=============================================================================
