--------------------------- MODULE SaiThread_proofs ---------------------------
(***************************************************************************)
(* Proofs about SaiThread, for any set of contexts: type correctness, no   *)
(* use of a freed context, at most one late call, and that SaiThread       *)
(* implements Worker.  None of them needs fairness, so that SaiAgent, whose *)
(* threads take the steps of SaiThread, can cite the lemmas over SafeSpec. *)
(***************************************************************************)
EXTENDS SaiThread, TLAPS

(* Types are inductive on their own.                                       *)
LEMMA Typed == SafeSpec => []TypeOK
<1>1. Init => TypeOK
  BY DEF Init, TypeOK
<1>2. TypeOK /\ [Next]_vars => TypeOK'
  <2> SUFFICES ASSUME TypeOK, [Next]_vars PROVE TypeOK'
    OBVIOUS
  <2>1. ASSUME NEW c \in Ctx, Owner(c) PROVE TypeOK'
    BY <2>1 DEF TypeOK, InLoop, Owner, Create, CreateFails, Stop, BeginDestroy, FinishDestroy
  <2>2. ASSUME NEW c \in Ctx, Thread(c) PROVE TypeOK'
    <3>1. CASE StartLoop(c) \/ StartNormal(c) \/ Wake(c)
      BY <3>1 DEF TypeOK, InLoop, StartLoop, StartNormal, Wake
    <3>2. CASE Test(c)
      <4>1. tpc' \in [Ctx -> {"none", "start", "done"} \cup InLoop]
        BY <3>2 DEF TypeOK, InLoop, Test
      <4> QED
        BY <3>2, <4>1 DEF TypeOK, Test
    <3>3. CASE Call(c)
      <4>1. late' = [late EXCEPT ![c] = late[c]] \/ late' = [late EXCEPT ![c] = late[c] + 1]
        BY <3>3, Zenon DEF Call
      <4>2. late' \in [Ctx -> Nat]
        BY <4>1 DEF TypeOK
      <4> QED
        BY <3>3, <4>2 DEF TypeOK, InLoop, Call
    <3> QED
      BY <2>2, <3>1, <3>2, <3>3 DEF Thread
  <2>3. CASE UNCHANGED vars
    BY <2>3 DEF TypeOK, vars
  <2> QED
    BY <2>1, <2>2, <2>3 DEF Next
<1> QED
  BY <1>1, <1>2, PTL DEF SafeSpec

(* The fields of a context hold what struct saiagent_thread_ctx lets them. *)
THEOREM TypeCorrect == Spec => []TypeOK
BY Typed, PTL DEF Spec

(* What the memory of a context says about its thread, and the reverse.    *)
MemInv ==
  /\ NoUseAfterFree
  /\ \A c \in Ctx : mem[c] = "unused" => tpc[c] = "none"
  /\ \A c \in Ctx : mem[c] = "live" => tpc[c] # "none"
  /\ joining # None => mem[joining] = "live"

(* A late call leaves the flag down and the thread past its routine, from  *)
(* where it can only leave the loop.                                       *)
LateInv == \A c \in Ctx :
  late[c] = 0 \/ (late[c] = 1 /\ ~running[c] /\ tpc[c] \in {"sleep", "test", "done"})

(* MemInv is inductive: join before free is what the last step needs.      *)
LEMMA MemInvInductive ==
  ASSUME TypeOK, MemInv, [Next]_vars
  PROVE  MemInv'
<1> USE NoneAssumption DEF TypeOK, MemInv, NoUseAfterFree, InLoop
<1>1. ASSUME NEW c \in Ctx, NEW k \in {"LOOP", "NORMAL"}, Create(c, k) PROVE MemInv'
  BY <1>1 DEF Create
<1>2. ASSUME NEW c \in Ctx, CreateFails(c) PROVE MemInv'
  BY <1>2 DEF CreateFails
<1>3. ASSUME NEW c \in Ctx, Stop(c) \/ BeginDestroy(c) PROVE MemInv'
  BY <1>3 DEF Stop, BeginDestroy
<1>4. ASSUME NEW c \in Ctx, FinishDestroy(c) PROVE MemInv'
  BY <1>4 DEF FinishDestroy
<1>5. ASSUME NEW c \in Ctx, Thread(c) PROVE MemInv'
  BY <1>5 DEF Thread, StartLoop, StartNormal, Test, Call, Wake
<1>6. CASE UNCHANGED vars
  BY <1>6 DEF vars
<1> QED
  BY <1>1, <1>2, <1>3, <1>4, <1>5, <1>6 DEF Next, Owner

LEMMA MemoryKept == SafeSpec => []MemInv
<1>1. Init => MemInv
  BY NoneAssumption DEF Init, MemInv, NoUseAfterFree, InLoop
<1>2. TypeOK /\ MemInv /\ [Next]_vars => MemInv'
  BY MemInvInductive
<1> QED
  BY <1>1, <1>2, Typed, PTL DEF SafeSpec

(* No worker reads a freed context (saiagent_thread.c:75-89).              *)
THEOREM MemorySafe == Spec => []NoUseAfterFree
<1>1. MemInv => NoUseAfterFree
  BY DEF MemInv
<1> QED
  BY <1>1, MemoryKept, PTL DEF Spec

(* LateInv is inductive on top of the types.                               *)
LEMMA LateInvInductive ==
  ASSUME TypeOK, MemInv, LateInv, [Next]_vars
  PROVE  LateInv'
<1> USE DEF TypeOK, LateInv
<1>1. ASSUME NEW c \in Ctx, Owner(c) PROVE LateInv'
  <2>1. ASSUME NEW k \in {"LOOP", "NORMAL"}, Create(c, k) PROVE LateInv'
    BY <2>1 DEF Create, MemInv
  <2>2. CASE CreateFails(c) \/ FinishDestroy(c)
    BY <2>2 DEF CreateFails, FinishDestroy
  <2>3. CASE Stop(c) \/ BeginDestroy(c)
    BY <2>3 DEF Stop, BeginDestroy
  <2> QED
    BY <1>1, <2>1, <2>2, <2>3 DEF Owner
<1>2. ASSUME NEW c \in Ctx, Thread(c) PROVE LateInv'
  BY <1>2 DEF Thread, StartLoop, StartNormal, Test, Call, Wake
<1>3. CASE UNCHANGED vars
  BY <1>3 DEF vars
<1> QED
  BY <1>1, <1>2, <1>3 DEF Next

LEMMA MissedOnce == SafeSpec => []AtMostOneLateCall
<1>1. Init => LateInv
  BY DEF Init, LateInv
<1>2. TypeOK /\ MemInv /\ LateInv /\ [Next]_vars => LateInv'
  BY LateInvInductive
<1>3. TypeOK /\ LateInv => AtMostOneLateCall
  <2> SUFFICES ASSUME TypeOK, LateInv, NEW c \in Ctx PROVE late[c] <= 1
    BY DEF AtMostOneLateCall
  <2>1. late[c] = 0 \/ late[c] = 1
    BY Zenon DEF LateInv
  <2> QED
    BY <2>1
<1> QED
  BY <1>1, <1>2, <1>3, Typed, MemoryKept, PTL DEF SafeSpec

(* A lowered flag is missed at most once (saiagent_thread.c:25-28).        *)
THEOREM LateCallOnce == Spec => []AtMostOneLateCall
BY MissedOnce, PTL DEF Spec

(* Only a thread in its loop has its flag up: it raises the flag as it     *)
(* enters and leaves only with the flag down.                              *)
FlagInv == \A c \in Ctx : running[c] => tpc[c] \in InLoop

LEMMA FlagUpInLoop == SafeSpec => []FlagInv
<1>1. Init => FlagInv
  BY DEF Init, FlagInv
<1>2. TypeOK /\ MemInv /\ FlagInv /\ [Next]_vars => FlagInv'
  <2> SUFFICES ASSUME TypeOK, MemInv, FlagInv, [Next]_vars PROVE FlagInv'
    OBVIOUS
  <2> USE DEF TypeOK, FlagInv, InLoop
  <2>1. ASSUME NEW c \in Ctx, Owner(c) PROVE FlagInv'
    <3>1. ASSUME NEW k \in {"LOOP", "NORMAL"}, Create(c, k) PROVE FlagInv'
      <4>1. ~running[c]
        BY <3>1 DEF Create, MemInv
      <4> QED
        BY <3>1, <4>1 DEF Create
    <3>2. CASE CreateFails(c) \/ Stop(c) \/ BeginDestroy(c) \/ FinishDestroy(c)
      BY <3>2 DEF CreateFails, Stop, BeginDestroy, FinishDestroy
    <3> QED
      BY <2>1, <3>1, <3>2 DEF Owner
  <2>2. ASSUME NEW c \in Ctx, Thread(c) PROVE FlagInv'
    BY <2>2 DEF Thread, StartLoop, StartNormal, Test, Call, Wake
  <2>3. CASE UNCHANGED vars
    BY <2>3 DEF vars
  <2> QED
    BY <2>1, <2>2, <2>3 DEF Next
<1> QED
  BY <1>1, <1>2, Typed, MemoryKept, PTL DEF SafeSpec

LEMMA LivesAsWorker == SafeSpec => ImplementsWorker
<1> DEFINE life == [c \in Ctx |-> Life(c)]
<1>1. Init => W!Init
  BY DEF Init, W!Init, Life
<1>2. TypeOK /\ MemInv /\ [Next]_vars => [W!Next]_life
  <2> SUFFICES ASSUME TypeOK, MemInv, [Next]_vars PROVE [W!Next]_life
    OBVIOUS
  <2> USE DEF TypeOK, MemInv, NoUseAfterFree, InLoop, Life
  <2>1. ASSUME NEW c \in Ctx, NEW k \in {"LOOP", "NORMAL"}, Create(c, k) PROVE W!Spawn(c)
    BY <2>1 DEF Create, W!Spawn, W!Move
  <2>2. ASSUME NEW c \in Ctx, CreateFails(c) PROVE W!Refuse(c)
    BY <2>2 DEF CreateFails, W!Refuse, W!Move
  <2>3. ASSUME NEW c \in Ctx, Stop(c) \/ BeginDestroy(c) PROVE UNCHANGED life
    BY <2>3 DEF Stop, BeginDestroy
  <2>4. ASSUME NEW c \in Ctx, FinishDestroy(c) PROVE W!Reap(c)
    BY <2>4, NoneAssumption DEF FinishDestroy, W!Reap, W!Move
  <2>5. ASSUME NEW c \in Ctx, Thread(c) PROVE W!Finish(c) \/ UNCHANGED life
    <3>1. CASE StartLoop(c)
      BY <3>1 DEF StartLoop
    <3>2. CASE StartNormal(c)
      BY <3>2 DEF StartNormal, W!Finish, W!Move
    <3>3. CASE Test(c) /\ running[c]
      BY <3>3 DEF Test
    <3>4. CASE Test(c) /\ ~running[c]
      BY <3>4 DEF Test, W!Finish, W!Move
    <3>5. CASE Call(c) \/ Wake(c)
      BY <3>5 DEF Call, Wake
    <3> QED
      BY <2>5, <3>1, <3>2, <3>3, <3>4, <3>5 DEF Thread
  <2>6. CASE UNCHANGED vars
    BY <2>6 DEF vars
  <2> QED
    BY <2>1, <2>2, <2>3, <2>4, <2>5, <2>6 DEF Next, Owner, W!Next
<1> QED
  BY <1>1, <1>2, Typed, MemoryKept, PTL DEF SafeSpec, ImplementsWorker, W!Spec

(* SaiThread implements Worker: every step of the owner or of a thread is  *)
(* a step of a worker's life or leaves all lives as they are.              *)
THEOREM WorkerImplemented == Spec => ImplementsWorker
BY LivesAsWorker, PTL DEF Spec
=============================================================================
