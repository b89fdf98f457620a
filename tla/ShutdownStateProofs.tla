------------------------ MODULE ShutdownStateProofs ------------------------
(***************************************************************************)
(* Proofs about ShutdownState, for any sets of threads and reasons.  All   *)
(* of them rest on one inductive invariant: who is inside a critical       *)
(* section owns the mutex, so what the flag and the reason look like       *)
(* there cannot be changed by anybody else.                                *)
(***************************************************************************)
EXTENDS ShutdownState, TLAPS

\* The threads inside a critical section are those that own the mutex.
MutexInv == \A t \in Threads : call[t] \in Holding <=> mutex_ = t

\* A waiter about to sleep has just seen the flag down.
BlockInv == \A t \in Waiters : call[t] = "block" => ~state_

\* The flag and the reason agree, except while the winner is about to store.
ReasonInv ==
  /\ ~state_ => reason_ = "NotRequested"
  /\ \A t \in Requesters : call[t] = "store" => state_
  /\ state_ /\ reason_ = "NotRequested" => Storing # {}

ShutdownInv ==
  ShutdownTypeOK /\ MutexInv /\ BlockInv /\ ReasonInv /\ NoLostWakeup

(* The critical-section bookkeeping, the types and the agreement of flag   *)
(* and reason hold initially.                                              *)
LEMMA ShutdownInvInit == ShutdownInit => ShutdownInv
<1> SUFFICES ASSUME ShutdownInit PROVE ShutdownInv
  OBVIOUS
<1> USE ThreadsAssumption DEF ShutdownInit, Threads
<1>1. ShutdownTypeOK
  BY DEF ShutdownTypeOK, StopReason, RequestPoints, WaitPoints
<1>2. MutexInv
  BY DEF MutexInv, Holding
<1>3. BlockInv /\ ReasonInv /\ NoLostWakeup
  BY DEF BlockInv, ReasonInv, NoLostWakeup
<1> QED BY <1>1, <1>2, <1>3 DEF ShutdownInv

(* Types are preserved by every step of every thread.                      *)
LEMMA ShutdownTypeStep ==
  ASSUME ShutdownTypeOK, [ShutdownNext]_shutdownVars
  PROVE  ShutdownTypeOK'
<1> USE ThreadsAssumption DEF ShutdownTypeOK, Threads, StopReason, RequestPoints,
        WaitPoints, Goto
<1>1. ASSUME NEW t \in Requesters, RequestStep(t) PROVE ShutdownTypeOK'
  <2>1. CASE LockRequest(t) BY <2>1 DEF LockRequest
  <2>2. CASE Exchange(t) BY <2>2 DEF Exchange
  <2>3. CASE StoreReason(t) BY <2>3 DEF StoreReason
  <2>4. CASE UnlockRequest(t) BY <2>4 DEF UnlockRequest
  <2>5. CASE NotifyAll(t) BY <2>5 DEF NotifyAll
  <2> QED BY <1>1, <2>1, <2>2, <2>3, <2>4, <2>5 DEF RequestStep
<1>2. ASSUME NEW t \in Requesters, NEW r \in Causes, BeginRequest(t, r)
      PROVE  ShutdownTypeOK'
  BY <1>2 DEF BeginRequest
<1>3. ASSUME NEW t \in Waiters, WaitStep(t) PROVE ShutdownTypeOK'
  <2>1. CASE LockWait(t) BY <2>1 DEF LockWait
  <2>2. CASE TestPredicate(t) BY <2>2 DEF TestPredicate
  <2>3. CASE Block(t) BY <2>3 DEF Block
  <2>4. CASE RelockWoken(t) BY <2>4 DEF RelockWoken
  <2>5. CASE RelockTimedOut(t) BY <2>5 DEF RelockTimedOut
  <2>6. CASE UnlockWait(t) BY <2>6 DEF UnlockWait
  <2> QED BY <1>3, <2>1, <2>2, <2>3, <2>4, <2>5, <2>6 DEF WaitStep
<1>4. ASSUME NEW t \in Waiters, Wakeup(t) \/ BeginWait(t) PROVE ShutdownTypeOK'
  BY <1>4 DEF Wakeup, Timeout, SpuriousWake, BeginWait
<1>5. CASE UNCHANGED shutdownVars
  BY <1>5 DEF shutdownVars
<1> QED BY <1>1, <1>2, <1>3, <1>4, <1>5 DEF ShutdownNext
(* Every step preserves the critical sections, the agreement of flag and   *)
(* reason, and the absence of lost wake-ups.  Setting the flag is the      *)
(* interesting step: the requester owns the mutex, so no waiter is between *)
(* its test and its sleep, and those already asleep await its notify_all.  *)
LEMMA ShutdownInvStep ==
  ASSUME ShutdownInv, [ShutdownNext]_shutdownVars
  PROVE  ShutdownInv'
<1>0. ShutdownTypeOK /\ ShutdownTypeOK'
  BY ShutdownTypeStep DEF ShutdownInv
<1>a. MutexInv /\ BlockInv /\ ReasonInv /\ NoLostWakeup
  BY DEF ShutdownInv
<1> DEFINE Others == MutexInv' /\ BlockInv' /\ ReasonInv' /\ NoLostWakeup'
<1> USE <1>0, <1>a, ThreadsAssumption DEF ShutdownTypeOK, Threads, StopReason,
        RequestPoints, WaitPoints, Goto, MutexInv, Holding, BlockInv, ReasonInv,
        Storing, NoLostWakeup, Delivered
<1>1. ASSUME NEW t \in Requesters, RequestStep(t) PROVE Others
  <2>1. CASE LockRequest(t) BY <2>1 DEF LockRequest
  <2>2. CASE Exchange(t) BY <2>2 DEF Exchange
  <2>3. CASE StoreReason(t) BY <2>3 DEF StoreReason
  <2>4. CASE UnlockRequest(t) BY <2>4 DEF UnlockRequest
  <2>5. CASE NotifyAll(t) BY <2>5 DEF NotifyAll
  <2> QED BY <1>1, <2>1, <2>2, <2>3, <2>4, <2>5 DEF RequestStep
<1>2. ASSUME NEW t \in Requesters, NEW r \in Causes, BeginRequest(t, r)
      PROVE  Others
  BY <1>2 DEF BeginRequest
<1>3. ASSUME NEW t \in Waiters, WaitStep(t) PROVE Others
  <2>1. CASE LockWait(t) BY <2>1 DEF LockWait
  <2>2. CASE TestPredicate(t) BY <2>2 DEF TestPredicate
  <2>3. CASE Block(t) BY <2>3 DEF Block
  <2>4. CASE RelockWoken(t) BY <2>4 DEF RelockWoken
  <2>5. CASE RelockTimedOut(t) BY <2>5 DEF RelockTimedOut
  <2>6. CASE UnlockWait(t) BY <2>6 DEF UnlockWait
  <2> QED BY <1>3, <2>1, <2>2, <2>3, <2>4, <2>5, <2>6 DEF WaitStep
<1>4. ASSUME NEW t \in Waiters, Wakeup(t) \/ BeginWait(t) PROVE Others
  BY <1>4 DEF Wakeup, Timeout, SpuriousWake, BeginWait
<1>5. ASSUME UNCHANGED shutdownVars PROVE Others
  BY <1>5 DEF shutdownVars
<1> HIDE DEF Goto, MutexInv, Holding, BlockInv, ReasonInv, Storing, NoLostWakeup,
        Delivered, ShutdownTypeOK, Others
<1>6. Others
  BY <1>1, <1>2, <1>3, <1>4, <1>5 DEF ShutdownNext
<1> QED BY <1>0, <1>6 DEF ShutdownInv, Others

(* The invariant in every reachable state.                                 *)
THEOREM ShutdownInvariant == ShutdownSpec => []ShutdownInv
<1>1. ShutdownInit => ShutdownInv
  BY ShutdownInvInit
<1>2. ShutdownInv /\ [ShutdownNext]_shutdownVars => ShutdownInv'
  BY ShutdownInvStep
<1> QED BY <1>1, <1>2, PTL DEF ShutdownSpec

(* The shutdown state is type-correct for any set of threads, and a thread *)
(* that has left request() or wait_for_stop() has released the mutex.      *)
THEOREM ShutdownTypeCorrect == ShutdownSpec => []ShutdownStateOK
<1>1. ShutdownInv => ShutdownStateOK
  BY ThreadsAssumption DEF ShutdownInv, ShutdownTypeOK, MutexInv, ShutdownStateOK
<1> QED BY <1>1, ShutdownInvariant, PTL

(* However many threads request and wait, once a request has notified, no  *)
(* thread is asleep in wait_for_stop() with the flag up.                   *)
THEOREM WakeupsAreNotLost == ShutdownSpec => []NoLostWakeup
<1>1. ShutdownInv => NoLostWakeup
  BY DEF ShutdownInv
<1> QED BY <1>1, ShutdownInvariant, PTL

(* A thread about to return from wait_for_stop() with the flag up owns the *)
(* mutex, so no winner is between raising the flag and storing its reason. *)
THEOREM WaitersSeeTheReason == ShutdownSpec => []WaiterSeesReason
<1>1. ShutdownInv => WaiterSeesReason
  BY ThreadsAssumption DEF ShutdownInv, ShutdownTypeOK, MutexInv, ReasonInv,
     Storing, WaiterSeesReason, Holding, Threads, RequestPoints, WaitPoints
<1> QED BY <1>1, ShutdownInvariant, PTL

----------------------------------------------------------------------------
(* Refinement of the stop latch. *)

\* While a requester is about to store, it is the only one.
LEMMA OneStoring ==
  ASSUME ShutdownInv, NEW t \in Requesters, call[t] = "store"
  PROVE  Storing = {t} /\ EffectiveReason = cause[t]
<1>1. Storing = {t}
  BY ThreadsAssumption DEF ShutdownInv, MutexInv, Storing, Holding, Threads
<1> QED BY <1>1 DEF EffectiveReason

\* Steps that neither enter nor leave a store, nor touch the flag, the reason
\* or the argument of a pending store, are invisible in the latch.
LEMMA LatchStutter ==
  ASSUME Storing' = Storing, UNCHANGED <<state_, reason_>>,
         \A t \in Storing : cause'[t] = cause[t]
  PROVE  UNCHANGED <<state_, EffectiveReason>>
<1>1. CASE Storing = {}
  BY <1>1 DEF EffectiveReason
<1>2. CASE Storing # {}
  <2>1. (CHOOSE t \in Storing : TRUE) \in Storing
    BY <1>2
  <2> QED BY <1>2, <2>1 DEF EffectiveReason
<1> QED BY <1>1, <1>2

(* Only the exchange that raises the flag is a step of the latch.          *)
LEMMA LatchStep ==
  ASSUME ShutdownInv, ShutdownInv', [ShutdownNext]_shutdownVars
  PROVE  [Latch!LatchNext]_<<state_, EffectiveReason>>
<1> DEFINE Invisible == UNCHANGED <<state_, EffectiveReason>>
<1>0. ShutdownTypeOK /\ ReasonInv
  BY DEF ShutdownInv
<1> USE <1>0, ThreadsAssumption DEF ShutdownTypeOK, Threads, Goto, Storing
<1>1. ASSUME NEW t \in Requesters, Exchange(t) PROVE Latch!LatchNext \/ Invisible
  <2>1. CASE state_
    BY <1>1, <2>1, LatchStutter DEF Exchange
  <2>2. CASE ~state_
    <3>1. call'[t] = "store" /\ cause' = cause /\ state_' = TRUE
      BY <1>1, <2>2 DEF Exchange
    <3>2. Storing' = {t}
      BY <3>1 DEF ShutdownInv, MutexInv, Holding
    <3>3. EffectiveReason' = cause[t]
      BY <3>1, <3>2 DEF EffectiveReason
    <3> QED BY <2>2, <3>1, <3>3 DEF Latch!LatchNext, Latch!Request
  <2> QED BY <2>1, <2>2
<1>2. ASSUME NEW t \in Requesters, StoreReason(t) PROVE Invisible
  <2>1. Storing = {t} /\ EffectiveReason = cause[t]
    BY <1>2, OneStoring DEF StoreReason
  <2>2. Storing' = {} /\ reason_' = cause[t] /\ state_' = state_
    BY <1>2, <2>1 DEF StoreReason
  <2> QED BY <2>1, <2>2 DEF EffectiveReason
<1>3. ASSUME NEW t \in Requesters,
             LockRequest(t) \/ UnlockRequest(t) \/ NotifyAll(t)
      PROVE  Invisible
  BY <1>3, LatchStutter DEF LockRequest, UnlockRequest, NotifyAll
<1>4. ASSUME NEW t \in Requesters, NEW r \in Causes, BeginRequest(t, r)
      PROVE  Invisible
  BY <1>4, LatchStutter DEF BeginRequest
<1>5. ASSUME NEW t \in Waiters, WaitStep(t) \/ Wakeup(t) \/ BeginWait(t)
      PROVE  Invisible
  BY <1>5, LatchStutter DEF WaitStep, LockWait, TestPredicate, Block, RelockWoken,
     RelockTimedOut, UnlockWait, Wakeup, Timeout, SpuriousWake, BeginWait
<1>6. ASSUME UNCHANGED shutdownVars PROVE Invisible
  BY <1>6, LatchStutter DEF shutdownVars
<1> HIDE DEF Invisible
<1>7. Latch!LatchNext \/ Invisible
  BY <1>1, <1>2, <1>3, <1>4, <1>5, <1>6 DEF ShutdownNext, RequestStep
<1> QED BY <1>7 DEF Invisible

(* The class with its mutex, atomics and condition variable implements the *)
(* latch of StopLatch: one request stops the process, with its own reason, *)
(* and no later request changes either.                                    *)
THEOREM ShutdownImplementsLatch == ShutdownSpec => ImplementsLatch
<1>1. ShutdownInit => Latch!LatchInit
  BY DEF ShutdownInit, Latch!LatchInit, EffectiveReason, Storing, Threads
<1>2. ShutdownInv /\ ShutdownInv' /\ [ShutdownNext]_shutdownVars
        => [Latch!LatchNext]_<<state_, EffectiveReason>>
  BY LatchStep
<1> QED
  BY <1>1, <1>2, ShutdownInvariant, PTL
     DEF ShutdownSpec, ImplementsLatch, Latch!LatchSpec

=============================================================================
