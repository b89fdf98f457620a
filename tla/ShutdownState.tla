--------------------------- MODULE ShutdownState ---------------------------
(***************************************************************************)
(* The process-wide shutdown state (include/forger/shutdown.hpp and        *)
(* src/shutdown.cpp): an atomic flag and an atomic reason, both written    *)
(* under a mutex, and a condition variable on which the scheduler waits.   *)
(*                                                                         *)
(* Every access another thread can see is a step of its own.  call[t] is   *)
(* where thread t is inside the class ("out" when it is not); the threads  *)
(* whose call is "blocked" are the wait set of cv_.                        *)
(***************************************************************************)
CONSTANTS Requesters,  \* threads that call request()
          Waiters,     \* threads that call wait_for_stop()
          Causes,      \* the reasons a caller gives: Signal, Internal
          NoThread     \* mutex_ is free

ASSUME ThreadsAssumption ==
  /\ Requesters \cap Waiters = {}
  /\ NoThread \notin Requesters \cup Waiters
  /\ "NotRequested" \notin Causes

Threads == Requesters \cup Waiters
StopReason == {"NotRequested"} \cup Causes

VARIABLES state_, reason_, mutex_, call,
          cause  \* the argument of each requester's latest request()

shutdownVars == <<state_, reason_, mutex_, call, cause>>

RequestPoints == {"lock", "exchange", "store", "unlock", "notify"}
WaitPoints    == {"lock_wait", "test", "block", "blocked", "woken",
                  "timed_out", "unlock_wait"}
\* The control points at which a thread owns mutex_.
Holding == {"exchange", "store", "unlock", "test", "block", "unlock_wait"}

ShutdownTypeOK ==
  /\ state_ \in BOOLEAN
  /\ reason_ \in StopReason
  /\ mutex_ \in Threads \cup {NoThread}
  /\ call \in [Threads -> {"out"} \cup RequestPoints \cup WaitPoints]
  /\ \A t \in Requesters : call[t] \notin WaitPoints
  /\ \A t \in Waiters : call[t] \notin RequestPoints
  /\ cause \in [Requesters -> Causes]

ShutdownInit ==
  /\ state_ = FALSE
  /\ reason_ = "NotRequested"
  /\ mutex_ = NoThread
  /\ call = [t \in Threads |-> "out"]
  /\ cause \in [Requesters -> Causes]

Goto(t, from, to) ==
  /\ call[t] = from
  /\ call' = [call EXCEPT ![t] = to]

----------------------------------------------------------------------------
(* request(reason) *)

BeginRequest(t, r) ==
  /\ Goto(t, "out", "lock")
  /\ cause' = [cause EXCEPT ![t] = r]
  /\ UNCHANGED <<state_, reason_, mutex_>>

\* Mutant: request() without its lock_guard.
LockRequest_NoLock(t) ==
  /\ Goto(t, "lock", "exchange")
  /\ UNCHANGED <<state_, reason_, mutex_, cause>>

LockRequest(t) ==
  /\ mutex_ = NoThread
  /\ Goto(t, "lock", "exchange")
  /\ mutex_' = t
  /\ UNCHANGED <<state_, reason_, cause>>

\* Mutant: every caller stores its reason.
Exchange_LastWins(t) ==
  /\ Goto(t, "exchange", "store")
  /\ state_' = TRUE
  /\ UNCHANGED <<reason_, mutex_, cause>>

\* Mutant: the lock's scope ends before the reason is stored.
Exchange_ShortScope(t) ==
  /\ Goto(t, "exchange", IF state_ THEN "unlock" ELSE "store")
  /\ state_' = TRUE
  /\ mutex_' = NoThread
  /\ UNCHANGED <<reason_, cause>>

\* Mutant: lock() and unlock() in place of the guard, and an early return
\* for the caller that finds the flag up.
Exchange_LeavesLocked(t) ==
  /\ Goto(t, "exchange", IF state_ THEN "out" ELSE "store")
  /\ state_' = TRUE
  /\ UNCHANGED <<reason_, mutex_, cause>>

\* Only the caller whose exchange makes the transition goes on to store.
Exchange(t) ==
  /\ Goto(t, "exchange", IF state_ THEN "unlock" ELSE "store")
  /\ state_' = TRUE
  /\ UNCHANGED <<reason_, mutex_, cause>>

StoreReason(t) ==
  /\ Goto(t, "store", "unlock")
  /\ reason_' = cause[t]
  /\ UNCHANGED <<state_, mutex_, cause>>

UnlockRequest(t) ==
  /\ Goto(t, "unlock", "notify")
  /\ mutex_' = NoThread
  /\ UNCHANGED <<state_, reason_, cause>>

\* Mutant: no notify_all() after the unlock.
NotifyAll_Missing(t) ==
  /\ Goto(t, "notify", "out")
  /\ UNCHANGED <<state_, reason_, mutex_, cause>>

\* notify_all(): outside the lock, it reaches the threads blocked right now.
NotifyAll(t) ==
  /\ call[t] = "notify"
  /\ call' = [u \in Threads |-> IF u = t THEN "out"
                                ELSE IF call[u] = "blocked" THEN "woken"
                                ELSE call[u]]
  /\ UNCHANGED <<state_, reason_, mutex_, cause>>

----------------------------------------------------------------------------
(* wait_for_stop(timeout_ms): the predicate form of cv_.wait_for *)

BeginWait(t) ==
  /\ Goto(t, "out", "lock_wait")
  /\ UNCHANGED <<state_, reason_, mutex_, cause>>

LockWait(t) ==
  /\ mutex_ = NoThread
  /\ Goto(t, "lock_wait", "test")
  /\ mutex_' = t
  /\ UNCHANGED <<state_, reason_, cause>>

TestPredicate(t) ==
  /\ Goto(t, "test", IF state_ THEN "unlock_wait" ELSE "block")
  /\ UNCHANGED <<state_, reason_, mutex_, cause>>

\* The condition variable releases the mutex and blocks in one step.
Block(t) ==
  /\ Goto(t, "block", "blocked")
  /\ mutex_' = NoThread
  /\ UNCHANGED <<state_, reason_, cause>>

\* The deadline passes; wait_for then returns whatever the predicate says.
Timeout(t) ==
  /\ Goto(t, "blocked", "timed_out")
  /\ UNCHANGED <<state_, reason_, mutex_, cause>>

SpuriousWake(t) ==
  /\ Goto(t, "blocked", "woken")
  /\ UNCHANGED <<state_, reason_, mutex_, cause>>

\* A woken thread takes the mutex back before it looks at anything.
RelockWoken(t) ==
  /\ mutex_ = NoThread
  /\ Goto(t, "woken", "test")
  /\ mutex_' = t
  /\ UNCHANGED <<state_, reason_, cause>>

RelockTimedOut(t) ==
  /\ mutex_ = NoThread
  /\ Goto(t, "timed_out", "unlock_wait")
  /\ mutex_' = t
  /\ UNCHANGED <<state_, reason_, cause>>

UnlockWait(t) ==
  /\ Goto(t, "unlock_wait", "out")
  /\ mutex_' = NoThread
  /\ UNCHANGED <<state_, reason_, cause>>

----------------------------------------------------------------------------
\* The steps of a thread that is inside request() or wait_for_stop().
RequestStep(t) ==
  LockRequest(t) \/ Exchange(t) \/ StoreReason(t) \/ UnlockRequest(t) \/ NotifyAll(t)

WaitStep(t) ==
  \/ LockWait(t) \/ TestPredicate(t) \/ Block(t)
  \/ RelockWoken(t) \/ RelockTimedOut(t) \/ UnlockWait(t)

Wakeup(t) == Timeout(t) \/ SpuriousWake(t)

ShutdownNext ==
  \/ \E t \in Requesters : RequestStep(t) \/ \E r \in Causes : BeginRequest(t, r)
  \/ \E t \in Waiters : WaitStep(t) \/ Wakeup(t) \/ BeginWait(t)

ShutdownSpec == ShutdownInit /\ [][ShutdownNext]_shutdownVars

----------------------------------------------------------------------------
(* Properties *)

(* Types, and nobody keeps the mutex outside the critical sections of      *)
(* request() and wait_for_stop(): each way out of either, the one of a     *)
(* caller that loses the exchange included, has to release it              *)
(* (shutdown.hpp:51-59, shutdown.cpp:20-24), or every later call hangs.    *)
ShutdownStateOK ==
  ShutdownTypeOK /\ (mutex_ # NoThread => call[mutex_] \in Holding)

(* Once a request() that saw the flag has gone past its notify_all(), no   *)
(* thread sleeps in wait_for_stop(): the predicate, tested under the mutex *)
(* that the flag is set under, closes the window between test and sleep    *)
(* (shutdown.hpp:64-67).                                                   *)
Delivered == \A t \in Requesters : call[t] \notin {"store", "unlock", "notify"}
NoLostWakeup ==
  state_ /\ Delivered => \A t \in Waiters : call[t] # "blocked"

(* A thread that leaves wait_for_stop() because of a stop finds the reason *)
(* in place, although the flag is raised before the reason is stored: only *)
(* the lock-free readers can catch the two out of step.                    *)
WaiterSeesReason ==
  \A t \in Waiters :
    state_ /\ call[t] = "unlock_wait" => reason_ # "NotRequested"

(* The reason never changes once the flag is up and the reason stored, and *)
(* the reason recorded is the one of the request that raised the flag:     *)
(* shutdown.hpp:48-50, "the first caller wins".  The transition takes      *)
(* effect at the exchange; until the winner stores it, its reason is the   *)
(* argument of that request.                                               *)
Storing == {t \in Requesters : call[t] = "store"}
EffectiveReason ==
  IF Storing = {} THEN reason_ ELSE cause[CHOOSE t \in Storing : TRUE]

Latch == INSTANCE StopLatch
           WITH Reasons <- Causes, NotRequested <- "NotRequested",
                stopped <- state_, reason <- EffectiveReason
ImplementsLatch == Latch!LatchSpec
=============================================================================
