----------------------------- MODULE StopLatch -----------------------------
(***************************************************************************)
(* What include/forger/shutdown.hpp promises: one request stops the        *)
(* process, in a single step that also fixes the reason, and nothing       *)
(* afterwards changes either.  ShutdownState implements this latch with a  *)
(* mutex, two atomics and a condition variable.                            *)
(***************************************************************************)
CONSTANTS Reasons,      \* the reasons a caller of request() may give
          NotRequested  \* the reason of a process that is running normally

VARIABLES stopped, reason

LatchInit == stopped = FALSE /\ reason = NotRequested

Request(r) ==
  /\ ~stopped
  /\ stopped' = TRUE
  /\ reason' = r

LatchNext == \E r \in Reasons : Request(r)

LatchSpec == LatchInit /\ [][LatchNext]_<<stopped, reason>>
=============================================================================
