------------------------------ MODULE Scheduler ------------------------------
(***************************************************************************)
(* The timing of run_until_shutdown (main.cpp): when ticks begin, how long *)
(* the loop sleeps, and what it does after a stall.  Every reading of the  *)
(* steady clock is a step of its own, and time may pass between any two.   *)
(* Daemon leaves time out; here the tick is a stay at "tick" and           *)
(* wait_for_stop() a stay at "wait" that a stop ends.                      *)
(*                                                                         *)
(* A unit of time is finer than a millisecond: the loop hands whole        *)
(* milliseconds to wait_for_stop().                                        *)
(***************************************************************************)
EXTENDS Integers, Sequences

CONSTANTS Interval,  \* interval_seconds, in units
          Milli,     \* units in a millisecond
          MaxTime    \* bound: when the clock of the model stops

ASSUME SchedulerAssumption ==
  /\ Interval \in Nat \ {0} /\ Milli \in Nat \ {0} /\ MaxTime \in Nat

VARIABLES
  now,        \* the steady clock
  next_tick,
  at,         \* where the loop is
  remaining,  \* milliseconds to wait, in units
  deadline,   \* when the wait times out
  stopping,   \* the stop flag
  starts,     \* history: when the ticks began
  late_ticks  \* history: ticks begun with the flag up

loopVars == <<next_tick, at, remaining, deadline, starts, late_ticks>>
schedulerVars == <<now, stopping, loopVars>>

SchedulerInit ==
  /\ now = 0 /\ next_tick = 0
  /\ at = "head"
  /\ remaining = 0 /\ deadline = 0
  /\ stopping = FALSE
  /\ starts = <<>> /\ late_ticks = 0

LoopGoto(from, to) == at = from /\ at' = to

\* Mutant: the flag ends a wait, but not the loop.
TestFlag_Never ==
  /\ LoopGoto("head", "compare")
  /\ UNCHANGED <<now, stopping, next_tick, remaining, deadline, starts, late_ticks>>

TestFlag ==
  /\ LoopGoto("head", IF stopping THEN "exit" ELSE "compare")
  /\ UNCHANGED <<now, stopping, next_tick, remaining, deadline, starts, late_ticks>>

TickIsDue ==
  /\ LoopGoto("compare", "tick")
  /\ now >= next_tick
  /\ starts' = Append(starts, now)
  /\ late_ticks' = IF stopping THEN late_ticks + 1 ELSE late_ticks
  /\ UNCHANGED <<now, stopping, next_tick, remaining, deadline>>

TickIsNotDue ==
  /\ LoopGoto("compare", "remaining")
  /\ now < next_tick
  /\ UNCHANGED <<now, stopping, next_tick, remaining, deadline, starts, late_ticks>>

\* Mutant: the interval is subtracted.
TickEnds_Forgets ==
  /\ LoopGoto("tick", "overrun")
  /\ next_tick' = next_tick - Interval
  /\ UNCHANGED <<now, stopping, remaining, deadline, starts, late_ticks>>

TickEnds ==
  /\ LoopGoto("tick", "overrun")
  /\ next_tick' = next_tick + Interval
  /\ UNCHANGED <<now, stopping, remaining, deadline, starts, late_ticks>>

\* Mutant: the loop never gives up ticks it has missed.
Stalled_Bursts ==
  /\ LoopGoto("overrun", "head")
  /\ now >= next_tick
  /\ UNCHANGED <<now, stopping, next_tick, remaining, deadline, starts, late_ticks>>

\* A tick that overran its interval forfeits the ones it covered.
Stalled ==
  /\ LoopGoto("overrun", "reset")
  /\ now >= next_tick
  /\ UNCHANGED <<now, stopping, next_tick, remaining, deadline, starts, late_ticks>>

OnTime ==
  /\ LoopGoto("overrun", "head")
  /\ now < next_tick
  /\ UNCHANGED <<now, stopping, next_tick, remaining, deadline, starts, late_ticks>>

Reset ==
  /\ LoopGoto("reset", "head")
  /\ next_tick' = now
  /\ UNCHANGED <<now, stopping, remaining, deadline, starts, late_ticks>>

\* duration_cast drops the fraction of a millisecond, towards zero.
Truncate(d) == IF d >= 0 THEN (d \div Milli) * Milli ELSE -(((-d) \div Milli) * Milli)

ComputeRemaining ==
  /\ LoopGoto("remaining", "call")
  /\ remaining' = Truncate(next_tick - now)
  /\ UNCHANGED <<now, stopping, next_tick, deadline, starts, late_ticks>>

\* wait_for_stop() sets its own deadline when it gets to it.
BeginsWait ==
  /\ LoopGoto("call", "wait")
  /\ deadline' = now + remaining
  /\ UNCHANGED <<now, stopping, next_tick, remaining, starts, late_ticks>>

\* Mutant: the wait has no timeout.
WaitEnds_OnStop ==
  /\ LoopGoto("wait", "head")
  /\ stopping
  /\ UNCHANGED <<now, stopping, next_tick, remaining, deadline, starts, late_ticks>>

WaitEnds ==
  /\ LoopGoto("wait", "head")
  /\ stopping \/ now >= deadline
  /\ remaining' = 0 /\ deadline' = 0  \* locals of this turn of the loop
  /\ UNCHANGED <<now, stopping, next_tick, starts, late_ticks>>

LoopStep ==
  \/ TestFlag \/ TickIsDue \/ TickIsNotDue \/ TickEnds \/ Stalled \/ OnTime \/ Reset
  \/ ComputeRemaining \/ BeginsWait \/ WaitEnds

Advance == now < MaxTime /\ now' = now + 1 /\ UNCHANGED <<stopping, loopVars>>
Stop    == ~stopping /\ stopping' = TRUE /\ UNCHANGED <<now, loopVars>>
Exited  == at = "exit" /\ UNCHANGED schedulerVars

SchedulerNext == LoopStep \/ Advance \/ Stop \/ Exited
SchedulerSpec == SchedulerInit /\ [][SchedulerNext]_schedulerVars
(* The thread runs, a tick comes to an end, and the clock goes on.         *)
FairSchedulerSpec ==
  SchedulerSpec /\ WF_schedulerVars(LoopStep) /\ WF_schedulerVars(Advance)

----------------------------------------------------------------------------
(* Properties *)

SchedulerTypeOK ==
  /\ now \in Nat /\ next_tick \in Nat
  /\ at \in {"head", "compare", "tick", "overrun", "reset", "remaining", "call",
             "wait", "exit"}
  /\ remaining \in Int /\ deadline \in Int
  /\ stopping \in BOOLEAN
  /\ starts \in Seq(Nat) /\ late_ticks \in Nat

(* However long ticks and sleeps take, ticks never come in a burst: among  *)
(* any n + 1 consecutive ticks, n - 1 intervals have passed ("reset rather *)
(* than burst", main.cpp:167-170).  Two in a row may be back to back, the  *)
(* first delayed and the second on the grid or after a reset; three not.   *)
TicksDoNotBurst ==
  \A i, j \in DOMAIN starts :
    i < j => starts[j] - starts[i] >= (j - i - 1) * Interval

(* A stop request lets at most one more tick begin, the one whose test of  *)
(* the flag came before it; that tick returns at its first guard.          *)
AtMostOneLateTick == late_ticks <= 1

(* The loop never sleeps for good: a wait that nobody ends, even one cut   *)
(* to zero milliseconds just before the tick is due, leads to the tick     *)
(* (main.cpp:173-175) -- while there is time left in the model for it.     *)
NextTickComes ==
  at = "wait" /\ next_tick <= MaxTime ~> at = "tick" \/ stopping \/ deadline > MaxTime
=============================================================================
