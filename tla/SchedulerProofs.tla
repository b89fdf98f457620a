---------------------------- MODULE SchedulerProofs ----------------------------
(***************************************************************************)
(* Proofs about Scheduler, for any interval, any resolution of the wait    *)
(* and any time.  next_tick is never less than one interval further on     *)
(* from tick to tick, and no tick begins before it: that spaces the ticks. *)
(***************************************************************************)
EXTENDS Scheduler, SequenceTheorems, TLAPS

\* n intervals.
LEMMA OneMoreInterval ==
  ASSUME NEW n \in Int PROVE /\ n * Interval \in Int
                             /\ (n + 1) * Interval = n * Interval + Interval
BY SchedulerAssumption

\* How far next_tick is ahead of the i-th tick, in intervals.
Ahead(i, n) == next_tick - starts[i] >= n * Interval

(* Between ticks next_tick is ahead of every tick there was by as many     *)
(* intervals as there are ticks since; during a tick, by one less, and the *)
(* clock has passed it.                                                    *)
SpacingInv ==
  /\ \A i \in DOMAIN starts : starts[i] <= now
  /\ at \notin {"tick", "overrun", "reset"} =>
       \A i \in DOMAIN starts : Ahead(i, Len(starts) - i)
  /\ at = "tick" =>
       /\ next_tick <= now
       /\ \A i \in DOMAIN starts :
            i # Len(starts) => Ahead(i, Len(starts) - i - 1)
  /\ at \in {"overrun", "reset"} =>
       \A i \in DOMAIN starts : i # Len(starts) => Ahead(i, Len(starts) - i)
  /\ at = "reset" => next_tick <= now

\* Only the tick whose test came before the stop is late.
LateTickInv ==
  late_ticks = 0 \/ (late_ticks = 1 /\ stopping /\ at \notin {"compare", "remaining", "call", "wait"})

SchedulerInv == SchedulerTypeOK /\ SpacingInv /\ LateTickInv /\ TicksDoNotBurst

(* Types.                                                                  *)
LEMMA SchedulerTypeStep ==
  ASSUME SchedulerTypeOK, [SchedulerNext]_schedulerVars
  PROVE  SchedulerTypeOK'
<1> USE SchedulerAssumption DEF SchedulerTypeOK, LoopGoto, schedulerVars, loopVars
<1>1. CASE TickIsDue BY <1>1, AppendProperties DEF TickIsDue
<1>2. CASE TickEnds BY <1>2 DEF TickEnds
<1>3. CASE Reset BY <1>3 DEF Reset
<1>4. CASE ComputeRemaining
  <2>1. Truncate(next_tick - now) \in Int
    BY DEF Truncate
  <2> QED BY <1>4, <2>1 DEF ComputeRemaining
<1>5. CASE BeginsWait BY <1>5 DEF BeginsWait
<1>6. CASE TestFlag \/ TickIsNotDue \/ Stalled \/ OnTime \/ WaitEnds
  BY <1>6 DEF TestFlag, TickIsNotDue, Stalled, OnTime, WaitEnds
<1>7. CASE Advance
  BY <1>7 DEF Advance
<1>8. CASE Stop
  BY <1>8 DEF Stop
<1>9. CASE Exited \/ UNCHANGED schedulerVars
  BY <1>9 DEF Exited
<1> HIDE DEF SchedulerTypeOK
<1> QED BY <1>1, <1>2, <1>3, <1>4, <1>5, <1>6, <1>7, <1>8, <1>9 DEF SchedulerNext, LoopStep

(* A tick begins only when next_tick has come, which puts it the right     *)
(* distance from every earlier one.                                        *)
LEMMA SpacingStep ==
  ASSUME SchedulerTypeOK, SpacingInv, TicksDoNotBurst, [SchedulerNext]_schedulerVars
  PROVE  SpacingInv' /\ TicksDoNotBurst'
<1>0. /\ now \in Nat /\ next_tick \in Nat /\ starts \in Seq(Nat)
      /\ Len(starts) \in Nat /\ DOMAIN starts = 1..Len(starts)
      /\ \A i \in DOMAIN starts : i \in Nat /\ starts[i] \in Nat
      /\ Interval \in Nat
  BY SchedulerAssumption, ElementOfSeq DEF SchedulerTypeOK
<1>1. CASE TickIsDue
  <2>1. /\ at = "compare" /\ at' = "tick" /\ UNCHANGED <<now, next_tick>>
        /\ next_tick <= now
        /\ starts' = Append(starts, now)
    BY <1>0, <1>1 DEF TickIsDue, LoopGoto
  <2>2. /\ Len(starts') = Len(starts) + 1
        /\ DOMAIN starts' = 1..(Len(starts) + 1)
        /\ starts'[Len(starts) + 1] = now
        /\ \A i \in DOMAIN starts : starts'[i] = starts[i]
    BY <1>0, <2>1, AppendProperties
  <2>3. \A i \in DOMAIN starts' :
          IF i = Len(starts) + 1 THEN starts'[i] = now
                                 ELSE i \in DOMAIN starts /\ starts'[i] = starts[i]
    BY <1>0, <2>2
  <2>4. \A i \in DOMAIN starts : Ahead(i, Len(starts) - i) /\ starts[i] <= now
    BY <2>1 DEF SpacingInv
  <2>5. \A i \in DOMAIN starts' : starts'[i] <= now'
    BY <1>0, <2>1, <2>3, <2>4
  <2>6. \A i \in DOMAIN starts' : i # Len(starts') => Ahead(i, Len(starts) - i - 1)'
    <3> SUFFICES ASSUME NEW i \in DOMAIN starts', i # Len(starts')
                 PROVE  Ahead(i, Len(starts) - i - 1)'
      OBVIOUS
    <3>1. i \in DOMAIN starts /\ starts'[i] = starts[i]
      BY <2>2, <2>3
    <3>2. Len(starts') - i - 1 = Len(starts) - i
      BY <1>0, <2>2, <3>1
    <3>3. next_tick - starts[i] >= (Len(starts) - i) * Interval
      BY <2>4, <3>1 DEF Ahead
    <3>4. next_tick' - starts'[i] >= (Len(starts') - i - 1) * Interval
      BY <2>1, <3>1, <3>2, <3>3
    <3> QED BY <3>4 DEF Ahead
  <2>7. SpacingInv'
    BY <1>0, <2>1, <2>5, <2>6 DEF SpacingInv, Ahead
  <2>8. TicksDoNotBurst'
    <3> SUFFICES ASSUME NEW i \in DOMAIN starts', NEW j \in DOMAIN starts', i < j
                 PROVE  starts'[j] - starts'[i] >= (j - i - 1) * Interval
      BY DEF TicksDoNotBurst
    <3>1. i \in DOMAIN starts /\ starts'[i] = starts[i]
      BY <1>0, <2>2, <2>3
    <3>2. CASE j = Len(starts) + 1
      <4>1. j - i - 1 = Len(starts) - i
        BY <1>0, <3>1, <3>2
      <4>2. next_tick - starts[i] >= (j - i - 1) * Interval
        BY <2>4, <3>1, <4>1 DEF Ahead
      <4>3. (j - i - 1) * Interval \in Int
        BY <1>0, <3>1, <3>2, OneMoreInterval
      <4>4. starts'[j] = now /\ starts[i] \in Nat
        BY <1>0, <2>2, <3>1, <3>2
      <4> DEFINE q == (j - i - 1) * Interval
      <4>5. q \in Int /\ next_tick - starts[i] >= q
        BY <4>2, <4>3
      <4> HIDE DEF q
      <4>6. next_tick \in Nat /\ now \in Nat /\ next_tick <= now
        BY <1>0, <2>1
      <4>7. now - starts[i] >= q
        BY <4>4, <4>5, <4>6
      <4> QED BY <3>1, <4>4, <4>7 DEF q
    <3>3. CASE j # Len(starts) + 1
      BY <2>3, <3>1, <3>3 DEF TicksDoNotBurst
    <3> QED BY <3>2, <3>3
  <2> QED BY <2>7, <2>8
<1>2. ASSUME UNCHANGED starts, ~TickIsDue PROVE TicksDoNotBurst'
  BY <1>2 DEF TicksDoNotBurst
<1>3. CASE TickEnds
  <2>1. /\ at = "tick" /\ at' = "overrun" /\ UNCHANGED <<now, starts>>
        /\ next_tick' = next_tick + Interval
    BY <1>3 DEF TickEnds, LoopGoto
  <2>2. ASSUME NEW i \in DOMAIN starts, i # Len(starts) PROVE Ahead(i, Len(starts) - i)'
    <3>1. Ahead(i, Len(starts) - i - 1)
      BY <2>1, <2>2 DEF SpacingInv
    <3>2. /\ (Len(starts) - i - 1) * Interval \in Int
          /\ ((Len(starts) - i - 1) + 1) * Interval = (Len(starts) - i - 1) * Interval + Interval
      BY <1>0, OneMoreInterval
    <3>3. (Len(starts) - i - 1) + 1 = Len(starts) - i
      BY <1>0
    <3> DEFINE p == (Len(starts) - i - 1) * Interval
               q == (Len(starts) - i) * Interval
    <3>4. q = p + Interval /\ p \in Int
      BY <3>2, <3>3
    <3>5. next_tick - starts[i] >= p
      BY <3>1 DEF Ahead
    <3>6. Ahead(i, Len(starts) - i)' <=> next_tick' - starts[i] >= q
      BY <2>1 DEF Ahead
    <3> HIDE DEF p, q
    <3>7. (next_tick + Interval) - starts[i] >= q
      BY <1>0, <3>4, <3>5
    <3> QED BY <2>1, <3>6, <3>7
  <2>3. SpacingInv'
    BY <2>1, <2>2 DEF SpacingInv
  <2> QED BY <1>2, <2>1, <2>3 DEF TicksDoNotBurst
<1>4. CASE OnTime
  <2>1. /\ at = "overrun" /\ at' = "head" /\ UNCHANGED <<now, starts, next_tick>>
        /\ now < next_tick
    BY <1>4 DEF OnTime, LoopGoto
  <2>2. \A i \in DOMAIN starts : Ahead(i, Len(starts) - i)
    <3>1. \A i \in DOMAIN starts : i # Len(starts) => Ahead(i, Len(starts) - i)
      BY <2>1 DEF SpacingInv
    <3>2. \A i \in DOMAIN starts : i = Len(starts) => Ahead(i, Len(starts) - i)
      BY <1>0, <2>1 DEF SpacingInv, Ahead
    <3> QED BY <3>1, <3>2
  <2> QED BY <2>1, <2>2 DEF SpacingInv, Ahead, TicksDoNotBurst
<1>5. CASE Reset
  <2>1. /\ at = "reset" /\ at' = "head" /\ UNCHANGED <<now, starts>> /\ next_tick' = now
    BY <1>5 DEF Reset, LoopGoto
  <2>2. ASSUME NEW i \in DOMAIN starts PROVE Ahead(i, Len(starts) - i)'
    <3>1. CASE i # Len(starts)
      <4>1. Ahead(i, Len(starts) - i) /\ next_tick <= now
        BY <2>1, <3>1 DEF SpacingInv
      <4>2. (Len(starts) - i) * Interval \in Int
        BY <1>0, OneMoreInterval
      <4> DEFINE q == (Len(starts) - i) * Interval
      <4>3. q \in Int /\ next_tick - starts[i] >= q
        BY <4>1, <4>2 DEF Ahead
      <4>4. Ahead(i, Len(starts) - i)' <=> next_tick' - starts[i] >= q
        BY <2>1 DEF Ahead
      <4> HIDE DEF q
      <4>5. now - starts[i] >= q
        BY <1>0, <4>1, <4>3
      <4> QED BY <2>1, <4>4, <4>5
    <3>2. CASE i = Len(starts)
      BY <1>0, <2>1, <3>2 DEF SpacingInv, Ahead
    <3> QED BY <3>1, <3>2
  <2> QED BY <2>1, <2>2 DEF SpacingInv, TicksDoNotBurst
<1>6. CASE Stalled
  <2>1. /\ at = "overrun" /\ at' = "reset" /\ UNCHANGED <<now, starts, next_tick>>
        /\ next_tick <= now
    BY <1>0, <1>6 DEF Stalled, LoopGoto
  <2> QED BY <2>1 DEF SpacingInv, Ahead, TicksDoNotBurst
<1>7. CASE TestFlag \/ TickIsNotDue \/ ComputeRemaining \/ BeginsWait \/ WaitEnds
  <2>1. /\ UNCHANGED <<now, starts, next_tick>>
        /\ at \notin {"tick", "overrun", "reset"} /\ at' \notin {"tick", "overrun", "reset"}
    BY <1>7 DEF TestFlag, TickIsNotDue, ComputeRemaining, BeginsWait, WaitEnds, LoopGoto
  <2> QED BY <2>1 DEF SpacingInv, Ahead, TicksDoNotBurst
<1>8. CASE Advance \/ Stop \/ Exited \/ UNCHANGED schedulerVars
  <2>1. UNCHANGED <<starts, next_tick, at>> /\ now' \in {now, now + 1}
    BY <1>8 DEF Advance, Stop, Exited, schedulerVars, loopVars
  <2>2. \A m \in Nat : m <= now => m <= now'
    BY <1>0, <2>1
  <2> QED BY <1>0, <2>1, <2>2 DEF SpacingInv, Ahead, TicksDoNotBurst
<1> QED BY <1>1, <1>3, <1>4, <1>5, <1>6, <1>7, <1>8 DEF SchedulerNext, LoopStep

(* After the late tick the loop only finds its way to the exit.            *)
LEMMA LateTickStep ==
  ASSUME SchedulerTypeOK, LateTickInv, [SchedulerNext]_schedulerVars
  PROVE  LateTickInv'
BY DEF SchedulerTypeOK, LateTickInv, SchedulerNext, LoopStep, LoopGoto, schedulerVars, loopVars,
       TestFlag, TickIsDue, TickIsNotDue, TickEnds, Stalled, OnTime, Reset,
       ComputeRemaining, BeginsWait, WaitEnds, Advance, Stop, Exited

(* The inductive invariant of the loop holds.                              *)
THEOREM SchedulerInvariant == SchedulerSpec => []SchedulerInv
<1>1. SchedulerInit => SchedulerInv
  <2> SUFFICES ASSUME SchedulerInit PROVE SchedulerInv
    OBVIOUS
  <2>1. starts = <<>> /\ DOMAIN starts = {}
    BY DEF SchedulerInit
  <2>2. SpacingInv /\ TicksDoNotBurst
    BY <2>1 DEF SchedulerInit, SpacingInv, TicksDoNotBurst
  <2>3. SchedulerTypeOK
    <3>1. starts \in Seq(Nat)
      BY <2>1, EmptySeq
    <3>2. now \in Nat /\ next_tick \in Nat /\ remaining \in Int /\ deadline \in Int
          /\ late_ticks \in Nat
      BY DEF SchedulerInit
    <3>3. at = "head" /\ stopping \in BOOLEAN
      BY DEF SchedulerInit
    <3> QED BY <3>1, <3>2, <3>3 DEF SchedulerTypeOK
  <2>4. LateTickInv
    BY DEF SchedulerInit, LateTickInv
  <2> QED BY <2>2, <2>3, <2>4 DEF SchedulerInv
<1>2. SchedulerInv /\ [SchedulerNext]_schedulerVars => SchedulerInv'
  BY SchedulerTypeStep, SpacingStep, LateTickStep DEF SchedulerInv
<1> QED BY <1>1, <1>2, PTL DEF SchedulerSpec

(* The loop's state stays well typed.                                      *)
THEOREM SchedulerTypeCorrect == SchedulerSpec => []SchedulerTypeOK
<1>1. SchedulerInv => SchedulerTypeOK
  BY DEF SchedulerInv
<1> QED BY <1>1, SchedulerInvariant, PTL

(* No burst of ticks, for any interval and however long ticks take         *)
(* (main.cpp:162-172).                                                     *)
THEOREM NoBurst == SchedulerSpec => []TicksDoNotBurst
<1>1. SchedulerInv => TicksDoNotBurst
  BY DEF SchedulerInv
<1> QED BY <1>1, SchedulerInvariant, PTL

(* A stop lets one more tick begin, at most (main.cpp:163-165).            *)
THEOREM LoopStopsPromptly == SchedulerSpec => []AtMostOneLateTick
<1>1. SchedulerInv => AtMostOneLateTick
  BY DEF SchedulerInv, LateTickInv, AtMostOneLateTick
<1> QED BY <1>1, SchedulerInvariant, PTL

LEMMA DivRoundsDown ==
  ASSUME NEW d \in Nat, NEW m \in Nat \ {0}, NEW q, q = d \div m
  PROVE  q \in Int /\ q * m \in Int /\ q * m <= d
BY Z3

\* The wait handed on is no longer than the one computed, or none at all.
LEMMA TruncateRoundsDown ==
  ASSUME NEW d \in Int, d <= Interval
  PROVE  Truncate(d) \in Int /\ Truncate(d) <= Interval
<1>1. CASE d >= 0
  <2> DEFINE q == d \div Milli
  <2>1. q \in Int /\ q * Milli \in Int /\ q * Milli <= d
    BY <1>1, DivRoundsDown, SchedulerAssumption
  <2>2. Truncate(d) = q * Milli
    BY <1>1 DEF Truncate
  <2> HIDE DEF q
  <2> QED BY <2>1, <2>2, SchedulerAssumption
<1>2. CASE d < 0
  <2> DEFINE q == (-d) \div Milli
  <2>1. -d \in Nat
    BY <1>2
  <2>2. q \in Nat /\ q * Milli \in Nat
    BY <2>1, SchedulerAssumption
  <2>3. Truncate(d) = -(q * Milli)
    BY <1>2 DEF Truncate
  <2> QED BY <2>2, <2>3, SchedulerAssumption
<1> QED BY <1>1, <1>2

\* Between ticks the next one is due, or no more than an interval from the
\* beginning of the last.
Near == starts # <<>> /\ next_tick <= starts[Len(starts)] + Interval
NearInv ==
  /\ at \in {"head", "compare"} => next_tick <= now \/ Near
  /\ at = "tick" => starts # <<>> /\ next_tick <= starts[Len(starts)]
  /\ at \in {"overrun", "remaining", "call", "wait"} => Near
  /\ at = "reset" => next_tick <= now
  /\ at = "call" => remaining <= Interval
  /\ at = "wait" => deadline <= now + Interval

LEMMA NearStep ==
  ASSUME SchedulerInv, NearInv, [SchedulerNext]_schedulerVars
  PROVE  NearInv'
<1>0. /\ now \in Nat /\ next_tick \in Nat /\ Interval \in Nat
      /\ remaining \in Int /\ deadline \in Int
      /\ starts # <<>> => starts[Len(starts)] \in Nat /\ starts[Len(starts)] <= now
  <2>1. starts \in Seq(Nat) /\ \A i \in DOMAIN starts : starts[i] <= now
    BY DEF SchedulerInv, SchedulerTypeOK, SpacingInv
  <2>2. starts # <<>> => Len(starts) \in DOMAIN starts
    BY <2>1, EmptySeq, LenProperties
  <2> QED BY <2>1, <2>2, SchedulerAssumption, ElementOfSeq DEF SchedulerInv, SchedulerTypeOK
<1>1. CASE TickIsDue
  <2>1. /\ at' = "tick" /\ next_tick' = next_tick /\ next_tick <= now
        /\ starts' = Append(starts, now) /\ starts \in Seq(Nat)
    BY <1>0, <1>1 DEF TickIsDue, LoopGoto, SchedulerInv, SchedulerTypeOK
  <2>2. starts' # <<>> /\ starts'[Len(starts')] = now
    BY <1>0, <2>1, AppendProperties
  <2> QED BY <2>1, <2>2 DEF NearInv
<1>2. CASE TickEnds
  <2>1. /\ at = "tick" /\ at' = "overrun" /\ next_tick' = next_tick + Interval
        /\ starts' = starts
    BY <1>2 DEF TickEnds, LoopGoto
  <2>2. Near'
    BY <1>0, <2>1 DEF NearInv, Near
  <2> QED BY <2>1, <2>2 DEF NearInv
<1>3. CASE ComputeRemaining
  <2>1. /\ at = "remaining" /\ at' = "call" /\ UNCHANGED <<starts, next_tick>>
        /\ remaining' = Truncate(next_tick - now)
    BY <1>3 DEF ComputeRemaining, LoopGoto
  <2>2. Near
    BY <2>1 DEF NearInv
  <2>3. next_tick - now \in Int /\ next_tick - now <= Interval
    BY <1>0, <2>2 DEF Near
  <2>4. remaining' <= Interval
    BY <2>1, <2>3, TruncateRoundsDown
  <2>5. Near'
    BY <2>1, <2>2 DEF Near
  <2> QED BY <2>1, <2>4, <2>5 DEF NearInv
<1>4. CASE BeginsWait
  <2>1. /\ at = "call" /\ at' = "wait" /\ UNCHANGED <<starts, next_tick, now>>
        /\ deadline' = now + remaining
    BY <1>4 DEF BeginsWait, LoopGoto
  <2>2. deadline' <= now' + Interval
    BY <1>0, <2>1 DEF NearInv
  <2> QED BY <2>1, <2>2 DEF NearInv, Near
<1>5. CASE TestFlag \/ TickIsNotDue \/ OnTime \/ WaitEnds
  <2>1. /\ at \in {"head", "compare", "overrun", "wait"}
        /\ at' \in {"head", "compare", "remaining", "exit"}
        /\ at' = "remaining" => now < next_tick
        /\ at' = "remaining" => at = "compare"
        /\ UNCHANGED <<now, starts, next_tick>>
    BY <1>5 DEF TestFlag, TickIsNotDue, OnTime, WaitEnds, LoopGoto
  <2>2. next_tick <= now \/ Near
    BY <2>1 DEF NearInv
  <2>3. (next_tick <= now)' \/ Near'
    BY <2>1, <2>2 DEF Near
  <2>4. at' = "remaining" => Near'
    BY <1>0, <2>1, <2>2 DEF Near
  <2> QED
    BY <2>1, <2>3, <2>4 DEF NearInv
<1>6. CASE Stalled
  BY <1>0, <1>6 DEF NearInv, Stalled, LoopGoto
<1>7. CASE Reset
  <2>1. at' = "head" /\ next_tick' = now /\ now' = now
    BY <1>7 DEF Reset, LoopGoto
  <2> QED BY <1>0, <2>1 DEF NearInv
<1>8. CASE Advance \/ Stop \/ Exited \/ UNCHANGED schedulerVars
  <2>1. UNCHANGED <<starts, next_tick, at, remaining, deadline>> /\ now' \in {now, now + 1}
    BY <1>8 DEF Advance, Stop, Exited, schedulerVars, loopVars
  <2>2. Near' = Near /\ (next_tick <= now => next_tick' <= now')
    BY <1>0, <2>1 DEF Near
  <2>3. deadline <= now + Interval => deadline' <= now' + Interval
    <3>1. \A t, n, k, i \in Int : k \in {n, n + 1} /\ t <= n + i => t <= k + i
      OBVIOUS
    <3>2. deadline' = deadline /\ now' \in {now, now + 1} /\ now' \in Int
      BY <1>0, <2>1
    <3>3. now \in Int /\ deadline \in Int /\ Interval \in Int
      BY <1>0
    <3> QED
      BY <3>1, <3>2, <3>3
  <2>4. at = "tick" => starts' # <<>> /\ next_tick' <= starts'[Len(starts')]
    BY <2>1 DEF NearInv
  <2> QED BY <2>1, <2>2, <2>3, <2>4 DEF NearInv
<1> QED BY <1>1, <1>2, <1>3, <1>4, <1>5, <1>6, <1>7, <1>8 DEF SchedulerNext, LoopStep

\* The loop waits for a tick due within an interval of the last one's
\* beginning, and within an interval from now.
NeverOversleeps ==
  at = "wait" => Near /\ deadline <= now + Interval

(* The loop never puts a tick off: whenever it sleeps, the next tick is    *)
(* due an interval after the last one began, at the latest, and no sleep   *)
(* is longer than an interval, through any stalls and resets               *)
(* (main.cpp:162-176).                                                     *)
THEOREM SleepsAreShort == SchedulerSpec => []NeverOversleeps
<1>1. SchedulerInit => NearInv
  BY DEF SchedulerInit, NearInv
<1>2. SchedulerInv /\ NearInv /\ [SchedulerNext]_schedulerVars => NearInv'
  BY NearStep
<1>3. NearInv => NeverOversleeps
  BY DEF NearInv, NeverOversleeps
<1> QED BY <1>1, <1>2, <1>3, SchedulerInvariant, PTL DEF SchedulerSpec
=============================================================================
