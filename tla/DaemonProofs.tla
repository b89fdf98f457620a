----------------------------- MODULE DaemonProofs -----------------------------
(***************************************************************************)
(* Proofs about the composed process.  Every step of the daemon is a step  *)
(* of the engine or a stutter, so what is proved of EngineSpec holds of    *)
(* the daemon; and the orderly end of the process is proved with an        *)
(* invariant that follows the one request() the listener makes.            *)
(***************************************************************************)
EXTENDS Daemon, ShutdownStateProofs, ChaosEngineProofs, TLAPS

----------------------------------------------------------------------------
(* The daemon runs the engine *)

(* Step by step: main's and the listener's own steps stutter.              *)
LEMMA DaemonStepIsEngineStep ==
  ASSUME [DaemonNext]_vars
  PROVE  [EngineNext]_<<shutdownVars, allEngineVars>>
<1> USE DEF MainGoto
<1>1. CASE MainStep
  <2>1. CASE LoopWait
    BY <2>1, DaemonAssumption DEF LoopWait, EngineNext, ShutdownNext
  <2>2. CASE RunOnce \/ LoopTick
    BY <2>2 DEF RunOnce, LoopTick, EngineNext
  <2>3. CASE ~(LoopWait \/ RunOnce \/ LoopTick)
    BY <1>1, <2>3
    DEF MainStep, Ping, OnceDone, spawn_signal_listener, TickDone, LoopExit, Report,
        WakeListener, JoinListener, Exit
  <2> QED BY <2>1, <2>2, <2>3
<1>2. CASE ListenerStep
  <2>1. CASE request_signal
    BY <2>1, DaemonAssumption DEF request_signal, EngineNext, ShutdownNext
  <2>2. CASE ~request_signal
    BY <1>2, <2>2 DEF ListenerStep, TakeSignal, ListenerEnds
  <2> QED BY <2>1, <2>2
<1>3. CASE InEngine \/ InDocker
  BY <1>3 DEF InEngine, InDocker, EngineNext
<1>4. CASE InRequest \/ InWait \/ WakeMain
  BY <1>4, DaemonAssumption DEF InRequest, InWait, WakeMain, EngineNext, ShutdownNext
<1>5. CASE \E s \in Signals : Deliver(s)
  BY <1>5 DEF Deliver
<1>6. CASE Terminated \/ UNCHANGED vars
  BY <1>6 DEF Terminated, vars
<1> QED BY <1>1, <1>2, <1>3, <1>4, <1>5, <1>6 DEF DaemonNext

(* main() and the listener drive the engine and the shutdown state only    *)
(* through their operations, so the daemon is an engine: what is proved    *)
(* of EngineSpec -- budgets, order, isolation -- holds of the process.     *)
THEOREM DaemonRunsEngine == DaemonSpec => EngineSpec
<1>1. DaemonInit => EngineInit
  BY DEF DaemonInit
<1>2. [DaemonNext]_vars => [EngineNext]_<<shutdownVars, allEngineVars>>
  BY DaemonStepIsEngineStep
<1> QED BY <1>1, <1>2, PTL DEF DaemonSpec, EngineSpec

----------------------------------------------------------------------------
(* The end of the process *)

\* Whoever has left its loop, with a listener running, saw the flag up.
Leaving == {"report", "wake", "join", "final", "exited"}

\* How far the listener's one request() has come.
RequestInv ==
  /\ listener \in {"none", "sigwait", "request"} => call[Listener] = "out" /\ ~state_
  /\ call[Listener] \in {"lock", "exchange"} => ~state_
  /\ listener \in {"return", "done"} => cause[Listener] = "Signal"
  /\ listener \in {"return", "done"} /\ call[Listener] \in {"out", "unlock", "notify"} =>
       reason_ = "Signal"
  /\ listener = "done" => call[Listener] = "out"

\* What main() can rely on as it leaves.
LeaveInv ==
  /\ main \in {"ping", "warned", "only_tick"} => listener = "none"
  /\ listener \in {"request", "return", "done"} => g_signal_received \in Signals
  /\ listener # "none" /\ main \in Leaving => state_
  /\ listener # "none" /\ main \in Leaving \ {"report"} => signalled \in Signals
  /\ main \in {"final", "exited"} => listener \in {"none", "done"}
  /\ listener # "none" /\ main = "exited" => final_reason = "Signal"

DaemonInv == DaemonTypeOK /\ ShutdownTypeOK /\ RequestInv /\ LeaveInv

\* The listener is not main.
LEMMA TwoThreads ==
  /\ Main # Listener /\ Threads = {Main, Listener}
  /\ Listener \in Requesters /\ Main \in Waiters
BY ThreadsAssumption, DaemonAssumption DEF Threads

(* What main does inside wait_for_stop() is nothing to the listener.       *)
LEMMA WaitingIsHarmless ==
  ASSUME ShutdownTypeOK, WaitStep(Main) \/ Wakeup(Main) \/ BeginWait(Main)
  PROVE  UNCHANGED <<state_, reason_, cause>> /\ call'[Listener] = call[Listener]
BY TwoThreads
DEF ShutdownTypeOK, WaitStep, Wakeup, BeginWait, LockWait, TestPredicate, Block,
    RelockWoken, RelockTimedOut, UnlockWait, Timeout, SpuriousWake, Goto

(* Nothing but the operations of the shutdown state changes it.            *)
LEMMA DaemonStepIsShutdownStep ==
  ASSUME [DaemonNext]_vars
  PROVE  [ShutdownNext]_shutdownVars
BY DaemonStepIsEngineStep DEF EngineNext

(* What is proved of ShutdownSpec holds of the process.                    *)
THEOREM DaemonRunsShutdown == DaemonSpec => ShutdownSpec
<1>1. DaemonInit => ShutdownInit
  BY DEF DaemonInit, EngineInit
<1>2. [DaemonNext]_vars => [ShutdownNext]_shutdownVars
  BY DaemonStepIsShutdownStep
<1> QED BY <1>1, <1>2, PTL DEF DaemonSpec, ShutdownSpec

(* The process starts in the invariant.                                    *)
LEMMA DaemonInvInit == DaemonInit => DaemonInv
<1> SUFFICES ASSUME DaemonInit PROVE DaemonInv
  OBVIOUS
<1>1. ShutdownInit
  BY DEF DaemonInit, EngineInit
<1>2. ShutdownTypeOK
  BY <1>1, ShutdownInvInit DEF ShutdownInv
<1>3. DaemonTypeOK
  BY DEF DaemonInit, DaemonTypeOK, StopReason
<1>4. RequestInv /\ LeaveInv
  BY <1>1, TwoThreads DEF DaemonInit, RequestInv, LeaveInv, ShutdownInit, Leaving
<1> QED BY <1>2, <1>3, <1>4 DEF DaemonInv

(* Every step of a thread, a signal or the Docker Engine keeps it.         *)
LEMMA DaemonInvStep ==
  ASSUME DaemonInv, [DaemonNext]_vars
  PROVE  DaemonInv'
<1>1. ShutdownTypeOK /\ ShutdownTypeOK'
  BY DaemonStepIsShutdownStep, ShutdownTypeStep DEF DaemonInv
<1>2. reason_ \in StopReason
  BY <1>1 DEF ShutdownTypeOK
<1> USE DEF MainGoto, DaemonTypeOK, RequestInv, LeaveInv, Leaving, Signals, AtLoopHead
<1>3. CASE MainStep
  <2> USE <1>1 DEF DaemonInv, shutdownVars
  <2>1. CASE Ping BY <2>1 DEF Ping
  <2>2. CASE RunOnce BY <2>2 DEF RunOnce
  <2>3. CASE OnceDone BY <2>3 DEF OnceDone
  <2>4. CASE spawn_signal_listener BY <2>4 DEF spawn_signal_listener
  <2>5. CASE LoopTick BY <2>5 DEF LoopTick
  <2>6. CASE TickDone BY <2>6 DEF TickDone
  <2>7. CASE LoopWait
    BY <2>7, WaitingIsHarmless DEF LoopWait, daemonVars
  <2>8. CASE LoopExit BY <2>8 DEF LoopExit
  <2>9. CASE Report BY <2>9 DEF Report
  <2>10. CASE WakeListener BY <2>10 DEF WakeListener
  <2>11. CASE JoinListener BY <2>11 DEF JoinListener
  <2>12. CASE Exit BY <1>2, <2>12 DEF Exit
  <2> HIDE DEF DaemonInv
  <2> QED
    BY <1>3, <2>1, <2>2, <2>3, <2>4, <2>5, <2>6, <2>7, <2>8, <2>9, <2>10, <2>11, <2>12
    DEF MainStep
<1>4. CASE ListenerStep
  <2> USE <1>1 DEF DaemonInv, shutdownVars
  <2>1. ASSUME NEW s \in Signals, TakeSignal(s) PROVE DaemonInv'
    BY <2>1 DEF TakeSignal
  <2>2. CASE request_signal
    <3>1. /\ UNCHANGED <<state_, reason_>> /\ call'[Listener] = "lock"
          /\ cause'[Listener] = "Signal"
      BY <2>2, TwoThreads DEF request_signal, BeginRequest, Goto, ShutdownTypeOK
    <3> QED BY <2>2, <3>1 DEF request_signal
  <2>3. CASE ListenerEnds BY <2>3 DEF ListenerEnds
  <2> HIDE DEF DaemonInv
  <2> QED BY <1>4, <2>1, <2>2, <2>3 DEF ListenerStep
<1>5. CASE InRequest
  <2>1. /\ UNCHANGED daemonVars /\ call[Listener] \in {"lock", "exchange", "store", "unlock", "notify"}
        /\ cause' = cause /\ listener = "return"
    BY <1>1, <1>5
    DEF DaemonInv, InRequest, RequestStep, LockRequest, Exchange, StoreReason, UnlockRequest,
        NotifyAll, Goto
  <2>2. CASE LockRequest(Listener)
    BY <1>1, <2>1, <2>2, TwoThreads DEF DaemonInv, LockRequest, Goto, ShutdownTypeOK, daemonVars
  <2>3. CASE Exchange(Listener)
    BY <1>1, <2>1, <2>3, TwoThreads DEF DaemonInv, Exchange, Goto, ShutdownTypeOK, daemonVars
  <2>4. CASE StoreReason(Listener)
    BY <1>1, <2>1, <2>4, TwoThreads DEF DaemonInv, StoreReason, Goto, ShutdownTypeOK, daemonVars
  <2>5. CASE UnlockRequest(Listener)
    BY <1>1, <2>1, <2>5, TwoThreads DEF DaemonInv, UnlockRequest, Goto, ShutdownTypeOK, daemonVars
  <2>6. CASE NotifyAll(Listener)
    BY <1>1, <2>1, <2>6, TwoThreads DEF DaemonInv, NotifyAll, Goto, ShutdownTypeOK, daemonVars
  <2> QED BY <1>5, <2>2, <2>3, <2>4, <2>5, <2>6 DEF InRequest, RequestStep
<1>6. CASE InWait \/ WakeMain
  <2>1. UNCHANGED <<state_, reason_, cause>> /\ call'[Listener] = call[Listener]
    BY <1>1, <1>6, WaitingIsHarmless DEF InWait, WakeMain
  <2> QED BY <1>1, <1>6, <2>1 DEF DaemonInv, InWait, WakeMain, daemonVars
<1>7. CASE \E s \in Signals : Deliver(s)
  <2> USE <1>1 DEF DaemonInv, shutdownVars
  <2>1. ASSUME NEW s \in Signals, Deliver(s) PROVE DaemonInv'
    BY <2>1 DEF Deliver
  <2> QED BY <1>7, <2>1
<1>8. CASE InEngine \/ InDocker \/ Terminated \/ UNCHANGED vars
  <2>1. UNCHANGED <<shutdownVars, daemonVars>>
    BY <1>8 DEF InEngine, InDocker, Terminated, vars
  <2> QED BY <1>1, <2>1 DEF DaemonInv, shutdownVars, daemonVars
<1> HIDE DEF DaemonInv
<1> QED BY <1>3, <1>4, <1>5, <1>6, <1>7, <1>8 DEF DaemonNext

(* The listener's progress and main's leaving stay in step.                *)
THEOREM DaemonInvariant == DaemonSpec => []DaemonInv
<1>1. DaemonInv /\ [DaemonNext]_vars => DaemonInv'
  BY DaemonInvStep
<1> QED BY <1>1, DaemonInvInit, PTL DEF DaemonSpec

(* The process's own state stays well typed.                               *)
THEOREM DaemonTypeCorrect == DaemonSpec => []DaemonTypeOK
<1>1. DaemonInv => DaemonTypeOK
  BY DEF DaemonInv
<1> QED BY <1>1, DaemonInvariant, PTL

(* The exit report names a signal that arrived and the reason it gave      *)
(* (main.cpp:85-91, 338-351).                                              *)
THEOREM ExitReportHolds == DaemonSpec => []ExitReportIsRight
<1>1. DaemonInv => ExitReportIsRight
  BY DEF DaemonInv, LeaveInv, Leaving, ExitReportIsRight
<1> QED BY <1>1, DaemonInvariant, PTL

(* The listener has left the shutdown state for good when main tears it    *)
(* down (main.cpp:62-64, 344).                                             *)
THEOREM TeardownIsSafe == DaemonSpec => []NobodyInsideAtTeardown
<1>1. DaemonInv => NobodyInsideAtTeardown
  BY DEF DaemonInv, RequestInv, LeaveInv, NobodyInsideAtTeardown
<1> QED BY <1>1, DaemonInvariant, PTL

(* The whole process respects the limits its engine was given, whatever    *)
(* signals arrive and whatever the Docker Engine does.                     *)
THEOREM DaemonKeepsItsLimits ==
  DaemonSpec => [](/\ StrikesWithinRunBudget /\ PostsWithinCycleCap
                   /\ HarmlessModesSendNothing /\ AtMostOneLateStrike
                   /\ TakedownsAreReported /\ DownsWithinCapAndErrors)
BY DaemonRunsEngine, RunBudgetHolds, CycleCapHolds, HarmlessModesAreHarmless,
   StopIsPrompt, ReportIsHonest, BlastRadiusWithErrors, PTL

=============================================================================
