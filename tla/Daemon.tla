------------------------------- MODULE Daemon -------------------------------
(***************************************************************************)
(* The process around the engine (main.cpp): the main thread with its      *)
(* scheduler loop, the signal listener thread, the signals that arrive,    *)
(* and the shutdown sequence.  It composes ChaosEngine (whose tick the     *)
(* loop calls) with ShutdownState (on which the loop waits and which the   *)
(* listener triggers).                                                     *)
(*                                                                         *)
(* The model starts after install_signal_handlers(): SIGINT and SIGTERM    *)
(* are blocked in every thread and stay pending until sigwait() takes one. *)
(* Whether the clock has reached next_tick is a choice here.               *)
(***************************************************************************)
EXTENDS ChaosEngine

CONSTANTS Main, Listener,  \* the two threads
          Modes            \* "daemon", "once": how the process may be started

ASSUME DaemonAssumption ==
  Waiters = {Main} /\ Requesters = {Listener} /\ "Signal" \in Causes

Signals == {"SIGINT", "SIGTERM"}

VARIABLES
  mode,               \* once || discover_flag, or the daemon
  main,               \* where the main thread is in main()
  listener,           \* where the listener thread is
  pending,            \* the process's pending signals
  g_signal_received,
  signalled,          \* main's copy of it, for the log
  final_reason        \* the reason main reports

daemonVars == <<mode, main, listener, pending, g_signal_received, signalled, final_reason>>
vars == <<shutdownVars, allEngineVars, daemonVars>>

DaemonInit ==
  /\ EngineInit
  /\ mode \in Modes
  /\ main = "ping" /\ listener = "none"
  /\ pending = {}
  /\ g_signal_received = "none" /\ signalled = "none"
  /\ final_reason = "NotRequested"

MainGoto(from, to) == main = from /\ main' = to

----------------------------------------------------------------------------
(* The main thread *)

Ping ==
  /\ main = "ping"
  /\ main' \in {"warned", "exited"}  \* the Engine answers, or main returns 1
  /\ UNCHANGED <<shutdownVars, allEngineVars, mode, listener, pending,
                 g_signal_received, signalled, final_reason>>

\* --once and --discover: one tick, and no listener.
RunOnce ==
  /\ mode = "once"
  /\ MainGoto("warned", "only_tick")
  /\ Tick
  /\ UNCHANGED <<shutdownVars, mode, listener, pending, g_signal_received,
                 signalled, final_reason>>

OnceDone ==
  /\ phase = "idle"
  /\ MainGoto("only_tick", "report")
  /\ UNCHANGED <<shutdownVars, allEngineVars, mode, listener, pending,
                 g_signal_received, signalled, final_reason>>

spawn_signal_listener ==
  /\ mode = "daemon"
  /\ MainGoto("warned", "loop")
  /\ listener' = "sigwait"
  /\ UNCHANGED <<shutdownVars, allEngineVars, mode, pending, g_signal_received,
                 signalled, final_reason>>

\* run_until_shutdown: a turn of the loop starts outside wait_for_stop().
AtLoopHead == main = "loop" /\ call[Main] = "out"

LoopTick ==
  /\ AtLoopHead /\ ~state_
  /\ main' = "tick"
  /\ Tick
  /\ UNCHANGED <<shutdownVars, mode, listener, pending, g_signal_received,
                 signalled, final_reason>>

TickDone ==
  /\ phase = "idle"
  /\ MainGoto("tick", "loop")
  /\ UNCHANGED <<shutdownVars, allEngineVars, mode, listener, pending,
                 g_signal_received, signalled, final_reason>>

LoopWait ==
  /\ AtLoopHead /\ ~state_
  /\ BeginWait(Main)
  /\ UNCHANGED <<allEngineVars, daemonVars>>

LoopExit ==
  /\ AtLoopHead /\ state_
  /\ main' = "report"
  /\ UNCHANGED <<shutdownVars, allEngineVars, mode, listener, pending,
                 g_signal_received, signalled, final_reason>>

Report ==
  /\ MainGoto("report", "wake")
  /\ signalled' = g_signal_received
  /\ UNCHANGED <<shutdownVars, allEngineVars, mode, listener, pending,
                 g_signal_received, final_reason>>

\* join_signal_listener(): nothing to do when no listener was started.
WakeListener ==
  /\ main = "wake"
  /\ IF listener = "none" THEN main' = "final" /\ pending' = pending
                          ELSE main' = "join" /\ pending' = pending \cup {"SIGTERM"}
  /\ UNCHANGED <<shutdownVars, allEngineVars, mode, listener, g_signal_received,
                 signalled, final_reason>>

\* Mutant: the listener is detached, not joined.
JoinListener_Detached ==
  /\ MainGoto("join", "final")
  /\ UNCHANGED <<shutdownVars, allEngineVars, mode, listener, pending,
                 g_signal_received, signalled, final_reason>>

JoinListener ==
  /\ listener = "done"
  /\ MainGoto("join", "final")
  /\ UNCHANGED <<shutdownVars, allEngineVars, mode, listener, pending,
                 g_signal_received, signalled, final_reason>>

\* Mutant: the signal is reported where the reason belongs.
Exit_WrongField ==
  /\ MainGoto("final", "exited")
  /\ final_reason' = signalled
  /\ UNCHANGED <<shutdownVars, allEngineVars, mode, listener, pending,
                 g_signal_received, signalled>>

Exit ==
  /\ MainGoto("final", "exited")
  /\ final_reason' = reason_
  /\ UNCHANGED <<shutdownVars, allEngineVars, mode, listener, pending,
                 g_signal_received, signalled>>

MainStep ==
  \/ Ping \/ RunOnce \/ OnceDone \/ spawn_signal_listener
  \/ LoopTick \/ TickDone \/ LoopWait \/ LoopExit
  \/ Report \/ WakeListener \/ JoinListener \/ Exit

----------------------------------------------------------------------------
(* The listener thread *)

\* sigwait() returns a pending signal, which is recorded before the request.
TakeSignal(s) ==
  /\ listener = "sigwait" /\ s \in pending
  /\ listener' = "request"
  /\ pending' = pending \ {s}
  /\ g_signal_received' = s
  /\ UNCHANGED <<shutdownVars, allEngineVars, mode, main, signalled, final_reason>>

request_signal ==
  /\ listener = "request"
  /\ listener' = "return"
  /\ BeginRequest(Listener, "Signal")
  /\ UNCHANGED <<allEngineVars, mode, main, pending, g_signal_received,
                 signalled, final_reason>>

ListenerEnds ==
  /\ listener = "return" /\ call[Listener] = "out"
  /\ listener' = "done"
  /\ UNCHANGED <<shutdownVars, allEngineVars, mode, main, pending,
                 g_signal_received, signalled, final_reason>>

ListenerStep == (\E s \in Signals : TakeSignal(s)) \/ request_signal \/ ListenerEnds

----------------------------------------------------------------------------
(* The environment *)

Deliver(s) ==
  /\ main # "exited" /\ s \notin pending
  /\ pending' = pending \cup {s}
  /\ UNCHANGED <<shutdownVars, allEngineVars, mode, main, listener,
                 g_signal_received, signalled, final_reason>>

\* The process is gone; its pending signals go with it.
Terminated == main = "exited" /\ UNCHANGED vars

InEngine   == EngineStep /\ UNCHANGED <<shutdownVars, daemonVars>>
InRequest  == RequestStep(Listener) /\ UNCHANGED <<allEngineVars, daemonVars>>
InWait     == WaitStep(Main) /\ UNCHANGED <<allEngineVars, daemonVars>>
WakeMain   == Wakeup(Main) /\ UNCHANGED <<allEngineVars, daemonVars>>
InDocker   == DockerStep /\ UNCHANGED <<shutdownVars, daemonVars>>

DaemonNext ==
  \/ MainStep \/ ListenerStep
  \/ InEngine \/ InRequest \/ InWait \/ WakeMain \/ InDocker
  \/ \E s \in Signals : Deliver(s)
  \/ Terminated
DaemonSpec == DaemonInit /\ [][DaemonNext]_vars

(* Fairness.  Each thread keeps taking the steps it can take; a strike     *)
(* that gets no answer ends by the socket timeout, so the engine's steps   *)
(* are among them.  The mutex is never kept: main releases it whenever it  *)
(* sleeps, so the listener, which wants it once, gets it (SF).  Nothing is *)
(* assumed of clocks, spurious wake-ups, signals or the Docker Engine.     *)
MainThread == MainStep \/ InEngine \/ InWait

FairDaemonSpec ==
  /\ DaemonSpec
  /\ WF_vars(MainThread)
  /\ WF_vars(ListenerStep)
  /\ SF_vars(InRequest)

----------------------------------------------------------------------------
(* Properties *)

DaemonTypeOK ==
  /\ mode \in Modes
  /\ main \in {"ping", "warned", "only_tick", "loop", "tick", "report", "wake",
               "join", "final", "exited"}
  /\ listener \in {"none", "sigwait", "request", "return", "done"}
  /\ pending \subseteq Signals
  /\ g_signal_received \in Signals \cup {"none"}
  /\ signalled \in Signals \cup {"none"}
  /\ final_reason \in StopReason

(* When the daemon has left its loop, the exit report is right: the signal *)
(* it names was recorded before the stop flag that ended the loop went up, *)
(* and the reason it names was stored before the listener was joined       *)
(* (main.cpp:85-91, 338-351; the flag and the reason are read lock-free).  *)
ExitReportIsRight ==
  main = "exited" /\ listener # "none" =>
    signalled \in Signals /\ final_reason = "Signal"

(* The shutdown state is torn down only when no other thread can still be  *)
(* inside it: the listener notifies after it has raised the flag, so main  *)
(* may be past its loop while notify_all() is still to come                *)
(* (main.cpp:62-64).                                                       *)
NobodyInsideAtTeardown ==
  main \in {"final", "exited"} => listener \in {"none", "done"} /\ call[Listener] = "out"

(* A signal that arrives at any moment of a daemon -- before the listener  *)
(* exists, during a tick, a strike or a wait without end -- ends the       *)
(* process (main.cpp:150-152: "a signal ends the wait immediately").       *)
SignalEndsDaemon == mode = "daemon" /\ pending # {} ~> main = "exited"

(* main.cpp:313-322 tells the operator of a live run, "both --once and     *)
(* daemon modes", to stop now with Ctrl+C: a SIGINT that is there before   *)
(* the tick starts leads to a stop.                                        *)
CtrlCStops == main = "warned" /\ "SIGINT" \in pending ~> state_

=============================================================================
