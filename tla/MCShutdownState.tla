-------------------------- MODULE MCShutdownState --------------------------
(* Two requesters race with two waiters. *)
EXTENDS ShutdownState, TLC

CONSTANTS listener, other, main, tester

MCRequesters == {listener, other}
MCWaiters    == {main, tester}
MCCauses     == {"Signal", "Internal"}
=============================================================================
