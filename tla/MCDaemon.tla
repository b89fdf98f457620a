------------------------------ MODULE MCDaemon ------------------------------
(* The daemon with two containers that one rule matches.                   *)
EXTENDS Daemon, TLC

CONSTANTS mainThread, listenerThread

MCRequesters == {listenerThread}
MCWaiters    == {mainThread}
MCCauses     == {"Signal"}
MCContainer  == 1..2
MCNames      == <<{"web-1"}, {"web-2"}>>
MCSubstrings == {<<"web-1", "web">>, <<"web-2", "web">>}

LiveConfig ==
  [dry_run |-> FALSE, discover_only |-> FALSE, max_actions_per_cycle |-> 2,
   max_actions_per_run |-> 3, chaos_probability |-> "some",
   targets |-> <<[name_match |-> "web", action |-> "stop"]>>]

MCConfigs == {LiveConfig}
=============================================================================
