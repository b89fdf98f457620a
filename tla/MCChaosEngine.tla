--------------------------- MODULE MCChaosEngine ---------------------------
(* Four containers: one matches two rules, one has a malformed Id.         *)
EXTENDS ChaosEngine, TLC

CONSTANTS listener

MCRequesters == {listener}
MCWaiters    == {}
MCContainer  == 1..4
MCRestless   == {2}
MCWellFormed == {1, 2, 3}
MCCauses     == {"Signal"}

\* web-1, db-1 and web-db: the last one satisfies both rules.
MCNames == <<{"web-1"}, {"db-1"}, {"web-db"}, {"web-1"}>>
MCSubstrings ==
  {<<"web-1", "web">>, <<"db-1", "db">>, <<"web-db", "web">>, <<"web-db", "db">>}
    \cup ({"web-1", "db-1", "web-db"} \X {""})

Rule(needle, act) == [name_match |-> needle, action |-> act]
BothRules == <<Rule("db", "kill"), Rule("web", "stop")>>
EmptyFirst == <<Rule("", "kill"), Rule("web", "stop")>>

Cfg(dry, disc, cycle, run, p, rules) ==
  [dry_run |-> dry, discover_only |-> disc, max_actions_per_cycle |-> cycle,
   max_actions_per_run |-> run, chaos_probability |-> p, targets |-> rules]

\* The 0 cycle cap and the empty rule are kept out of a config file by
\* validate_config, and fed to the library directly by its unit tests.
MCConfigs ==
  { Cfg(FALSE, FALSE, 2, 0, "one", BothRules),   \* live, unlimited
    Cfg(FALSE, FALSE, 3, 2, "some", BothRules),  \* live, run budget binding
    Cfg(FALSE, FALSE, 0, 1, "one", EmptyFirst),  \* cycle cap clamped to 1
    Cfg(TRUE,  FALSE, 2, 2, "one", BothRules),   \* dry run
    Cfg(FALSE, TRUE,  2, 2, "one", BothRules),   \* --discover
    Cfg(FALSE, FALSE, 2, 2, "zero", BothRules) } \* the dice never fire
=============================================================================
