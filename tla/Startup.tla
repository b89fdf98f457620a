------------------------------ MODULE Startup -------------------------------
(***************************************************************************)
(* main() from its first line to the first tick (main.cpp): command line,  *)
(* configuration, log level, socket check, signal mask, ping, engine and   *)
(* the safety warning.  What follows is modelled by Daemon.                *)
(***************************************************************************)
EXTENDS Config

CONSTANTS Envs,    \* values of Chaos_Forger_LOG_LEVEL; "" is unset or empty
          MaxArgs  \* bound: arguments on the command line

ASSUME StartupAssumption ==
  /\ MaxArgs \in Nat
  /\ \A f \in Files :
       Loads(f) /\ "targets" \in DOMAIN f.root.object
         /\ Is("array", f.root.object["targets"])
       => IsSeq(f.root.object["targets"].array)
  /\ \A f \in Files :
       Loads(f) /\ "dry_run" \in DOMAIN f.root.object
         /\ Is("bool", f.root.object["dry_run"])
       => f.root.object["dry_run"].bool \in BOOLEAN

VARIABLES
  pc,                     \* where main() is
  args,                   \* arguments still to be read
  given,                  \* the options seen, for the properties
  once, dry_run_flag, discover_flag,
  env, level,             \* the environment variable, and the log level in force
  blocked,                \* SIGINT and SIGTERM are blocked
  dry_run_, discover_only,\* of the engine, once it is built
  told,                   \* what the log has really shown
  status                  \* the exit status

startupVars == <<pc, args, given, once, dry_run_flag, discover_flag, env, level,
                 blocked, dry_run_, discover_only, told, status>>
vars == <<configVars, startupVars>>

flagVars == <<args, given, once, dry_run_flag, discover_flag>>
engineVars == <<dry_run_, discover_only>>

\* Mutant: the variable is taken as it is.
InitialLevel_Raw(value) == value

\* log.cpp reads the variable before main(), and by its exact letters.
InitialLevel(value) == IF value \in Levels THEN value ELSE "info"

StartupInit ==
  /\ ConfigInit
  /\ pc = "args"
  /\ args \in 0..MaxArgs
  /\ given = {}
  /\ once = FALSE /\ dry_run_flag = FALSE /\ discover_flag = FALSE
  /\ env \in Envs
  /\ level = InitialLevel(env)
  /\ blocked = FALSE
  /\ dry_run_ = TRUE /\ discover_only = FALSE
  /\ told = {}
  /\ status = "none"

Severity == [debug |-> 0, info |-> 1, warn |-> 2, error |-> 3]

\* Chaos_Forger_log_line(): lines below the level in force are dropped.
Log(severity, line) ==
  told' = IF Severity[severity] < Severity[level] THEN told ELSE told \cup {line}

Goto(from, to) == pc = from /\ pc' = to /\ status' = status
Return(from, code) == pc = from /\ pc' = "exited" /\ status' = code

----------------------------------------------------------------------------
(* The command line *)

TakeOption(option) ==
  /\ Goto("args", "args")
  /\ args > 0
  /\ args' = args - 1
  /\ given' = given \cup {option}
  /\ once' = (once \/ option = "once")
  /\ dry_run_flag' = (dry_run_flag \/ option = "dry_run")
  /\ discover_flag' = (discover_flag \/ option = "discover")
  /\ UNCHANGED <<configVars, env, level, blocked, engineVars, told>>

\* --config takes the next argument for its value.
TakeConfig ==
  /\ Goto("args", "args")
  /\ args > 1
  /\ args' = args - 2
  /\ UNCHANGED <<configVars, given, once, dry_run_flag, discover_flag, env, level,
                 blocked, engineVars, told>>

\* --help and --version return at once; --config without a value and an
\* unknown argument are errors.
ArgsReturn(code) ==
  /\ Return("args", code)
  /\ args > 0
  /\ UNCHANGED <<configVars, flagVars, env, level, blocked, engineVars, told>>

ArgsEnd ==
  /\ Goto("args", "load")
  /\ args = 0
  /\ UNCHANGED <<configVars, flagVars, env, level, blocked, engineVars, told>>

ReadArguments ==
  \/ \E option \in {"once", "dry_run", "discover"} : TakeOption(option)
  \/ TakeConfig
  \/ \E code \in {"success", "failure"} : ArgsReturn(code)
  \/ ArgsEnd

----------------------------------------------------------------------------
(* The configuration *)

Load ==
  /\ load_config
  /\ IF Loads(file') THEN Goto("load", "validate") ELSE Return("load", "failure")
  /\ UNCHANGED <<flagVars, env, level, blocked, engineVars, told>>

Validate ==
  /\ Goto("validate", "validate")
  /\ validate_config
  /\ UNCHANGED <<flagVars, env, level, blocked, engineVars, told>>

Invalid ==
  /\ fault # 0
  /\ Return("validate", "failure")
  /\ UNCHANGED <<configVars, flagVars, env, level, blocked, engineVars, told>>

\* Mutant: the flag is taken for the whole truth about dry run.
ApplyFlag_Assigns ==
  /\ Goto("validate", "level")
  /\ Validated
  /\ cfg' = [cfg EXCEPT !.dry_run = dry_run_flag]
  /\ IF Has("dry_run") THEN told' = told ELSE Log("warn", "dry_run not set")
  /\ UNCHANGED <<file, at, fault, flagVars, env, level, blocked, engineVars>>

\* validate_config() warns of a missing dry_run; then the flag overrides cfg.
ApplyFlag ==
  /\ Goto("validate", "level")
  /\ Validated
  /\ cfg' = [cfg EXCEPT !.dry_run = IF dry_run_flag THEN TRUE ELSE @]
  /\ IF Has("dry_run") THEN told' = told ELSE Log("warn", "dry_run not set")
  /\ UNCHANGED <<file, at, fault, flagVars, env, level, blocked, engineVars>>

\* Mutant: the configuration's level is applied after the environment's.
ApplyLevel_ConfigWins ==
  /\ env = "" \/ Lower[env] \in Levels
  /\ Goto("level", "stat")
  /\ level' = cfg.log_level
  /\ UNCHANGED <<configVars, flagVars, env, blocked, engineVars, told>>

ApplyLevel ==
  /\ env = "" \/ Lower[env] \in Levels
  /\ Goto("level", "stat")
  /\ level' = IF env = "" THEN cfg.log_level ELSE Lower[env]
  /\ cfg' = [cfg EXCEPT !.log_level = level']
  /\ UNCHANGED <<file, at, fault, flagVars, env, blocked, engineVars, told>>

BadLevel ==
  /\ env # "" /\ Lower[env] \notin Levels
  /\ Return("level", "failure")
  /\ UNCHANGED <<configVars, flagVars, env, level, blocked, engineVars, told>>

----------------------------------------------------------------------------
(* Docker, signals and the engine *)

\* stat() fails, finds something that is not a socket, or finds a socket.
CheckSocket ==
  /\ \/ Goto("stat", "signals")
     \/ Return("stat", "failure")
  /\ UNCHANGED <<configVars, flagVars, env, level, blocked, engineVars, told>>

install_signal_handlers ==
  /\ \/ Goto("signals", "ping") /\ blocked' = TRUE
     \/ Return("signals", "failure") /\ UNCHANGED blocked
  /\ UNCHANGED <<configVars, flagVars, env, level, engineVars, told>>

Ping ==
  /\ \/ Goto("ping", "engine")
     \/ Return("ping", "failure")
  /\ UNCHANGED <<configVars, flagVars, env, level, blocked, engineVars, told>>

\* A signal that is not blocked kills the process by default.  (One that is
\* blocked stays pending: Daemon.)
Killed ==
  /\ ~blocked /\ pc # "exited"
  /\ pc' = "exited" /\ status' = "killed"
  /\ UNCHANGED <<configVars, flagVars, env, level, blocked, engineVars, told>>

\* ChaosEngine's constructor: the override, if there is one, or cfg.dry_run.
BuildEngine ==
  /\ Goto("engine", "warn")
  /\ dry_run_' = (IF dry_run_flag THEN TRUE ELSE cfg.dry_run)
  /\ discover_only' = discover_flag
  /\ UNCHANGED <<configVars, flagVars, env, level, blocked, told>>

\* Mutant: only the daemon warns.
SafetyWarning_NotOnce ==
  /\ Goto("warn", IF once \/ discover_flag THEN "once" ELSE "daemon")
  /\ IF discover_flag \/ once THEN told' = told
     ELSE IF dry_run_ THEN Log("info", "dry-run mode")
     ELSE Log("warn", "blast radius")
  /\ UNCHANGED <<configVars, flagVars, env, level, blocked, engineVars>>

SafetyWarning ==
  /\ Goto("warn", IF once \/ discover_flag THEN "once" ELSE "daemon")
  /\ IF discover_flag THEN told' = told
     ELSE IF dry_run_ THEN Log("info", "dry-run mode")
     ELSE Log("warn", "blast radius")
  /\ UNCHANGED <<configVars, flagVars, env, level, blocked, engineVars>>

Main == \/ ReadArguments \/ Load \/ Validate \/ Invalid \/ ApplyFlag
        \/ ApplyLevel \/ BadLevel \/ CheckSocket \/ install_signal_handlers
        \/ Ping \/ BuildEngine \/ SafetyWarning

StartupNext == Main \/ Killed

StartupSpec == StartupInit /\ [][StartupNext]_vars

----------------------------------------------------------------------------
(* Properties *)

Acting == pc \in {"once", "daemon"}
Live == Acting /\ dry_run_ = FALSE /\ discover_only = FALSE

\* Every variable keeps to its domain.
StartupTypeOK ==
  /\ pc \in {"args", "load", "validate", "level", "stat", "signals", "ping",
             "engine", "warn", "once", "daemon", "exited"}
  /\ args \in 0..MaxArgs
  /\ given \subseteq {"once", "dry_run", "discover"}
  /\ {once, dry_run_flag, discover_flag, blocked, dry_run_, discover_only} \subseteq BOOLEAN
  /\ level \in Levels
  /\ told \subseteq {"dry_run not set", "dry-run mode", "blast radius"}
  /\ status \in {"none", "success", "failure", "killed"}
  /\ at \in Nat /\ fault \in Nat

\* "Real destruction requires an explicit dry_run: false" (README), across the
\* default, the file, the command line, cfg and the engine's override: an
\* engine that may strike runs with a file that says so, and without -n or -d.
LiveNeedsConsent ==
  Live => /\ Loads(file) /\ Has("dry_run") /\ Root["dry_run"].bool = FALSE
          /\ given \cap {"dry_run", "discover"} = {}

GoodRules(rules) ==
  \A r \in 1..Len(rules) : /\ rules[r].name_match # ""
                           /\ rules[r].action \in {"stop", "kill"}

\* The ranges that the table of the README gives (README:179-185).
OneDay     == 86400
TenMinutes == 600
Thousand   == 1000
Million    == 1000000
Documented ==
  [interval_seconds |-> 1..OneDay, stop_timeout_seconds |-> 1..TenMinutes,
   max_actions_per_cycle |-> 1..Thousand, max_actions_per_run |-> 0..Million]

\* "A bad config never reaches the engine" (README): whatever the file says,
\* the engine acts on values within the documented ranges, so that the
\* clamps of action_budget() and set_probability() have nothing to do.
EngineWithinRanges ==
  Acting =>
    /\ \A key \in DOMAIN Documented : cfg[key] \in Documented[key]
    /\ cfg.chaos_probability \in 0..2
    /\ Len(cfg.targets) > 0 /\ GoodRules(cfg.targets)

\* A whole number in the documented range, either end included.
IsDocumented(key, v) ==
  Is("number", v) /\ v.number % 2 = 0 /\ v.number \div 2 \in Documented[key]

\* The error names the first fault of the file, and a file is refused only
\* for a fault it has: earlier parts, which have passed, have none, and no
\* value that the documentation allows is one, the ends of a range included.
FirstFaultIsReported ==
  /\ fault # 0 => Wrong(fault)
  /\ Loads(file) => \A part \in 1..(at - 1) : ~Wrong(part)
  /\ fault \in DOMAIN KeyOrder /\ KeyOrder[fault] \in DOMAIN Documented =>
       ~IsDocumented(KeyOrder[fault], Root[KeyOrder[fault]])

\* The level in force when the engine runs is the one asked for: the
\* environment's in any case of letters, else the file's, else "info"; and
\* an unknown level never gets as far.
LevelIsAsAsked ==
  Acting => level = IF env # "" THEN Lower[env]
                    ELSE IF Has("log_level") THEN Lower[Trim[Root["log_level"].string]]
                    ELSE "info"

\* The log tells in which mode the engine runs, in one-shot mode too: caps are
\* announced only if it may strike, and then unless the level is "error"; a dry run
\* by default is explained unless the environment asked for "error" in the
\* exact letters log.cpp knows -- the file's own level comes too late to mute it.
ModeIsHeard ==
  Acting => /\ Live /\ level # "error" => "blast radius" \in told
            /\ "blast radius" \in told => Live
            /\ ~Has("dry_run") /\ env # "error" => "dry_run not set" \in told
=============================================================================
