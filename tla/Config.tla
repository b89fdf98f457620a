------------------------------- MODULE Config -------------------------------
(***************************************************************************)
(* Loading and validating the configuration file (src/config.cpp).  The    *)
(* file is checked part by part in the order of the code, cfg is filled    *)
(* in as the parts pass, and the first part that fails ends it.            *)
(*                                                                         *)
(* A JSON value is a record whose only field names its type: [number |->   *)
(* n], [string |-> s], [bool |-> b], [array |-> seq] and [object |-> f].   *)
(* Numbers count halves, so that odd ones stand for fractions.             *)
(***************************************************************************)
EXTENDS Integers, Sequences

CONSTANTS Files,        \* what may be found under the config path
          Trim, Lower   \* Trim[s], Lower[s]: trim() and to_lower() of a string

VARIABLES file,   \* the file load_config() has read
          cfg,    \* the Config under construction
          at,     \* the part being checked, see Wrong
          fault   \* the part that was refused; 0 while there is none

configVars == <<file, cfg, at, fault>>

Levels == {"debug", "info", "warn", "error"}

IsSeq(s) == s \in Seq({s[i] : i \in 1..Len(s)})

Is(type, v) == type \in DOMAIN v

\* root.find(key), for a root that is an object
Root == file.root.object
Has(key) == key \in DOMAIN Root
Entries == Root["targets"].array

Defaults ==
  [interval_seconds |-> 5, chaos_probability |-> 1,
   docker_socket |-> "/var/run/docker.sock", stop_timeout_seconds |-> 10,
   dry_run |-> TRUE, max_actions_per_cycle |-> 1, max_actions_per_run |-> 0,
   log_level |-> "info", targets |-> <<>>]

\* The optional keys, in the order of validate_config().
KeyOrder == <<"interval_seconds", "chaos_probability", "docker_socket",
              "stop_timeout_seconds", "dry_run", "max_actions_per_cycle",
              "max_actions_per_run", "log_level">>

TargetsAt == Len(KeyOrder) + 1  \* the part that is the array of rules

----------------------------------------------------------------------------
(* The parts of the file *)

\* Mutant: only the lower end is checked.
Integral_NoHigh(v, low, high) ==
  Is("number", v) /\ v.number % 2 = 0 /\ v.number \div 2 >= low

\* Mutant: the upper end is kept out.
Integral_EndOut(v, low, high) ==
  Is("number", v) /\ v.number % 2 = 0 /\ v.number \div 2 \in low..(high - 1)

Integral(v, low, high) ==
  /\ Is("number", v)
  /\ v.number % 2 = 0
  /\ v.number \div 2 \in low..high

IntegerKeys == {"interval_seconds", "stop_timeout_seconds",
                "max_actions_per_cycle", "max_actions_per_run"}
MaxInterval == 86400
MaxStopTimeout == 600
MaxPerCycle == 1000
MaxPerRun == 1000000

Low  == [interval_seconds |-> 1, stop_timeout_seconds |-> 1,
         max_actions_per_cycle |-> 1, max_actions_per_run |-> 0]
High == [interval_seconds |-> MaxInterval, stop_timeout_seconds |-> MaxStopTimeout,
         max_actions_per_cycle |-> MaxPerCycle, max_actions_per_run |-> MaxPerRun]

Valid(key, v) ==
  \/ key \in IntegerKeys /\ Integral(v, Low[key], High[key])
  \/ key = "chaos_probability" /\ Is("number", v) /\ v.number \in 0..2
  \/ key = "docker_socket" /\ Is("string", v) /\ v.string # ""
  \/ key = "dry_run" /\ Is("bool", v)
  \/ key = "log_level" /\ Is("string", v) /\ Lower[Trim[v.string]] \in Levels

Stored(key, v) ==
  IF key \in IntegerKeys THEN v.number \div 2
  ELSE IF key = "chaos_probability" THEN v.number
  ELSE IF key = "docker_socket" THEN v.string
  ELSE IF key = "dry_run" THEN v.bool
  ELSE Lower[Trim[v.string]]

action_from_string(s) == Lower[Trim[s]]

ValidEntry(e) ==
  /\ Is("object", e)
  /\ {"name_match", "action"} \subseteq DOMAIN e.object
  /\ Is("string", e.object.name_match) /\ Trim[e.object.name_match.string] # ""
  /\ Is("string", e.object.action)
  /\ action_from_string(e.object.action.string) \in {"stop", "kill"}

Rule(e) == [name_match |-> Trim[e.object.name_match.string],
            action |-> action_from_string(e.object.action.string)]

----------------------------------------------------------------------------
ConfigInit ==
  /\ file = [state |-> "unread"]
  /\ cfg = Defaults
  /\ at = 1
  /\ fault = 0

\* load_config(), up to the call of validate_config() and its look at the root.
Loads(f) == f.state = "parsed" /\ Is("object", f.root)

load_config ==
  /\ file' \in Files
  /\ UNCHANGED <<cfg, at, fault>>

Refuse == fault' = at /\ UNCHANGED <<file, cfg, at>>
Accept(newCfg) == cfg' = newCfg /\ at' = at + 1 /\ UNCHANGED <<file, fault>>

\* Mutant: a key of the wrong type or out of range is skipped, not refused.
CheckKey_Skips ==
  /\ at < TargetsAt
  /\ LET key == KeyOrder[at]
     IN  \/ Has(key) /\ Valid(key, Root[key])
            /\ Accept([cfg EXCEPT ![key] = Stored(key, Root[key])])
         \/ ~(Has(key) /\ Valid(key, Root[key])) /\ Accept(cfg)

CheckKey ==
  /\ at < TargetsAt
  /\ LET key == KeyOrder[at]
     IN  \/ ~Has(key) /\ Accept(cfg)
         \/ Has(key) /\ Valid(key, Root[key])
            /\ Accept([cfg EXCEPT ![key] = Stored(key, Root[key])])
         \/ Has(key) /\ ~Valid(key, Root[key]) /\ Refuse

ValidTargets == Has("targets") /\ Is("array", Root["targets"]) /\ Entries # <<>>

CheckTargets ==
  /\ at = TargetsAt
  /\ IF ValidTargets THEN Accept(cfg) ELSE Refuse

Entry == Entries[at - TargetsAt]
EntriesLeft == at > TargetsAt /\ at - TargetsAt <= Len(Entries)

CheckEntry ==
  /\ EntriesLeft
  /\ IF ValidEntry(Entry)
     THEN Accept([cfg EXCEPT !.targets = Append(@, Rule(Entry))])
     ELSE Refuse

validate_config == fault = 0 /\ (CheckKey \/ CheckTargets \/ CheckEntry)

\* All parts have passed; main() goes on with cfg.
Validated == fault = 0 /\ at > TargetsAt /\ ~EntriesLeft

\* What is wrong with the file, said of each part by itself.
Wrong(part) ==
  IF part < TargetsAt
  THEN Has(KeyOrder[part]) /\ ~Valid(KeyOrder[part], Root[KeyOrder[part]])
  ELSE IF part = TargetsAt THEN ~ValidTargets
  ELSE part - TargetsAt \in 1..Len(Entries) /\ ~ValidEntry(Entries[part - TargetsAt])
=============================================================================
