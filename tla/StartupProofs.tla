--------------------------- MODULE StartupProofs ----------------------------
(* Proofs about Startup, for any files, strings, environment and arguments. *)
EXTENDS Startup, SequenceTheorems, TLAPS

\* The flags remember the options they stand for.
FlagInv ==
  /\ dry_run_flag \in BOOLEAN /\ discover_flag \in BOOLEAN
  /\ dry_run_flag = FALSE => "dry_run" \notin given
  /\ discover_flag = FALSE => "discover" \notin given

NumbersInRange ==
  /\ \A key \in IntegerKeys : cfg[key] \in Low[key]..High[key]
  /\ cfg.chaos_probability \in 0..2

ConfigKeys == {"interval_seconds", "chaos_probability", "docker_socket",
               "stop_timeout_seconds", "dry_run", "max_actions_per_cycle",
               "max_actions_per_run", "log_level", "targets"}

\* cfg is never, not even half filled in, out of the ranges.
RangeInv == DOMAIN cfg = ConfigKeys /\ NumbersInRange

Unread == {"args", "load"}
Accepted == {"level", "stat", "signals", "ping", "engine", "warn", "once", "daemon"}

\* There is one rule for every entry that has been checked, and a file that
\* has been accepted has at least one.
TargetsInv ==
  /\ at \in Nat \ {0}
  /\ pc \in Unread => at = 1
  /\ pc = "validate" => Loads(file) /\ file \in Files
  /\ IsSeq(cfg.targets)
  /\ at <= TargetsAt => cfg.targets = <<>>
  /\ at > TargetsAt => ValidTargets /\ Len(cfg.targets) = at - TargetsAt - 1
  /\ GoodRules(cfg.targets)
  /\ pc \in Accepted => Len(cfg.targets) > 0

FileConsents == Loads(file) /\ Has("dry_run") /\ Root["dry_run"].bool = FALSE

\* Consent at each stage on its way from the file to the engine.
ConsentInv ==
  /\ pc \in Unread => cfg.dry_run = TRUE
  /\ cfg.dry_run = FALSE => FileConsents
  /\ pc \in Accepted /\ cfg.dry_run = FALSE => dry_run_flag = FALSE
  /\ pc \in Unread \cup {"validate", "level", "stat", "signals", "ping", "engine"}
       => dry_run_ = TRUE
  /\ pc \in {"warn", "once", "daemon"} =>
       /\ dry_run_ = FALSE => cfg.dry_run = FALSE
       /\ discover_only = discover_flag

StartupInv == FlagInv /\ RangeInv /\ TargetsInv /\ ConsentInv

----------------------------------------------------------------------------
LEMMA KeyOrderFacts ==
  \A i \in 1..8 : KeyOrder[i] \in ConfigKeys \ {"targets"}
BY DEF KeyOrder, ConfigKeys

LEMMA NineParts == TargetsAt = 9
BY DEF KeyOrder, TargetsAt

\* Appending to a sequence keeps its elements and adds the new one at the end.
LEMMA AppendFacts ==
  ASSUME NEW s, IsSeq(s), NEW e
  PROVE  /\ IsSeq(Append(s, e))
         /\ Len(Append(s, e)) = Len(s) + 1
         /\ \A i \in 1..Len(s) : Append(s, e)[i] = s[i]
         /\ Append(s, e)[Len(s) + 1] = e
<1> DEFINE S == {s[i] : i \in 1..Len(s)}
           t == Append(s, e)
           T == {t[i] : i \in 1..Len(t)}
<1>1. s \in Seq(S) BY DEF IsSeq
<1>2. s \in Seq(S \cup {e}) BY <1>1, SeqMonotonic
<1>3. /\ t \in Seq(S \cup {e}) /\ Len(t) = Len(s) + 1
      /\ \A i \in 1..Len(s) : t[i] = s[i]
      /\ t[Len(s) + 1] = e
  BY <1>2, AppendProperties
<1>. HIDE DEF S, t, T
<1>4. PICK n \in Nat : t \in [1..n -> S \cup {e}] BY <1>3, SeqDef
<1>5. Len(t) = n BY <1>3, <1>4, LenProperties
<1>6. t \in [1..n -> T]
  <2>1. \A i \in 1..n : t[i] \in T BY <1>5 DEF T
  <2>. QED BY <1>4, <2>1
<1>7. t \in Seq(T) BY <1>6, SeqDef
<1>. QED BY <1>3, <1>7 DEF IsSeq, t, T

LEMMA LastOrEarlier ==
  ASSUME NEW n \in Nat PROVE \A k \in 1..(n + 1) : k = n + 1 \/ k \in 1..n
OBVIOUS

\* A good rule appended to good rules leaves them good.
LEMMA AppendGood ==
  ASSUME NEW s, IsSeq(s), GoodRules(s), NEW e,
         e.name_match # "" /\ e.action \in {"stop", "kill"}
  PROVE  GoodRules(Append(s, e))
<1> DEFINE t == Append(s, e)
<1>1. /\ Len(t) = Len(s) + 1 /\ t[Len(s) + 1] = e
      /\ \A i \in 1..Len(s) : t[i] = s[i]
  BY AppendFacts
<1>2. Len(s) \in Nat BY LenProperties DEF IsSeq
<1>. HIDE DEF t
<1>3. ASSUME NEW r \in 1..Len(t)
      PROVE  t[r].name_match # "" /\ t[r].action \in {"stop", "kill"}
  <2>1. CASE r = Len(s) + 1 BY <1>1, <2>1
  <2>2. CASE r # Len(s) + 1
    <3>1. r \in 1..Len(s) BY <1>1, <1>2, <2>2, LastOrEarlier
    <3>2. t[r] = s[r] BY <1>1, <3>1
    <3>3. s[r].name_match # "" /\ s[r].action \in {"stop", "kill"} BY <3>1 DEF GoodRules
    <3>. QED BY <3>2, <3>3
  <2>. QED BY <2>1, <2>2
<1>4. GoodRules(t) BY <1>3 DEF GoodRules
<1>. QED BY <1>4 DEF t

\* What a key that passed its check puts into cfg leaves cfg within the ranges.
LEMMA StoredInRange ==
  ASSUME RangeInv, NEW key \in ConfigKeys \ {"targets"}, NEW v, Valid(key, v),
         cfg' = [cfg EXCEPT ![key] = Stored(key, v)]
  PROVE  RangeInv'
<1> DEFINE new == Stored(key, v)
<1>. HIDE DEF new
<1>1. /\ DOMAIN cfg' = ConfigKeys
      /\ cfg'[key] = new
      /\ \A k \in ConfigKeys : k # key => cfg'[k] = cfg[k]
  <2>1. cfg' = [cfg EXCEPT ![key] = new] BY DEF new
  <2>. QED BY <2>1 DEF RangeInv
<1>2. ASSUME key \in IntegerKeys PROVE new \in Low[key]..High[key]
  <2>1. Integral(v, Low[key], High[key]) BY <1>2 DEF Valid, IntegerKeys
  <2>2. new = v.number \div 2 BY <1>2 DEF new, Stored
  <2>. QED BY <2>1, <2>2 DEF Integral
<1>3. ASSUME key = "chaos_probability" PROVE new \in 0..2
  BY <1>3 DEF new, Stored, Valid, IntegerKeys
<1>. QED
  BY <1>1, <1>2, <1>3 DEF RangeInv, NumbersInRange, ConfigKeys, IntegerKeys

----------------------------------------------------------------------------
(* The invariant holds at the start, and every step keeps each group of it. *)

\* The actions that leave the configuration and the flags as they are.
Quiet == \/ (\E code \in {"success", "failure"} : ArgsReturn(code)) \/ ArgsEnd
         \/ Invalid \/ BadLevel \/ CheckSocket \/ install_signal_handlers
         \/ Ping \/ BuildEngine \/ SafetyWarning \/ Killed

Busy == \/ (\E option \in {"once", "dry_run", "discover"} : TakeOption(option))
        \/ TakeConfig \/ Load \/ Validate \/ ApplyFlag \/ ApplyLevel

LEMMA QuietOrBusy == StartupNext => Quiet \/ Busy
BY DEF StartupNext, Main, ReadArguments, Quiet, Busy

LEMMA QuietIsQuiet == Quiet => UNCHANGED <<configVars, flagVars>>
BY DEF Quiet, ArgsReturn, ArgsEnd, Invalid, BadLevel, CheckSocket,
       install_signal_handlers, Ping, BuildEngine, SafetyWarning, Killed

LEMMA StartupInvInit == StartupInit => StartupInv
<1> SUFFICES ASSUME StartupInit PROVE StartupInv OBVIOUS
<1>. USE DEF StartupInit, ConfigInit
<1>1. FlagInv BY DEF FlagInv
<1>2. RangeInv
  <2>1. /\ 5 <= MaxInterval /\ 10 <= MaxStopTimeout /\ 1 <= MaxPerCycle /\ 0 <= MaxPerRun
        /\ {MaxInterval, MaxStopTimeout, MaxPerCycle, MaxPerRun} \subseteq Nat
    BY SMT DEF MaxInterval, MaxStopTimeout, MaxPerCycle, MaxPerRun
  <2>. QED
    BY <2>1 DEF RangeInv, NumbersInRange, Defaults, ConfigKeys, IntegerKeys, Low, High
<1>3. TargetsInv
  <2>1. IsSeq(<<>>) BY DEF IsSeq
  <2>2. GoodRules(<<>>)
    <3> SUFFICES ASSUME NEW r \in 1..Len(<<>>) PROVE FALSE BY DEF GoodRules
    <3>. QED OBVIOUS
  <2>. QED BY <2>1, <2>2, NineParts DEF TargetsInv, Unread, Accepted, Defaults
<1>4. ConsentInv BY DEF ConsentInv, Unread, Accepted, Defaults
<1>. QED BY <1>1, <1>2, <1>3, <1>4 DEF StartupInv

LEMMA FlagStep == FlagInv /\ [StartupNext]_vars => FlagInv'
<1> SUFFICES ASSUME FlagInv, [StartupNext]_vars PROVE FlagInv' OBVIOUS
<1>. USE DEF FlagInv
<1>1. ASSUME NEW option \in {"once", "dry_run", "discover"}, TakeOption(option)
      PROVE  FlagInv'
  BY <1>1 DEF TakeOption
<1>2. CASE TakeConfig BY <1>2 DEF TakeConfig
<1>3. CASE Load \/ Validate \/ ApplyFlag \/ ApplyLevel
  BY <1>3 DEF Load, Validate, ApplyFlag, ApplyLevel, flagVars
<1>4. CASE Quiet BY <1>4, QuietIsQuiet DEF flagVars
<1>5. CASE UNCHANGED vars BY <1>5 DEF vars, startupVars
<1>. QED BY <1>1, <1>2, <1>3, <1>4, <1>5, QuietOrBusy DEF Busy

LEMMA RangeStep == RangeInv /\ TargetsInv /\ [StartupNext]_vars => RangeInv'
<1> SUFFICES ASSUME RangeInv, TargetsInv, [StartupNext]_vars PROVE RangeInv' OBVIOUS
<1>0. CASE cfg' = cfg BY <1>0 DEF RangeInv, NumbersInRange
<1>1. CASE (\E option \in {"once", "dry_run", "discover"} : TakeOption(option))
             \/ TakeConfig \/ Load
  BY <1>0, <1>1 DEF TakeOption, TakeConfig, Load, load_config, configVars
<1>2. CASE Validate
  <2>1. CASE CheckKey
    <3>1. KeyOrder[at] \in ConfigKeys \ {"targets"}
      <4>1. at \in Nat /\ at # 0 /\ at < 9
        BY <2>1, NineParts DEF CheckKey, TargetsInv
      <4>2. at \in 1..8 BY <4>1
      <4>. QED BY <4>2, KeyOrderFacts
    <3>. QED BY <1>0, <2>1, <3>1, StoredInRange DEF CheckKey, Accept, Refuse
  <2>2. CASE CheckTargets BY <1>0, <2>2 DEF CheckTargets, Accept, Refuse
  <2>3. CASE CheckEntry
    <3>1. cfg' = cfg \/ cfg' = [cfg EXCEPT !.targets = Append(@, Rule(Entry))]
      BY <2>3 DEF CheckEntry, Accept, Refuse
    <3>. QED BY <1>0, <3>1 DEF RangeInv, NumbersInRange, IntegerKeys, ConfigKeys
  <2>. QED BY <1>2, <2>1, <2>2, <2>3 DEF Validate, validate_config
<1>3. CASE ApplyFlag
  BY <1>3 DEF ApplyFlag, RangeInv, NumbersInRange, IntegerKeys, ConfigKeys
<1>4. CASE ApplyLevel
  BY <1>4 DEF ApplyLevel, RangeInv, NumbersInRange, IntegerKeys, ConfigKeys
<1>5. CASE Quiet BY <1>0, <1>5, QuietIsQuiet DEF configVars
<1>6. CASE UNCHANGED vars BY <1>0, <1>6 DEF vars, configVars
<1>. QED BY <1>1, <1>2, <1>3, <1>4, <1>5, <1>6, QuietOrBusy DEF Busy

LEMMA QuietMoves ==
  Quiet => /\ pc' # "validate"
           /\ pc' \in Unread => pc \in Unread
           /\ pc' \in Accepted => pc \in Accepted
BY DEF Quiet, ArgsReturn, ArgsEnd, Invalid, BadLevel, CheckSocket,
       install_signal_handlers, Ping, BuildEngine, SafetyWarning, Killed,
       Goto, Return, Unread, Accepted

\* Every entry of a file that has been read is in a sequence of entries.
LEMMA EntriesIsSeq ==
  ASSUME file \in Files, Loads(file), ValidTargets
  PROVE  IsSeq(Entries) /\ Len(Entries) \in Nat \ {0}
<1>1. IsSeq(Entries)
  BY StartupAssumption DEF ValidTargets, Has, Root, Entries
<1>2. PICK S : Entries \in Seq(S) BY <1>1 DEF IsSeq
<1>3. Entries # <<>> BY DEF ValidTargets
<1>4. Len(Entries) \in Nat /\ Len(Entries) # 0
  <2>. HIDE DEF Entries
  <2>. QED BY <1>2, <1>3, LenProperties, EmptySeq
<1>. QED BY <1>1, <1>4

LEMMA TargetsStep == TargetsInv /\ RangeInv /\ [StartupNext]_vars => TargetsInv'
<1> SUFFICES ASSUME TargetsInv, RangeInv, [StartupNext]_vars PROVE TargetsInv' OBVIOUS
<1>1. ASSUME NEW option \in {"once", "dry_run", "discover"}, TakeOption(option)
      PROVE  TargetsInv'
  BY <1>1 DEF TargetsInv, TakeOption, Goto, configVars, Unread, Accepted,
              ValidTargets, Has, Root, Entries
<1>2. CASE TakeConfig
  BY <1>2 DEF TargetsInv, TakeConfig, Goto, configVars, Unread, Accepted,
              ValidTargets, Has, Root, Entries
<1>3. CASE Load
  BY <1>3, NineParts DEF TargetsInv, Load, load_config, Goto, Return, Unread, Accepted
<1>4. CASE Validate
  <2>1. pc = "validate" /\ pc' = "validate" /\ file' = file
    BY <1>4 DEF Validate, Goto, validate_config, CheckKey, CheckTargets, CheckEntry,
                Accept, Refuse
  <2>2. (ValidTargets <=> ValidTargets') BY <2>1 DEF ValidTargets, Has, Root, Entries
  <2>3. CASE at' = at /\ cfg' = cfg
    BY <2>1, <2>2, <2>3, NineParts DEF TargetsInv, Unread, Accepted
  <2>4. CASE CheckKey /\ at' = at + 1
    <3>1. cfg'.targets = cfg.targets /\ at < 9
      <4>1. KeyOrder[at] # "targets"
        <5>1. at \in Nat /\ at # 0 /\ at < 9 BY <2>4, NineParts DEF CheckKey, TargetsInv
        <5>2. at \in 1..8 BY <5>1
        <5>. QED BY <5>2, KeyOrderFacts
      <4>2. at < 9 BY <2>4, NineParts DEF CheckKey
      <4>3. \/ cfg' = cfg
            \/ cfg' = [cfg EXCEPT ![KeyOrder[at]] = Stored(KeyOrder[at], Root[KeyOrder[at]])]
        BY <2>4 DEF CheckKey, Accept, Refuse
      <4>. QED BY <4>1, <4>2, <4>3 DEF RangeInv, ConfigKeys
    <3>. QED BY <2>1, <2>4, <3>1, NineParts DEF TargetsInv, Unread, Accepted
  <2>5. CASE CheckTargets /\ at' = at + 1
    <3>1. cfg' = cfg /\ at = 9 /\ ValidTargets
      BY <2>5, NineParts DEF CheckTargets, Accept, Refuse, TargetsInv
    <3>2. cfg.targets = <<>> BY <3>1, NineParts DEF TargetsInv
    <3>. QED BY <2>1, <2>2, <2>5, <3>1, <3>2, NineParts DEF TargetsInv, Unread, Accepted
  <2>6. CASE CheckEntry /\ at' = at + 1
    <3>1. /\ at > 9 /\ ValidEntry(Entry)
          /\ cfg' = [cfg EXCEPT !.targets = Append(@, Rule(Entry))]
      BY <2>6, NineParts DEF CheckEntry, EntriesLeft, Accept, Refuse, TargetsInv
    <3>2. cfg'.targets = Append(cfg.targets, Rule(Entry))
      BY <3>1 DEF RangeInv, ConfigKeys
    <3>3. Rule(Entry).name_match # "" /\ Rule(Entry).action \in {"stop", "kill"}
      BY <3>1 DEF Rule, ValidEntry
    <3>4. /\ IsSeq(cfg'.targets) /\ Len(cfg'.targets) = Len(cfg.targets) + 1
          /\ \A i \in 1..Len(cfg.targets) : cfg'.targets[i] = cfg.targets[i]
          /\ cfg'.targets[Len(cfg.targets) + 1] = Rule(Entry)
      BY <3>2, AppendFacts DEF TargetsInv
    <3>5. Len(cfg.targets) = at - 10 /\ at \in Nat /\ ValidTargets
      BY <3>1, NineParts DEF TargetsInv
    <3>6. GoodRules(cfg'.targets) BY <3>2, <3>3, AppendGood DEF TargetsInv
    <3>. QED BY <2>1, <2>2, <2>6, <3>1, <3>4, <3>5, <3>6, NineParts
         DEF TargetsInv, Unread, Accepted
  <2>. QED BY <1>4, <2>3, <2>4, <2>5, <2>6
       DEF Validate, validate_config, CheckKey, CheckTargets, CheckEntry, Accept, Refuse
<1>5. CASE ApplyFlag
  <2>1. /\ pc = "validate" /\ pc' = "level" /\ file' = file /\ at' = at
        /\ cfg'.targets = cfg.targets
    BY <1>5 DEF ApplyFlag, Goto, RangeInv, ConfigKeys
  <2>2. at > 9 /\ ~EntriesLeft BY <1>5, NineParts DEF ApplyFlag, Validated
  <2>3. /\ at \in Nat /\ file \in Files /\ Loads(file)
        /\ ValidTargets /\ Len(cfg.targets) = at - 10
    BY <2>1, <2>2, NineParts DEF TargetsInv
  <2>4. Len(Entries) \in Nat \ {0} BY <2>3, EntriesIsSeq
  <2>5. ~(at - 9 <= Len(Entries)) BY <2>2, NineParts DEF EntriesLeft
  <2>6. Len(cfg.targets) > 0 BY <2>3, <2>4, <2>5
  <2>. QED BY <2>1, <2>2, <2>3, <2>6, NineParts
       DEF TargetsInv, Unread, Accepted, ValidTargets, Has, Root, Entries
<1>6. CASE ApplyLevel
  BY <1>6 DEF ApplyLevel, Goto, TargetsInv, RangeInv, ConfigKeys, Unread, Accepted,
              ValidTargets, Has, Root, Entries
<1>7. CASE Quiet
  BY <1>7, QuietIsQuiet, QuietMoves
     DEF TargetsInv, configVars, ValidTargets, Has, Root, Entries
<1>8. CASE UNCHANGED vars
  BY <1>8 DEF vars, startupVars, configVars, TargetsInv, Unread, Accepted,
              ValidTargets, Has, Root, Entries
<1>. QED BY <1>1, <1>2, <1>3, <1>4, <1>5, <1>6, <1>7, <1>8, QuietOrBusy DEF Busy

LEMMA ConsentStep ==
  ConsentInv /\ TargetsInv /\ RangeInv /\ FlagInv /\ [StartupNext]_vars => ConsentInv'
<1> SUFFICES ASSUME ConsentInv, TargetsInv, RangeInv, FlagInv, [StartupNext]_vars
             PROVE  ConsentInv'
  OBVIOUS
<1>1. ASSUME NEW option \in {"once", "dry_run", "discover"}, TakeOption(option)
      PROVE  ConsentInv'
  BY <1>1 DEF ConsentInv, TakeOption, Goto, configVars, engineVars, Unread, Accepted,
              FileConsents, Has, Root
<1>2. CASE TakeConfig
  BY <1>2 DEF ConsentInv, TakeConfig, Goto, configVars, engineVars, Unread, Accepted,
              FileConsents, Has, Root
<1>3. CASE Load
  BY <1>3 DEF ConsentInv, Load, load_config, Goto, Return, engineVars, Unread, Accepted
<1>4. CASE Validate
  <2>1. /\ pc = "validate" /\ pc' = "validate" /\ file' = file /\ Loads(file)
        /\ dry_run_' = dry_run_
    BY <1>4 DEF Validate, Goto, engineVars, validate_config, CheckKey, CheckTargets,
                CheckEntry, Accept, Refuse, TargetsInv
  <2>2. cfg'.dry_run = FALSE => cfg.dry_run = FALSE \/ FileConsents
    <3>1. CASE CheckKey
      <4>1. /\ at \in Nat /\ at # 0 /\ at < 9
        BY <3>1, NineParts DEF CheckKey, TargetsInv
      <4>2. at \in 1..8 BY <4>1
      <4>3. KeyOrder[at] \in ConfigKeys BY <4>2, KeyOrderFacts
      <4>4. \/ cfg' = cfg
            \/ /\ Has(KeyOrder[at])
               /\ cfg' = [cfg EXCEPT ![KeyOrder[at]] = Stored(KeyOrder[at], Root[KeyOrder[at]])]
        BY <3>1 DEF CheckKey, Accept, Refuse
      <4>5. CASE KeyOrder[at] = "dry_run"
        <5>1. Stored("dry_run", Root["dry_run"]) = Root["dry_run"].bool
          BY DEF Stored, IntegerKeys
        <5>. QED BY <2>1, <4>4, <4>5, <5>1 DEF RangeInv, ConfigKeys, FileConsents
      <4>6. CASE KeyOrder[at] # "dry_run"
        BY <4>3, <4>4, <4>6 DEF RangeInv, ConfigKeys
      <4>. QED BY <4>5, <4>6
    <3>2. CASE CheckTargets BY <3>2 DEF CheckTargets, Accept, Refuse
    <3>3. CASE CheckEntry
      <4>1. cfg' = cfg \/ cfg' = [cfg EXCEPT !.targets = Append(@, Rule(Entry))]
        BY <3>3 DEF CheckEntry, Accept, Refuse
      <4>. QED BY <4>1 DEF RangeInv, ConfigKeys
    <3>. QED BY <1>4, <3>1, <3>2, <3>3 DEF Validate, validate_config
  <2>. QED BY <2>1, <2>2 DEF ConsentInv, Unread, Accepted, FileConsents, Has, Root
<1>5. CASE ApplyFlag
  <2>1. /\ pc = "validate" /\ pc' = "level" /\ file' = file /\ dry_run_' = dry_run_
        /\ dry_run_flag' = dry_run_flag
        /\ cfg'.dry_run = IF dry_run_flag THEN TRUE ELSE cfg.dry_run
    BY <1>5 DEF ApplyFlag, Goto, flagVars, engineVars, RangeInv, ConfigKeys
  <2>. QED BY <2>1 DEF ConsentInv, FlagInv, Unread, Accepted, FileConsents, Has, Root
<1>6. CASE ApplyLevel
  <2>1. /\ pc = "level" /\ pc' = "stat" /\ file' = file /\ dry_run_' = dry_run_
        /\ dry_run_flag' = dry_run_flag /\ cfg'.dry_run = cfg.dry_run
    BY <1>6 DEF ApplyLevel, Goto, flagVars, engineVars, RangeInv, ConfigKeys
  <2>. QED BY <2>1 DEF ConsentInv, Unread, Accepted, FileConsents, Has, Root
<1>7. CASE BuildEngine
  BY <1>7 DEF ConsentInv, BuildEngine, Goto, flagVars, configVars, Unread, Accepted,
              FileConsents, Has, Root
<1>8. CASE SafetyWarning
  BY <1>8 DEF ConsentInv, SafetyWarning, Goto, flagVars, configVars, engineVars, Unread,
              Accepted, FileConsents, Has, Root
<1>9. CASE Quiet /\ ~BuildEngine /\ ~SafetyWarning
  <2>1. /\ UNCHANGED <<configVars, flagVars, engineVars>>
        /\ pc' \in {"load", "stat", "signals", "ping", "engine", "exited"}
        /\ pc' \in Unread => pc \in Unread
        /\ pc' \in Accepted => pc \in Accepted /\ pc \notin {"warn", "once", "daemon"}
    BY <1>9 DEF Quiet, ArgsReturn, ArgsEnd, Invalid, BadLevel, CheckSocket,
                install_signal_handlers, Ping, Killed, Goto, Return, Unread, Accepted
  <2>2. pc' = "load" => pc \in Unread
    BY <2>1 DEF Unread
  <2>. QED BY <2>1, <2>2 DEF ConsentInv, flagVars, configVars, engineVars, Unread,
              Accepted, FileConsents, Has, Root
<1>10. CASE UNCHANGED vars
  BY <1>10 DEF vars, startupVars, configVars, ConsentInv, Unread, Accepted,
               FileConsents, Has, Root
<1>. QED
  BY <1>1, <1>2, <1>3, <1>4, <1>5, <1>6, <1>7, <1>8, <1>9, <1>10, QuietOrBusy DEF Busy

----------------------------------------------------------------------------
(* The fault that is reported *)

FaultInv ==
  /\ pc \in Unread => fault = 0
  /\ fault \in Nat
  /\ fault # 0 => Wrong(fault)
  /\ Loads(file) => \A part \in 1..(at - 1) : ~Wrong(part)

\* What is wrong with a part depends on the file alone.
LEMMA WrongStays ==
  ASSUME file' = file, NEW part
  PROVE  Wrong(part)' = Wrong(part)
BY DEF Wrong, ValidTargets, Entries, Has, Root

LEMMA FaultStep == FaultInv /\ TargetsInv /\ [StartupNext]_vars => FaultInv'
<1> SUFFICES ASSUME FaultInv, TargetsInv, [StartupNext]_vars PROVE FaultInv'
  OBVIOUS
<1>1. CASE UNCHANGED <<file, at, fault>> /\ (pc' \in Unread => pc \in Unread)
  <2>1. \A part : Wrong(part)' = Wrong(part)
    BY <1>1, WrongStays
  <2> QED
    BY <1>1, <2>1 DEF FaultInv, Loads
<1>2. CASE Load
  <2>1. pc = "load" /\ UNCHANGED <<at, fault>> /\ pc' # "args"
    BY <1>2 DEF Load, load_config, Goto, Return
  <2>2. at = 1 /\ fault = 0
    BY <2>1 DEF FaultInv, TargetsInv, Unread
  <2> QED
    BY <2>1, <2>2 DEF FaultInv
<1>3. CASE Validate
  <2>1. /\ pc = "validate" /\ pc' = "validate" /\ file' = file /\ Loads(file)
        /\ fault = 0 /\ at \in Nat \ {0} /\ file \in Files
    BY <1>3 DEF Validate, Goto, validate_config, CheckKey, CheckTargets, CheckEntry,
                Accept, Refuse, TargetsInv
  <2>2. \A part : Wrong(part)' = Wrong(part)
    BY <2>1, WrongStays
  <2>3. \/ at' = at + 1 /\ fault' = 0 /\ ~Wrong(at)
        \/ at' = at /\ fault' = at /\ Wrong(at)
    <3>1. CASE CheckKey
      BY <2>1, <3>1, NineParts DEF CheckKey, Accept, Refuse, Wrong
    <3>2. CASE CheckTargets
      BY <2>1, <3>2, NineParts DEF CheckTargets, Accept, Refuse, Wrong
    <3>3. CASE CheckEntry
      <4>1. at > 9 /\ ValidTargets /\ EntriesLeft
        BY <2>1, <3>3, NineParts DEF CheckEntry, EntriesLeft, TargetsInv
      <4>2. Len(Entries) \in Nat
        BY <2>1, <4>1, EntriesIsSeq
      <4>3. at - 9 \in 1..Len(Entries)
        BY <2>1, <4>1, <4>2, NineParts DEF EntriesLeft
      <4>4. Wrong(at) <=> ~ValidEntry(Entry)
        BY <2>1, <4>1, <4>3, NineParts DEF Wrong, Entry
      <4> QED
        BY <2>1, <3>3, <4>4 DEF CheckEntry, Accept, Refuse
    <3> QED
      BY <1>3, <3>1, <3>2, <3>3 DEF Validate, validate_config
  <2>4. \A part \in 1..(at' - 1) : ~Wrong(part)
    <3>1. \A part \in 1..(at - 1) : ~Wrong(part)
      BY <2>1 DEF FaultInv
    <3>2. \A part \in 1..at : part = at \/ part \in 1..(at - 1)
      BY <2>1
    <3> QED
      BY <2>1, <2>3, <3>1, <3>2
  <2> QED
    BY <2>1, <2>2, <2>3, <2>4 DEF FaultInv, Unread
<1>4. CASE UNCHANGED vars
  BY <1>1, <1>4 DEF vars, configVars, startupVars
<1>5. CASE StartupNext /\ ~Load /\ ~Validate
  <2>1. UNCHANGED <<file, at, fault>>
    BY <1>5, QuietOrBusy, QuietIsQuiet
       DEF Busy, TakeOption, TakeConfig, ApplyFlag, ApplyLevel, configVars
  <2>2. pc' \in Unread => pc \in Unread
    BY <1>5, QuietOrBusy, QuietMoves
       DEF Busy, TakeOption, TakeConfig, ApplyFlag, ApplyLevel, Goto, Unread
  <2> QED
    BY <2>1, <2>2, <1>1
<1> QED
  BY <1>2, <1>3, <1>4, <1>5

----------------------------------------------------------------------------
(* The level in force *)

FileLevel == IF Has("log_level") THEN Lower[Trim[Root["log_level"].string]] ELSE "info"
AskedLevel == IF env # "" THEN Lower[env] ELSE FileLevel

Leveled == {"stat", "signals", "ping", "engine", "warn", "once", "daemon"}

LevelInv ==
  /\ level \in Levels /\ cfg.log_level \in Levels
  /\ pc \in Unread => cfg.log_level = "info"
  /\ pc = "validate" => cfg.log_level = IF at > 8 THEN FileLevel ELSE "info"
  /\ pc = "level" => cfg.log_level = FileLevel
  /\ pc \in Unread \cup {"validate", "level"} => level = InitialLevel(env)
  /\ pc \in Leveled => level = AskedLevel

LEMMA LastKey == KeyOrder[8] = "log_level" /\ \A i \in 1..7 : KeyOrder[i] # "log_level"
BY DEF KeyOrder

LEMMA LevelStep == LevelInv /\ TargetsInv /\ RangeInv /\ [StartupNext]_vars => LevelInv'
<1> SUFFICES ASSUME LevelInv, TargetsInv, RangeInv, [StartupNext]_vars PROVE LevelInv'
  OBVIOUS
<1>1. file' = file => FileLevel' = FileLevel
  BY DEF FileLevel, Has, Root
<1>2. file' = file /\ env' = env => AskedLevel' = AskedLevel /\ InitialLevel(env)' = InitialLevel(env)
  BY <1>1, Zenon DEF AskedLevel, InitialLevel
<1>3. env' = env
  BY DEF StartupNext, Main, ReadArguments, TakeOption, TakeConfig, ArgsReturn, ArgsEnd,
         Load, Validate, Invalid, ApplyFlag, ApplyLevel, BadLevel, CheckSocket,
         install_signal_handlers, Ping, BuildEngine, SafetyWarning, Killed, vars,
         startupVars
<1>4. CASE Load
  <2>1. /\ pc = "load" /\ pc' \in {"validate", "exited"} /\ cfg' = cfg /\ at' = at
        /\ level' = level /\ at = 1
    BY <1>4 DEF Load, load_config, Goto, Return, TargetsInv, Unread
  <2>2. InitialLevel(env)' = InitialLevel(env)
    BY <1>3, Zenon DEF InitialLevel
  <2> QED
    BY <2>1, <2>2 DEF LevelInv, Unread, Leveled
<1>5. CASE Validate
  <2>1. /\ pc = "validate" /\ pc' = "validate" /\ file' = file /\ level' = level
        /\ at \in Nat \ {0}
    BY <1>5 DEF Validate, Goto, validate_config, CheckKey, CheckTargets, CheckEntry,
                Accept, Refuse, TargetsInv
  <2>2. /\ cfg'.log_level = IF at' > 8 THEN FileLevel ELSE "info"
        /\ cfg'.log_level \in Levels
    <3>1. CASE at' = at /\ cfg' = cfg
      BY <2>1, <3>1 DEF LevelInv
    <3>2. CASE at' = at + 1 /\ at # 8 /\ cfg'.log_level = cfg.log_level
      BY <2>1, <3>2 DEF LevelInv
    <3>3. CASE CheckKey /\ at' = at + 1
      <4>1. at \in 1..8
        BY <2>1, <3>3, NineParts DEF CheckKey
      <4>2. \/ ~Has(KeyOrder[at]) /\ cfg' = cfg
            \/ /\ Has(KeyOrder[at]) /\ Valid(KeyOrder[at], Root[KeyOrder[at]])
               /\ cfg' = [cfg EXCEPT ![KeyOrder[at]] = Stored(KeyOrder[at], Root[KeyOrder[at]])]
        BY <2>1, <3>3 DEF CheckKey, Accept, Refuse
      <4>3. CASE at # 8
        <5>1. KeyOrder[at] # "log_level"
          BY <4>1, <4>3, LastKey
        <5>2. cfg'.log_level = cfg.log_level
          BY <4>2, <5>1 DEF RangeInv, ConfigKeys
        <5> QED
          BY <3>2, <3>3, <4>3, <5>2
      <4>4. CASE at = 8
        <5>1. KeyOrder[at] = "log_level"
          BY <4>4, LastKey
        <5>2. CASE ~Has("log_level")
          <6>1. cfg' = cfg
            BY <4>2, <5>1, <5>2
          <6> QED
            BY <2>1, <3>3, <4>4, <5>2, <6>1 DEF LevelInv, FileLevel
        <5>3. CASE Has("log_level")
          <6> DEFINE v == Root["log_level"]
          <6>1. cfg'.log_level = Stored("log_level", v) /\ Valid("log_level", v)
            BY <4>2, <5>1, <5>3 DEF RangeInv, ConfigKeys
          <6>2. Stored("log_level", v) = Lower[Trim[v.string]]
            BY DEF Stored, IntegerKeys
          <6>3. Lower[Trim[v.string]] \in Levels
            BY <6>1 DEF Valid, IntegerKeys
          <6> QED
            BY <3>3, <4>4, <5>3, <6>1, <6>2, <6>3 DEF FileLevel
        <5> QED
          BY <5>2, <5>3
      <4> QED
        BY <4>3, <4>4
    <3>4. CASE (CheckTargets \/ CheckEntry) /\ at' = at + 1
      <4>1. at # 8
        BY <3>4, NineParts DEF CheckTargets, CheckEntry, EntriesLeft
      <4>2. cfg'.log_level = cfg.log_level
        BY <3>4 DEF CheckTargets, CheckEntry, Accept, Refuse, RangeInv, ConfigKeys
      <4> QED
        BY <3>2, <3>4, <4>1, <4>2
    <3> QED
      BY <1>5, <3>1, <3>3, <3>4 DEF Validate, validate_config, CheckKey, CheckTargets,
                                    CheckEntry, Accept, Refuse
  <2> QED
    BY <1>1, <1>2, <1>3, <2>1, <2>2 DEF LevelInv, Unread, Leveled
<1>6. CASE ApplyFlag
  <2>1. /\ pc = "validate" /\ pc' = "level" /\ file' = file /\ level' = level
        /\ at > 9 /\ cfg'.log_level = cfg.log_level /\ at \in Nat
    BY <1>6, NineParts DEF ApplyFlag, Goto, Validated, RangeInv, ConfigKeys, TargetsInv
  <2> QED
    BY <1>1, <1>2, <1>3, <2>1 DEF LevelInv, Unread, Leveled
<1>7. CASE ApplyLevel
  <2>1. /\ pc = "level" /\ pc' = "stat" /\ file' = file
        /\ cfg'.log_level = level' /\ cfg.log_level = FileLevel
    BY <1>7 DEF ApplyLevel, Goto, RangeInv, ConfigKeys, LevelInv
  <2>2. level' = AskedLevel
    BY <1>7, <2>1, Zenon DEF ApplyLevel, AskedLevel
  <2>3. level' \in Levels
    BY <1>7, Zenon DEF ApplyLevel, LevelInv
  <2> QED
    BY <1>2, <1>3, <2>1, <2>2, <2>3 DEF LevelInv, Unread, Leveled
<1>8. CASE \/ (\E option \in {"once", "dry_run", "discover"} : TakeOption(option))
           \/ TakeConfig
  <2>1. pc = "args" /\ pc' = "args" /\ UNCHANGED <<cfg, at, file, level>>
    BY <1>8 DEF TakeOption, TakeConfig, Goto, configVars
  <2> QED
    BY <1>1, <1>2, <1>3, <2>1 DEF LevelInv, Unread, Leveled
<1>9. CASE Quiet \/ UNCHANGED vars
  <2>1. UNCHANGED <<cfg, at, file, level>>
    BY <1>9, QuietIsQuiet
       DEF configVars, vars, startupVars, Quiet, ArgsReturn, ArgsEnd, Invalid, BadLevel,
           CheckSocket, install_signal_handlers, Ping, BuildEngine, SafetyWarning, Killed
  <2>2. \/ pc' = pc \/ pc' = "exited"
        \/ pc' = "load" /\ pc \in Unread
        \/ pc' \in Leveled /\ pc \in Leveled
    BY <1>9 DEF vars, startupVars, Quiet, ArgsReturn, ArgsEnd, Invalid, BadLevel,
                CheckSocket, install_signal_handlers, Ping, BuildEngine, SafetyWarning,
                Killed, Goto, Return, Unread, Leveled
  <2> QED
    BY <1>1, <1>2, <1>3, <2>1, <2>2 DEF LevelInv, Unread, Leveled
<1> QED
  BY <1>4, <1>5, <1>6, <1>7, <1>8, <1>9, QuietOrBusy DEF Busy

----------------------------------------------------------------------------
(* What the log has told *)

DefaultExplained == ~Has("dry_run") /\ env # "error" => "dry_run not set" \in told

ToldInv ==
  /\ pc \in {"level"} \cup Leveled => DefaultExplained
  /\ pc \in Unread \cup {"validate", "level"} \cup (Leveled \ {"once", "daemon"}) =>
       "blast radius" \notin told
  /\ Acting /\ Live /\ level # "error" => "blast radius" \in told
  /\ Acting /\ "blast radius" \in told => Live

BoolInv == cfg.dry_run \in BOOLEAN /\ dry_run_ \in BOOLEAN

LEMMA BoolStep ==
  ASSUME BoolInv, TargetsInv, RangeInv, [StartupNext]_vars
  PROVE  BoolInv'
<1>1. CASE UNCHANGED <<cfg, dry_run_>>
  BY <1>1 DEF BoolInv
<1>2. CASE Validate
  <2>1. /\ pc = "validate" /\ dry_run_' = dry_run_ /\ Loads(file) /\ file \in Files
    BY <1>2 DEF Validate, Goto, engineVars, TargetsInv
  <2>2. CASE CheckKey
    <3>1. at \in 1..8
      BY <2>2, NineParts DEF CheckKey, TargetsInv
    <3>2. KeyOrder[at] \in ConfigKeys
      BY <3>1, KeyOrderFacts
    <3>3. \/ cfg' = cfg
          \/ /\ Has(KeyOrder[at]) /\ Valid(KeyOrder[at], Root[KeyOrder[at]])
             /\ cfg' = [cfg EXCEPT ![KeyOrder[at]] = Stored(KeyOrder[at], Root[KeyOrder[at]])]
      BY <2>2 DEF CheckKey, Accept, Refuse
    <3>4. CASE KeyOrder[at] # "dry_run"
      BY <2>1, <3>2, <3>3, <3>4 DEF BoolInv, RangeInv, ConfigKeys
    <3>5. CASE KeyOrder[at] = "dry_run" /\ cfg' # cfg
      <4> DEFINE v == Root["dry_run"]
      <4>1. cfg'.dry_run = Stored("dry_run", v) /\ Has("dry_run") /\ Valid("dry_run", v)
        BY <3>2, <3>3, <3>5 DEF RangeInv, ConfigKeys
      <4>2. Stored("dry_run", v) = v.bool
        BY DEF Stored, IntegerKeys
      <4>3. Is("bool", v)
        BY <4>1 DEF Valid, IntegerKeys
      <4>4. v.bool \in BOOLEAN
        BY <2>1, <4>1, <4>3, StartupAssumption DEF Has, Root
      <4> QED
        BY <2>1, <4>1, <4>2, <4>4 DEF BoolInv
    <3> QED
      BY <2>1, <3>4, <3>5, <1>1
  <2>3. CASE CheckTargets \/ CheckEntry
    BY <2>1, <2>3 DEF CheckTargets, CheckEntry, Accept, Refuse, BoolInv, RangeInv, ConfigKeys
  <2> QED
    BY <1>2, <2>2, <2>3 DEF Validate, validate_config
<1>3. CASE ApplyFlag
  BY <1>3 DEF ApplyFlag, engineVars, BoolInv, RangeInv, ConfigKeys
<1>4. CASE ApplyLevel
  BY <1>4 DEF ApplyLevel, engineVars, BoolInv, RangeInv, ConfigKeys
<1>5. CASE BuildEngine
  BY <1>5 DEF BuildEngine, configVars, BoolInv
<1>6. CASE ~Validate /\ ~ApplyFlag /\ ~ApplyLevel /\ ~BuildEngine
  <2>1. UNCHANGED <<cfg, dry_run_>>
    BY <1>6 DEF StartupNext, Main, ReadArguments, TakeOption, TakeConfig, ArgsReturn,
         ArgsEnd, Load, load_config, Invalid, BadLevel, CheckSocket,
         install_signal_handlers, Ping, SafetyWarning, Killed, vars, startupVars,
         configVars, engineVars
  <2> QED
    BY <1>1, <2>1
<1> QED
  BY <1>2, <1>3, <1>4, <1>5, <1>6

LEMMA Warned ==
  ASSUME level \in Levels, NEW line, Log("warn", line)
  PROVE  /\ told' = told \/ told' = told \cup {line}
         /\ level # "error" => line \in told'
BY DEF Log, Levels, Severity

LEMMA ToldStep ==
  ASSUME ToldInv, LevelInv, ConsentInv, FlagInv, BoolInv, [StartupNext]_vars
  PROVE  ToldInv'
<1>1. env' = env
  BY DEF StartupNext, Main, ReadArguments, TakeOption, TakeConfig, ArgsReturn, ArgsEnd,
         Load, Validate, Invalid, ApplyFlag, ApplyLevel, BadLevel, CheckSocket,
         install_signal_handlers, Ping, BuildEngine, SafetyWarning, Killed, vars,
         startupVars
<1>2. CASE ApplyFlag
  <2>1. /\ pc = "validate" /\ pc' = "level" /\ file' = file /\ level \in Levels
        /\ level = InitialLevel(env)
        /\ IF Has("dry_run") THEN told' = told ELSE Log("warn", "dry_run not set")
    BY <1>2 DEF ApplyFlag, Goto, LevelInv
  <2>2. "blast radius" \notin told'
    <3>1. "blast radius" \notin told
      BY <2>1 DEF ToldInv
    <3>2. told' = told \/ told' = told \cup {"dry_run not set"}
      BY <2>1, Warned
    <3>3. "blast radius" # "dry_run not set"
      OBVIOUS
    <3> QED
      BY <3>1, <3>2, <3>3, Zenon
  <2>3. level = "error" => env = "error"
    BY <2>1 DEF InitialLevel
  <2>4. DefaultExplained'
    BY <1>1, <2>1, <2>3, Warned DEF DefaultExplained, Has, Root
  <2> QED
    BY <2>1, <2>2, <2>4 DEF ToldInv, Unread, Leveled, Acting
<1>3. CASE SafetyWarning
  <2>1. /\ pc = "warn" /\ pc' \in {"once", "daemon"} /\ file' = file /\ level' = level
        /\ UNCHANGED <<dry_run_, discover_only>>
        /\ discover_only = discover_flag
        /\ dry_run_ \in BOOLEAN /\ discover_flag \in BOOLEAN
        /\ level \in Levels /\ DefaultExplained /\ "blast radius" \notin told
    BY <1>3 DEF SafetyWarning, Goto, configVars, engineVars, LevelInv, ConsentInv,
                ToldInv, Leveled, Unread, FlagInv, BoolInv
  <2>2. told \subseteq told'
    BY <1>3 DEF SafetyWarning, Log
  <2>3. DefaultExplained'
    BY <1>1, <2>1, <2>2 DEF DefaultExplained, Has, Root
  <2>4. CASE discover_flag
    BY <1>3, <2>1, <2>3, <2>4 DEF SafetyWarning, ToldInv, Acting, Live, Leveled, Unread
  <2>5. CASE ~discover_flag /\ dry_run_
    <3>1. "blast radius" \notin told'
      <4>1. told' = told \/ told' = told \cup {"dry-run mode"}
        BY <1>3, <2>5 DEF SafetyWarning, Log
      <4>2. "blast radius" \notin told /\ "blast radius" # "dry-run mode"
        BY <2>1
      <4> QED
        BY <4>1, <4>2, Zenon
    <3> QED
      BY <2>1, <2>3, <2>5, <3>1 DEF ToldInv, Acting, Live, Leveled, Unread
  <2>6. CASE ~discover_flag /\ ~dry_run_
    <3>1. Log("warn", "blast radius")
      BY <1>3, <2>6 DEF SafetyWarning
    <3>2. level # "error" => "blast radius" \in told'
      BY <2>1, <3>1, Warned
    <3> QED
      BY <2>1, <2>3, <2>6, <3>2 DEF ToldInv, Acting, Live, Leveled, Unread
  <2> QED
    BY <2>4, <2>5, <2>6
<1>4. CASE \/ (\E option \in {"once", "dry_run", "discover"} : TakeOption(option))
           \/ TakeConfig \/ Load \/ Validate \/ ApplyLevel
  <2>1. /\ told' = told
        /\ \/ pc = "args" /\ pc' = "args"
           \/ pc = "load" /\ pc' \in {"validate", "exited"}
           \/ pc = "validate" /\ pc' = "validate"
           \/ pc = "level" /\ pc' = "stat" /\ file' = file
    BY <1>4 DEF TakeOption, TakeConfig, Load, Validate, ApplyLevel, Goto, Return
  <2>2. pc = "level" /\ pc' = "stat" /\ file' = file => DefaultExplained'
    BY <1>1, <2>1 DEF ToldInv, DefaultExplained, Has, Root
  <2> QED
    BY <2>1, <2>2 DEF ToldInv, Unread, Leveled, Acting
<1>5. CASE Quiet /\ ~SafetyWarning
  <2>1. /\ told' = told /\ file' = file
        /\ \/ pc = "args" /\ pc' \in {"exited", "load"}
           \/ pc' = "exited"
           \/ pc \in Leveled \cup {"level"} /\ pc' \in {"stat", "signals", "ping", "engine", "warn"}
              /\ pc \notin {"once", "daemon"}
    BY <1>5, QuietIsQuiet
       DEF configVars, Quiet, ArgsReturn, ArgsEnd, Invalid, BadLevel, CheckSocket,
           install_signal_handlers, Ping, BuildEngine, Killed, Goto, Return, Leveled
  <2>2. DefaultExplained => DefaultExplained'
    BY <1>1, <2>1 DEF DefaultExplained, Has, Root
  <2> QED
    BY <2>1, <2>2 DEF ToldInv, Unread, Leveled, Acting
<1>6. CASE UNCHANGED vars
  BY <1>6 DEF vars, startupVars, configVars, ToldInv, DefaultExplained, Has, Root,
              Unread, Leveled, Acting, Live
<1> QED
  BY <1>2, <1>3, <1>4, <1>5, <1>6, QuietOrBusy DEF Busy

\* The rest of the types.
TypeInv ==
  /\ pc \in {"args", "load", "validate", "level", "stat", "signals", "ping",
             "engine", "warn", "once", "daemon", "exited"}
  /\ args \in 0..MaxArgs /\ given \subseteq {"once", "dry_run", "discover"}
  /\ once \in BOOLEAN /\ blocked \in BOOLEAN /\ discover_only \in BOOLEAN
  /\ told \subseteq {"dry_run not set", "dry-run mode", "blast radius"}
  /\ status \in {"none", "success", "failure", "killed"}

LEMMA BoundIsNatural == MaxArgs \in Nat
BY StartupAssumption

LEMMA FewerArguments ==
  ASSUME NEW M \in Nat, NEW a \in 0..M
  PROVE  (a > 0 => a - 1 \in 0..M) /\ (a > 1 => a - 2 \in 0..M)
OBVIOUS

LEMMA TypeStep ==
  ASSUME TypeInv, FlagInv, [StartupNext]_vars
  PROVE  TypeInv'
<1>. USE DEF TypeInv
<1>1. ASSUME NEW option \in {"once", "dry_run", "discover"}, TakeOption(option)
      PROVE  TypeInv'
  <2>1. args' \in 0..MaxArgs
    BY <1>1, BoundIsNatural, FewerArguments DEF TakeOption
  <2>2. given' \subseteq {"once", "dry_run", "discover"}
    BY <1>1 DEF TakeOption
  <2>3. once' \in BOOLEAN
    BY <1>1 DEF TakeOption
  <2> QED
    BY <1>1, <2>1, <2>2, <2>3 DEF TakeOption, Goto, engineVars
<1>2. CASE TakeConfig
  <2>1. args' \in 0..MaxArgs
    BY <1>2, BoundIsNatural, FewerArguments DEF TakeConfig
  <2> QED
    BY <1>2, <2>1 DEF TakeConfig, Goto, engineVars
<1>3. CASE Load
  BY <1>3 DEF Load, Goto, Return, flagVars, engineVars
<1>4. CASE Validate \/ ApplyLevel
  BY <1>4 DEF Validate, ApplyLevel, Goto, flagVars, engineVars
<1>5. CASE ApplyFlag
  BY <1>5 DEF ApplyFlag, Goto, Log, flagVars, engineVars
<1>6. CASE SafetyWarning
  <2>1. told' \subseteq {"dry_run not set", "dry-run mode", "blast radius"}
    BY <1>6 DEF SafetyWarning, Log
  <2> QED
    BY <1>6, <2>1 DEF SafetyWarning, Goto, flagVars, engineVars
<1>7. CASE BuildEngine
  BY <1>7 DEF BuildEngine, Goto, flagVars, FlagInv
<1>8. CASE Quiet /\ ~BuildEngine /\ ~SafetyWarning
  BY <1>8 DEF Quiet, ArgsReturn, ArgsEnd, Invalid, BadLevel, CheckSocket,
              install_signal_handlers, Ping, Killed, Goto, Return, flagVars, engineVars
<1>9. CASE UNCHANGED vars
  BY <1>9 DEF vars, startupVars
<1> QED
  BY <1>1, <1>2, <1>3, <1>4, <1>5, <1>6, <1>7, <1>8, <1>9, QuietOrBusy DEF Busy

ReportInv == FaultInv /\ LevelInv /\ BoolInv /\ ToldInv /\ TypeInv

LEMMA ReportInvInit == StartupInit => ReportInv
<1> SUFFICES ASSUME StartupInit PROVE ReportInv
  OBVIOUS
<1>1. /\ pc = "args" /\ args \in 0..MaxArgs /\ given = {} /\ once = FALSE
      /\ blocked = FALSE /\ dry_run_ = TRUE /\ discover_only = FALSE /\ told = {}
      /\ status = "none" /\ level = InitialLevel(env)
      /\ file = [state |-> "unread"] /\ cfg = Defaults /\ at = 1 /\ fault = 0
  BY DEF StartupInit, ConfigInit
<1>2. cfg.dry_run = TRUE /\ cfg.log_level = "info"
  BY <1>1 DEF Defaults
<1>3. InitialLevel(env) \in Levels
  BY DEF InitialLevel, Levels
<1>4. FaultInv
  BY <1>1 DEF FaultInv
<1>5. LevelInv
  BY <1>1, <1>2, <1>3 DEF LevelInv, Leveled, Unread, Levels
<1>6. BoolInv /\ TypeInv
  BY <1>1, <1>2 DEF BoolInv, TypeInv
<1>7. ToldInv
  BY <1>1 DEF ToldInv, Leveled, Unread, Acting
<1> QED
  BY <1>4, <1>5, <1>6, <1>7 DEF ReportInv

----------------------------------------------------------------------------
(* The theorems *)

\* The inductive invariant: flags, ranges, rules and consent at every point.
THEOREM StartupInvariant == StartupSpec => []StartupInv
<1>1. StartupInit => StartupInv BY StartupInvInit
<1>2. StartupInv /\ [StartupNext]_vars => StartupInv'
  BY FlagStep, RangeStep, TargetsStep, ConsentStep DEF StartupInv
<1>. QED BY <1>1, <1>2, PTL DEF StartupSpec

\* "Real destruction requires an explicit dry_run: false" (README:13-14): for
\* every file, command line and environment, main() lets an engine strike only
\* if the file says so and neither -n nor -d was given.
THEOREM LiveConsent == StartupSpec => []LiveNeedsConsent
<1>1. StartupInv => LiveNeedsConsent
  <2> SUFFICES ASSUME StartupInv, Live PROVE FileConsents /\ given \cap {"dry_run", "discover"} = {}
    BY DEF LiveNeedsConsent, FileConsents
  <2>1. cfg.dry_run = FALSE /\ discover_flag = FALSE
    BY DEF StartupInv, ConsentInv, Live, Acting
  <2>2. dry_run_flag = FALSE /\ FileConsents
    BY <2>1 DEF StartupInv, ConsentInv, Live, Acting, Accepted
  <2>. QED BY <2>1, <2>2 DEF StartupInv, FlagInv
<1>. QED BY <1>1, StartupInvariant, PTL

\* validate_config() checks the ranges that the README documents.
LEMMA CheckedAsDocumented ==
  /\ DOMAIN Documented = IntegerKeys
  /\ \A key \in IntegerKeys : Low[key]..High[key] = Documented[key]
<1>1. /\ OneDay = MaxInterval /\ TenMinutes = MaxStopTimeout
      /\ Thousand = MaxPerCycle /\ Million = MaxPerRun
  BY SMT DEF OneDay, TenMinutes, Thousand, Million, MaxInterval, MaxStopTimeout,
             MaxPerCycle, MaxPerRun
<1>2. DOMAIN Documented = IntegerKeys
  BY DEF Documented, IntegerKeys
<1>3. ASSUME NEW key \in IntegerKeys PROVE Low[key]..High[key] = Documented[key]
  BY <1>1, <1>3 DEF Documented, IntegerKeys, Low, High
<1> QED BY <1>2, <1>3

\* "A bad config never reaches the engine" (README:74-75): whatever the file
\* holds, the engine gets values within the documented ranges and good rules.
THEOREM EngineGetsRanges == StartupSpec => []EngineWithinRanges
<1>1. StartupInv => EngineWithinRanges
  <2> SUFFICES ASSUME StartupInv, Acting PROVE EngineWithinRanges
    BY DEF EngineWithinRanges
  <2>1. /\ \A key \in IntegerKeys : cfg[key] \in Low[key]..High[key]
        /\ cfg.chaos_probability \in 0..2
    BY DEF StartupInv, RangeInv, NumbersInRange
  <2>2. \A key \in DOMAIN Documented : cfg[key] \in Documented[key]
    BY <2>1, CheckedAsDocumented
  <2>3. Len(cfg.targets) > 0 /\ GoodRules(cfg.targets)
    BY DEF StartupInv, TargetsInv, Acting, Accepted
  <2>. QED BY <2>1, <2>2, <2>3 DEF EngineWithinRanges
<1>. QED BY <1>1, StartupInvariant, PTL

\* The rest of the invariant: the fault, the level, the log and the types, on
\* top of the flags and rules above.
THEOREM ReportInvariant == StartupSpec => []ReportInv
<1>1. StartupInit => ReportInv
  BY ReportInvInit
<1>2. StartupInv /\ ReportInv /\ [StartupNext]_vars => ReportInv'
  <2> SUFFICES ASSUME StartupInv, ReportInv, [StartupNext]_vars PROVE ReportInv'
    OBVIOUS
  <2>1. FlagInv /\ RangeInv /\ TargetsInv /\ ConsentInv
    BY DEF StartupInv
  <2>2. FaultInv /\ LevelInv /\ BoolInv /\ ToldInv /\ TypeInv
    BY DEF ReportInv
  <2>3. FaultInv' /\ LevelInv' /\ BoolInv'
    BY <2>1, <2>2, FaultStep, LevelStep, BoolStep
  <2>4. ToldInv' /\ TypeInv'
    BY <2>1, <2>2, ToldStep, TypeStep
  <2> QED
    BY <2>3, <2>4 DEF ReportInv
<1>. QED BY <1>1, <1>2, StartupInvariant, PTL DEF StartupSpec

\* Every variable of main() keeps to its domain, for any file and arguments.
THEOREM StartupTypeCorrect == StartupSpec => []StartupTypeOK
<1>1. StartupInv /\ ReportInv => StartupTypeOK
  <2> SUFFICES ASSUME StartupInv, ReportInv PROVE StartupTypeOK
    OBVIOUS
  <2>1. TypeInv /\ BoolInv /\ level \in Levels /\ fault \in Nat
    BY DEF ReportInv, LevelInv, FaultInv
  <2>2. dry_run_flag \in BOOLEAN /\ discover_flag \in BOOLEAN /\ at \in Nat
    BY DEF StartupInv, FlagInv, TargetsInv
  <2> QED
    BY <2>1, <2>2 DEF StartupTypeOK, TypeInv, BoolInv
<1>. QED BY <1>1, StartupInvariant, ReportInvariant, PTL

\* validate_config() throws for the first part of the file that is wrong, and
\* only for a part that is, however long the list of targets.
THEOREM FirstFault == StartupSpec => []FirstFaultIsReported
<1>1. ReportInv => FirstFaultIsReported
  <2> SUFFICES ASSUME ReportInv PROVE FirstFaultIsReported
    OBVIOUS
  <2>1. FaultInv
    BY DEF ReportInv
  <2>2. ASSUME fault \in DOMAIN KeyOrder, KeyOrder[fault] \in DOMAIN Documented
        PROVE  ~IsDocumented(KeyOrder[fault], Root[KeyOrder[fault]])
    <3>1. fault \in 1..8
      BY <2>2 DEF KeyOrder
    <3>2. ~Valid(KeyOrder[fault], Root[KeyOrder[fault]])
      BY <2>1, <3>1, NineParts DEF FaultInv, Wrong
    <3> QED BY <2>2, <3>2, CheckedAsDocumented DEF Valid, Integral, IsDocumented
  <2> QED BY <2>1, <2>2 DEF FaultInv, FirstFaultIsReported
<1>. QED BY <1>1, ReportInvariant, PTL

\* The level in force is the environment's, else the file's, else "info".
THEOREM LevelAsAsked == StartupSpec => []LevelIsAsAsked
<1>1. ReportInv => LevelIsAsAsked
  <2> SUFFICES ASSUME ReportInv, Acting PROVE level = AskedLevel
    BY Zenon DEF LevelIsAsAsked, AskedLevel, FileLevel
  <2>1. pc \in Leveled
    BY DEF Acting, Leveled
  <2> QED
    BY <2>1 DEF ReportInv, LevelInv
<1>. QED BY <1>1, ReportInvariant, PTL

\* The mode of the run is in the log: the caps if and, unless only errors are
\* logged, whenever it may strike; and why, if it is dry by default.
THEOREM ModeHeard == StartupSpec => []ModeIsHeard
<1>1. ReportInv => ModeIsHeard
  <2> SUFFICES ASSUME ReportInv, Acting PROVE ModeIsHeard
    BY DEF ModeIsHeard
  <2>1. pc \in Leveled /\ ToldInv
    BY DEF Acting, Leveled, ReportInv
  <2>2. DefaultExplained
    BY <2>1 DEF ToldInv
  <2> QED
    BY <2>1, <2>2 DEF ToldInv, ModeIsHeard, DefaultExplained
<1>. QED BY <1>1, ReportInvariant, PTL
=============================================================================
