---------------------------- MODULE ChaosEngine ----------------------------
(***************************************************************************)
(* One tick of the chaos engine (src/engine.cpp): guard, discover, match,  *)
(* guard, roll, budget, and a sweep that strikes the selected containers   *)
(* one by one, each behind a third guard -- while other threads may        *)
(* request a stop and the Docker Engine answers, answers late or not at    *)
(* all.  The module extends ShutdownState: deps_.shutdown.                 *)
(*                                                                         *)
(* A container is the number of its place in the Engine's listing.  The    *)
(* vectors of the code, which are all subsequences of that listing, are    *)
(* sets of these numbers read in increasing order.                         *)
(***************************************************************************)
EXTENDS ShutdownState, Integers, FiniteSets, Sequences

CONSTANTS Container,  \* the containers of the host, numbered in listing order
          Restless,   \* those that also come and go for reasons of their own
          WellFormed, \* those whose listing entry has a 64-hex Id
          Names,      \* Names[c]: the normalized names of a container
          Substrings, \* <<name, needle>>: needle occurs in name
          Configs,    \* the configurations the process may be started with
          MaxTicks    \* bound: ticks per process lifetime

ASSUME EngineAssumption ==
  /\ Container \subseteq Nat /\ IsFiniteSet(Container)
  /\ WellFormed \subseteq Container /\ Restless \subseteq Container
  /\ MaxTicks \in Nat
  /\ \A cfg \in Configs : /\ cfg.dry_run \in BOOLEAN
                          /\ cfg.discover_only \in BOOLEAN
                          /\ cfg.max_actions_per_cycle \in Int
                          /\ cfg.max_actions_per_run \in Int
                          /\ \A r \in DOMAIN cfg.targets :
                               cfg.targets[r].action \in {"stop", "kill"}

VARIABLES
  cfg_,             \* cfg_, dry_run_ and deps_.discover_only
  phase,            \* where the tick is; "idle" between ticks
  matched,          \* match_containers()'s result
  selected,         \* action_budget()'s result
  todo,             \* the part of selected the sweep has not dealt with
  counters_, run_budget_used_,
  \* The Docker Engine, and what is on the wire.
  up,               \* running containers
  wire,             \* the strike request in flight, as the client may find it
  orphans,          \* requests the client gave up on and the Engine still runs
  \* History, for the properties.
  ticks,            \* ticks begun
  posted,           \* the strikes POSTed in this tick, in order, each with
                    \* the run budget charged when it left
  late,             \* POSTs sent when a stop had already been requested
  downs             \* containers a POST took down

engineVars == <<cfg_, phase, matched, selected, todo, counters_, run_budget_used_>>
dockerVars == <<up, wire, orphans>>
historyVars == <<ticks, posted, late, downs>>
allEngineVars == <<engineVars, dockerVars, historyVars>>

----------------------------------------------------------------------------
(* Discovery and matching (src/discovery.cpp) and the budget (src/chaos.cpp) *)

contains_substring(name, needle) == needle # "" /\ <<name, needle>> \in Substrings

Hits(c) ==
  {r \in DOMAIN cfg_.targets :
     \E name \in Names[c] : contains_substring(name, cfg_.targets[r].name_match)}

match_containers(running) == {c \in running : Hits(c) # {}}

\* max_actions_per_cycle and max_actions_per_run as action_budget clamps them.
PerCycle == IF cfg_.max_actions_per_cycle < 1 THEN 1 ELSE cfg_.max_actions_per_cycle
Limited  == cfg_.max_actions_per_run > 0

\* Mutant: the run budget forgets what earlier ticks have used.
Allowed_NoMemory ==
  IF Limited /\ cfg_.max_actions_per_run < PerCycle
  THEN cfg_.max_actions_per_run ELSE PerCycle

Allowed ==
  LET remaining == cfg_.max_actions_per_run - run_budget_used_
  IN  IF ~Limited THEN PerCycle
      ELSE IF remaining <= 0 THEN 0
      ELSE IF remaining < PerCycle THEN remaining ELSE PerCycle

\* How many of armed come before c in the listing.
Before(armed, c) == Cardinality({d \in armed : d < c})

\* Mutants: one too many; counting over the whole host.
action_budget_OffByOne(armed) == {c \in armed : Before(armed, c) <= Allowed}
action_budget_Unarmed(armed)  == {c \in Container : Before(Container, c) < Allowed}

action_budget(armed) == {c \in armed : Before(armed, c) < Allowed}

\* Mutant: the sweep takes its targets in any order.
IsNext_AnyOrder(c) == c \in todo

IsNext(c) == c \in todo /\ \A d \in todo : c <= d
\* The first rule, in file order, that one of c's names satisfies.
IsFirstRule(c, r) == r \in Hits(c) /\ \A q \in Hits(c) : r <= q

----------------------------------------------------------------------------
EngineInit ==
  /\ ShutdownInit
  /\ cfg_ \in Configs
  /\ phase = "idle"
  /\ matched = {} /\ selected = {} /\ todo = {}
  /\ counters_ = [rolls |-> 0, strikes |-> 0, errors |-> 0]
  /\ run_budget_used_ = 0
  /\ up = Container
  /\ wire = "none" /\ orphans = {}
  /\ ticks = 0 /\ posted = <<>> /\ late = 0 /\ downs = 0

Count(counter) == counters_' = [counters_ EXCEPT ![counter] = @ + 1]

\* The caller enters tick().
Tick ==
  /\ phase = "idle"
  /\ ticks < MaxTicks
  /\ phase' = "guard1"
  /\ matched' = {} /\ selected' = {} /\ todo' = {}
  /\ ticks' = ticks + 1
  /\ posted' = <<>>
  /\ UNCHANGED <<cfg_, counters_, run_budget_used_, dockerVars, late, downs>>

Guard1 ==
  /\ phase = "guard1"
  /\ phase' = IF state_ THEN "idle" ELSE "list"
  /\ UNCHANGED <<cfg_, matched, selected, todo, counters_, run_budget_used_,
                 dockerVars, historyVars>>

\* list_containers() fails: no connection, a timeout, not a 2xx, bad JSON.
ListFails ==
  /\ phase = "list"
  /\ Count("errors")
  /\ phase' = "idle"
  /\ UNCHANGED <<cfg_, matched, selected, todo, run_budget_used_, dockerVars, historyVars>>

\* Entries with a malformed Id are dropped while the listing is parsed.
ListSucceeds ==
  /\ phase = "list"
  /\ matched' = match_containers(up \cap WellFormed)
  /\ phase' = IF matched' = {} THEN "idle" ELSE "guard2"
  /\ UNCHANGED <<cfg_, selected, todo, counters_, run_budget_used_,
                 dockerVars, historyVars>>

\* Mutant: --discover goes on to the dice.
Guard2_Rolls ==
  /\ phase = "guard2"
  /\ phase' = IF state_ THEN "idle" ELSE "roll"
  /\ UNCHANGED <<cfg_, matched, selected, todo, counters_, run_budget_used_,
                 dockerVars, historyVars>>

Guard2 ==
  /\ phase = "guard2"
  /\ phase' = IF state_ \/ cfg_.discover_only THEN "idle" ELSE "roll"
  /\ UNCHANGED <<cfg_, matched, selected, todo, counters_, run_budget_used_,
                 dockerVars, historyVars>>

\* The dice: a roll in [0, 1) is below probability 1 and never below 0.
Outcomes == CASE cfg_.chaos_probability = "zero" -> {FALSE}
              [] cfg_.chaos_probability = "one"  -> {TRUE}
              [] OTHER -> BOOLEAN

should_strike(fires) ==
  /\ phase = "roll"
  /\ fires \in Outcomes
  /\ Count("rolls")
  /\ selected' = IF fires THEN action_budget(matched) ELSE {}
  /\ todo' = selected'
  /\ phase' = IF fires THEN "sweep" ELSE "idle"
  /\ UNCHANGED <<cfg_, matched, run_budget_used_, dockerVars, historyVars>>

\* execute_strikes() returns: every target dealt with, or guard #3.
SweepEnds ==
  /\ phase = "sweep"
  /\ todo = {} \/ state_
  /\ phase' = "idle"
  /\ UNCHANGED <<cfg_, matched, selected, todo, counters_, run_budget_used_,
                 dockerVars, historyVars>>

\* Mutant: the flag is only looked at before the sweep.
Guard3_Unguarded(c) ==
  /\ phase = "sweep"
  /\ IsNext(c)
  /\ IF cfg_.dry_run THEN todo' = todo \ {c} /\ phase' = phase
                     ELSE todo' = todo /\ phase' = "post"
  /\ UNCHANGED <<cfg_, matched, selected, counters_, run_budget_used_,
                 dockerVars, historyVars>>

\* Guard #3 lets the next target through; a dry run only logs it.
Guard3(c) ==
  /\ phase = "sweep"
  /\ IsNext(c)
  /\ ~state_
  /\ IF cfg_.dry_run THEN todo' = todo \ {c} /\ phase' = phase
                     ELSE todo' = todo /\ phase' = "post"
  /\ UNCHANGED <<cfg_, matched, selected, counters_, run_budget_used_,
                 dockerVars, historyVars>>

\* stop_container() or kill_container() puts its POST on the wire.  The stop
\* flag is not looked at again: a request() may have come since guard #3.
Post(c) ==
  /\ phase = "post"
  /\ IsNext(c)
  /\ phase' = "reply"
  /\ wire' = "sent"
  /\ \E r \in DOMAIN cfg_.targets :
       /\ IsFirstRule(c, r)
       /\ posted' = Append(posted, [id |-> c, action |-> cfg_.targets[r].action,
                                    used |-> run_budget_used_])
  /\ late' = IF state_ THEN late + 1 ELSE late
  /\ UNCHANGED <<cfg_, matched, selected, todo, counters_, run_budget_used_,
                 up, orphans, ticks, downs>>

\* The target is dealt with, whatever became of it.
NextTarget(c) ==
  /\ IsNext(c)
  /\ todo' = todo \ {c}
  /\ phase' = "sweep"

\* Mutant: a container that was already gone counts as struck.
StrikeOk_Gone(c) ==
  /\ phase = "reply" /\ wire \in {"ok", "gone"}
  /\ NextTarget(c)
  /\ Count("strikes")
  /\ run_budget_used_' = run_budget_used_ + 1
  /\ wire' = "none"
  /\ UNCHANGED <<cfg_, matched, selected, up, orphans, historyVars>>

\* A 2xx reply: the only outcome that counts against the run budget.
StrikeOk(c) ==
  /\ phase = "reply" /\ wire = "ok"
  /\ NextTarget(c)
  /\ Count("strikes")
  /\ run_budget_used_' = run_budget_used_ + 1
  /\ wire' = "none"
  /\ UNCHANGED <<cfg_, matched, selected, up, orphans, historyVars>>

\* 404 or 409: the container vanished or stopped after it was listed.
StrikeSkipped(c) ==
  /\ phase = "reply" /\ wire = "gone"
  /\ NextTarget(c)
  /\ wire' = "none"
  /\ UNCHANGED <<cfg_, matched, selected, counters_, run_budget_used_,
                 up, orphans, historyVars>>

\* Mutant: an error returns from the sweep.
StrikeRefused_Aborts(c) ==
  /\ phase = "reply" /\ wire = "refused"
  /\ IsNext(c)
  /\ todo' = {} /\ phase' = "sweep"
  /\ Count("errors")
  /\ wire' = "none"
  /\ UNCHANGED <<cfg_, matched, selected, run_budget_used_, up, orphans, historyVars>>

\* Any other status.
StrikeRefused(c) ==
  /\ phase = "reply" /\ wire = "refused"
  /\ NextTarget(c)
  /\ Count("errors")
  /\ wire' = "none"
  /\ UNCHANGED <<cfg_, matched, selected, run_budget_used_, up, orphans, historyVars>>

\* Mutant: a strike that got no answer is skipped without a word.
StrikeUnanswered_Silent(c) ==
  /\ phase = "reply"
  /\ NextTarget(c)
  /\ wire' = "none"
  /\ orphans' \in IF wire = "sent" THEN {orphans, orphans \cup {c}} ELSE {orphans}
  /\ UNCHANGED <<cfg_, matched, selected, counters_, run_budget_used_, up, historyVars>>

\* No usable reply: connect, send or receive failed, or recv() timed out.  A
\* request that had reached the Engine goes on there without its client.
StrikeUnanswered(c) ==
  /\ phase = "reply"
  /\ NextTarget(c)
  /\ Count("errors")
  /\ wire' = "none"
  /\ orphans' \in IF wire = "sent" THEN {orphans, orphans \cup {c}} ELSE {orphans}
  /\ UNCHANGED <<cfg_, matched, selected, run_budget_used_, up, historyVars>>

EngineStep ==
  \/ Guard1 \/ ListFails \/ ListSucceeds \/ Guard2 \/ SweepEnds
  \/ \E fires \in BOOLEAN : should_strike(fires)
  \/ \E c \in Container :
       \/ Guard3(c) \/ Post(c) \/ StrikeOk(c) \/ StrikeSkipped(c)
       \/ StrikeRefused(c) \/ StrikeUnanswered(c)

----------------------------------------------------------------------------
(* The Docker Engine (external): it may take a container down and answer,   *)
(* refuse, or -- when its client has gone -- still do what it was asked.    *)

TakeDown(c) ==
  /\ up' = up \ {c}
  /\ downs' = IF c \in up THEN downs + 1 ELSE downs

Executes(c) ==
  /\ wire = "sent" /\ IsNext(c) /\ c \in up
  /\ TakeDown(c)
  /\ wire' = "ok"
  /\ UNCHANGED <<engineVars, orphans, ticks, posted, late>>

Refuses(c) ==
  /\ wire = "sent" /\ IsNext(c)
  /\ wire' \in IF c \in up THEN {"refused"} ELSE {"refused", "gone"}
  /\ UNCHANGED <<engineVars, up, orphans, historyVars>>

OrphanEnds(c) ==
  /\ c \in orphans
  /\ orphans' = orphans \ {c}
  /\ TakeDown(c) \/ UNCHANGED <<up, downs>>
  /\ UNCHANGED <<engineVars, wire, ticks, posted, late>>

ContainerChanges(c) ==
  /\ c \in Restless
  /\ up' \in {up \cup {c}, up \ {c}}
  /\ UNCHANGED <<engineVars, wire, orphans, historyVars>>

DockerStep ==
  \E c \in Container :
    Executes(c) \/ Refuses(c) \/ OrphanEnds(c) \/ ContainerChanges(c)

----------------------------------------------------------------------------
EngineNext ==
  \/ (Tick \/ EngineStep \/ DockerStep) /\ UNCHANGED shutdownVars
  \/ ShutdownNext /\ UNCHANGED allEngineVars

EngineSpec == EngineInit /\ [][EngineNext]_<<shutdownVars, allEngineVars>>

----------------------------------------------------------------------------
(* Properties *)

Phases == {"idle", "guard1", "list", "guard2", "roll", "sweep", "post", "reply"}
Sweeping == phase \in {"sweep", "post", "reply"}

Posts == [id : Container, action : {"stop", "kill"}, used : Nat]

EngineTypeOK ==
  /\ cfg_ \in Configs
  /\ phase \in Phases
  /\ matched \subseteq Container
  /\ selected \subseteq matched
  /\ todo \subseteq selected
  /\ counters_ \in [rolls : Nat, strikes : Nat, errors : Nat]
  /\ run_budget_used_ \in Nat
  /\ up \subseteq Container
  /\ wire \in {"none", "sent", "ok", "gone", "refused"}
  /\ orphans \subseteq Container
  /\ ticks \in Nat /\ late \in Nat /\ downs \in Nat
  /\ posted \in Seq(Posts)

(* Counted strikes never pass max_actions_per_run, over any number of      *)
(* ticks, failures and late answers (chaos.cpp:18-27, engine.cpp:94-96).   *)
StrikesWithinRunBudget ==
  Limited => counters_.strikes <= cfg_.max_actions_per_run

(* One tick sends no more POSTs than max_actions_per_cycle, nor more than  *)
(* the run budget had left when its first one went out, whatever earlier   *)
(* ticks have spent of it and whether these fail, are skipped or are lost  *)
(* (chaos.cpp:11-29).                                                      *)
PostsWithinCycleCap ==
  /\ Len(posted) <= PerCycle
  /\ Limited /\ posted # <<>> =>
       posted[1].used + Len(posted) <= cfg_.max_actions_per_run

(* Neither a dry run nor --discover ever puts a stop or kill on the wire   *)
(* (README "Dry Run"; engine.cpp:89, 152-157).                             *)
HarmlessModesSendNothing ==
  cfg_.dry_run \/ cfg_.discover_only =>
    posted = <<>> /\ wire = "none" /\ orphans = {} /\ downs = 0

(* From the moment the stop flag is up at most one more POST leaves the    *)
(* process: the one whose guard #3 had already been passed (engine.hpp,    *)
(* "Shutdown contract").                                                   *)
AtMostOneLateStrike == late <= 1

(* The summary line accounts for what really went down: every strike it    *)
(* reports took a container down, so that 404s, refusals and timeouts are  *)
(* never reported as strikes, and a container that a POST took down is one *)
(* of the strikes or, if its reply was lost, one of the errors, even when  *)
(* it goes down long after its client gave up.  Only the one strike whose  *)
(* reply is still to be read is in neither (engine.cpp:171-187).           *)
TakedownsAreReported ==
  /\ counters_.strikes <= downs
  /\ downs <= counters_.strikes + counters_.errors + (IF wire = "ok" THEN 1 ELSE 0)

(* The strikes of a tick go to distinct containers in listing order: the   *)
(* sweep never revisits or overtakes a target, even after a failure.       *)
StrikesInListingOrder ==
  \A i, j \in DOMAIN posted : i < j => posted[i].id < posted[j].id

(* One failure never aborts the sweep (engine.cpp:188): a live sweep that  *)
(* no stop request cuts short has POSTed to exactly the selected targets,  *)
(* and the ones it selected are the first of the armed ones.               *)
PostedIds == {posted[i].id : i \in DOMAIN posted}
SweepIsComplete ==
  phase = "sweep" /\ phase' = "idle" /\ ~state_ /\ ~cfg_.dry_run =>
    /\ PostedIds = selected
    /\ \A c \in selected, d \in matched \ selected : c < d
FaultIsolation == [][SweepIsComplete]_<<shutdownVars, allEngineVars>>

(* README: strikes go "never past the max_actions_per_run lifetime budget" *)
(* (and chaos.hpp:35, "cap strikes per cycle and per process lifetime").   *)
(* Not so: the budget is charged by 2xx replies, not by what was sent, so  *)
(* a strike the Engine carries out and whose reply is lost costs nothing.  *)
BlastRadiusBounded == Limited => downs <= cfg_.max_actions_per_run

=============================================================================
