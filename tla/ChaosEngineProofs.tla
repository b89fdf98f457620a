------------------------- MODULE ChaosEngineProofs -------------------------
(***************************************************************************)
(* Proofs about ChaosEngine, for any host, any set of configurations, any  *)
(* rules, any number of ticks and any number of requesting threads.        *)
(*                                                                         *)
(* The budget's bound is first proved of action_budget itself, as a fact   *)
(* about cardinalities.  The invariant then follows the sweep: what is     *)
(* still to do and what has been sent add up to no more than was selected. *)
(***************************************************************************)
EXTENDS ChaosEngine, FiniteSetTheorems, FunctionTheorems, SequenceTheorems, TLAPS

----------------------------------------------------------------------------
(* The budget *)

\* The bound a single tick has to respect.
Cap == IF Limited /\ cfg_.max_actions_per_run < PerCycle
       THEN cfg_.max_actions_per_run ELSE PerCycle

\* The caps are numbers.
LEMMA CapType == ASSUME cfg_ \in Configs PROVE Cap \in Nat /\ PerCycle \in Nat
BY EngineAssumption DEF Cap, Limited, PerCycle

(* The number of strikes allowed is within both caps.                      *)
LEMMA AllowedBounds ==
  ASSUME cfg_ \in Configs, run_budget_used_ \in Nat
  PROVE  /\ Allowed \in Nat
         /\ Allowed <= Cap
         /\ Limited /\ run_budget_used_ <= cfg_.max_actions_per_run
              => run_budget_used_ + Allowed <= cfg_.max_actions_per_run
BY EngineAssumption DEF Allowed, Cap, Limited, PerCycle

\* Sets of containers are finite.
LEMMA FiniteContainers ==
  ASSUME NEW S \in SUBSET Container
  PROVE  IsFiniteSet(S) /\ Cardinality(S) \in Nat
<1>1. IsFiniteSet(S)
  BY EngineAssumption, FS_Subset
<1> QED BY <1>1, FS_CardinalityType

(* A container's place among the armed ones grows strictly with its place  *)
(* in the listing.                                                         *)
LEMMA BeforeGrows ==
  ASSUME NEW armed \in SUBSET Container, NEW c \in armed, NEW d \in Container, c < d
  PROVE  Before(armed, c) < Before(armed, d)
<1> DEFINE C == {x \in armed : x < c}
           D == {x \in armed : x < d}
<1>1. C \in SUBSET Container /\ D \in SUBSET Container
  OBVIOUS
<1>2. C \subseteq D /\ c \in D /\ c \notin C
  <2>1. armed \subseteq Nat /\ c \in Nat /\ d \in Nat
    BY EngineAssumption
  <2>2. \A x \in armed : x < c => x < d
    BY <2>1
  <2>3. ~(c < c)
    BY <2>1
  <2> QED BY <2>2, <2>3
<1>3. /\ IsFiniteSet(D) /\ Cardinality(D) \in Nat
      /\ Cardinality(C) \in Nat
  BY <1>1, FiniteContainers
<1>4. Cardinality(C) <= Cardinality(D) /\ Cardinality(C) # Cardinality(D)
  BY <1>2, <1>3, FS_Subset
<1> QED BY <1>3, <1>4 DEF Before

(* action_budget selects no more than Allowed targets: numbering the       *)
(* selected ones by the armed ones before them is injective into           *)
(* 1..Allowed.                                                             *)
LEMMA BudgetBound ==
  ASSUME NEW armed \in SUBSET Container, cfg_ \in Configs, run_budget_used_ \in Nat
  PROVE  Cardinality(action_budget(armed)) <= Allowed
<1> DEFINE S == action_budget(armed)
           f == [c \in S |-> Before(armed, c) + 1]
<1>1. Allowed \in Nat
  BY AllowedBounds
<1>2. S \subseteq armed /\ \A c \in S : Before(armed, c) < Allowed
  BY DEF action_budget
<1>3. \A c \in Container : Before(armed, c) \in Nat
  <2> SUFFICES ASSUME NEW c \in Container PROVE Before(armed, c) \in Nat
    OBVIOUS
  <2>1. {d \in armed : d < c} \in SUBSET Container
    OBVIOUS
  <2> QED BY <2>1, FiniteContainers DEF Before
<1>4. f \in [S -> 1..Allowed]
  BY <1>1, <1>2, <1>3
<1>5. \A a, b \in S : f[a] = f[b] => a = b
  <2> SUFFICES ASSUME NEW a \in S, NEW b \in S, a # b PROVE f[a] # f[b]
    OBVIOUS
  <2>1. a \in Container /\ b \in Container /\ a \in armed /\ b \in armed
    BY <1>2
  <2>2. Before(armed, a) \in Nat /\ Before(armed, b) \in Nat
    BY <2>1, <1>3
  <2>3. Before(armed, a) # Before(armed, b)
    <3>1. CASE a < b
      BY <3>1, <2>1, <2>2, BeforeGrows
    <3>2. CASE b < a
      BY <3>2, <2>1, <2>2, BeforeGrows
    <3> QED BY <3>1, <3>2, <2>1, EngineAssumption
  <2> QED BY <2>2, <2>3
<1>6. f \in Injection(S, 1..Allowed)
  BY <1>4, <1>5, Fun_IsInj
<1>7. IsFiniteSet(1..Allowed) /\ Cardinality(1..Allowed) = Allowed
  BY <1>1, FS_Interval
<1>8. Cardinality(S) <= Cardinality(1..Allowed)
  BY <1>6, <1>7, FS_Injection
<1> QED BY <1>7, <1>8

(* What action_budget selects comes before what it holds back.             *)
LEMMA BudgetPrefix ==
  ASSUME NEW armed \in SUBSET Container, cfg_ \in Configs, run_budget_used_ \in Nat,
         NEW c \in action_budget(armed), NEW d \in armed \ action_budget(armed)
  PROVE  c < d
<1>1. c \in armed /\ c \in Container /\ d \in Container /\ Allowed \in Nat
  BY AllowedBounds DEF action_budget
<1>2. Before(armed, c) < Allowed /\ ~(Before(armed, d) < Allowed)
  BY DEF action_budget
<1>3. {x \in armed : x < c} \in SUBSET Container /\ {x \in armed : x < d} \in SUBSET Container
  OBVIOUS
<1>4. Before(armed, c) \in Nat /\ Before(armed, d) \in Nat
  BY <1>3, FiniteContainers DEF Before
<1>5. CASE d < c
  BY <1>1, <1>2, <1>4, <1>5, BeforeGrows
<1>6. CASE d = c
  BY <1>6, <1>2
<1> QED BY <1>1, <1>5, <1>6, EngineAssumption
----------------------------------------------------------------------------
(* The invariant *)

\* Nothing is selected or sent before the dice have fallen.
FreshInv ==
  phase \in {"guard1", "list", "guard2", "roll"} => selected = {} /\ posted = <<>>

\* A request is on the wire exactly while its reply is awaited.
WireInv == wire # "none" <=> phase = "reply"

\* Where a harmless mode can be in the tick, and what it has done.
ModeInv ==
  /\ cfg_.discover_only => phase \notin {"roll", "sweep", "post", "reply"}
  /\ cfg_.dry_run => phase \notin {"post", "reply"}
  /\ cfg_.dry_run \/ cfg_.discover_only =>
       posted = <<>> /\ orphans = {} /\ downs = 0

\* After a late strike the tick can only wind down.
LateInv ==
  late = 0 \/ (late = 1 /\ state_ /\ phase \in {"idle", "guard1", "sweep", "reply"})

\* The budget is charged with the strikes reported, each of which took a
\* container down; one more has when its 2xx is still to be read.
CountInv ==
  /\ run_budget_used_ = counters_.strikes
  /\ counters_.strikes + (IF wire = "ok" THEN 1 ELSE 0) <= downs

\* A container that went down is accounted for, and so is one that a request
\* left behind in the Engine may still take down.
Reported ==
  counters_.strikes + counters_.errors + (IF wire = "ok" THEN 1 ELSE 0)
AccountInv == downs + Cardinality(orphans) <= Reported

\* What is to do and what was sent stay within the caps.
InFlight == IF phase = "reply" THEN 1 ELSE 0
SweepInv ==
  Sweeping =>
    /\ Cardinality(todo) + Len(posted) <= Cap + InFlight
    /\ Limited => run_budget_used_ + Cardinality(todo) <= cfg_.max_actions_per_run
BudgetInv ==
  /\ Len(posted) <= Cap
  /\ Limited => run_budget_used_ <= cfg_.max_actions_per_run

\* What a tick has sent and has still to do fits into what the run budget had
\* left when the first of it went out.
GrantInv ==
  Limited /\ posted # <<>> =>
    /\ posted[1].used + Len(posted) <= cfg_.max_actions_per_run
    /\ Sweeping => posted[1].used + Len(posted) + Cardinality(todo)
                     <= cfg_.max_actions_per_run + InFlight

\* The reply awaited is that of the latest strike, on the next target.
AwaitedInv == phase = "reply" => posted # <<>> /\ IsNext(posted[Len(posted)].id)

\* What was sent comes before what is to do; only the strike in flight is both.
OrderInv ==
  /\ StrikesInListingOrder
  /\ Sweeping => \A i \in DOMAIN posted, c \in todo :
       posted[i].id <= c /\ (posted[i].id = c => phase = "reply")

\* A live sweep has sent what it has dealt with, out of a prefix.
CompleteInv == Sweeping /\ ~cfg_.dry_run => PostedIds \cup todo = selected
PrefixInv == \A c \in selected, d \in matched \ selected : c < d

TypeInv == EngineTypeOK /\ FreshInv

(* Types, for every step of the engine and of the Docker Engine.           *)
LEMMA TypeStep ==
  ASSUME TypeInv, Tick \/ EngineStep \/ DockerStep
  PROVE  TypeInv'
<1> USE EngineAssumption
    DEF TypeInv, EngineTypeOK, FreshInv, Phases, engineVars, dockerVars, historyVars,
        Count, NextTarget
<1>1. CASE Tick BY <1>1 DEF Tick
<1>2. CASE Guard1 BY <1>2 DEF Guard1
<1>3. CASE ListFails BY <1>3 DEF ListFails
<1>4. CASE ListSucceeds BY <1>4 DEF ListSucceeds, match_containers
<1>5. CASE Guard2 BY <1>5 DEF Guard2
<1>6. CASE SweepEnds BY <1>6 DEF SweepEnds
<1>7. ASSUME NEW fires \in BOOLEAN, should_strike(fires) PROVE TypeInv'
  BY <1>7 DEF should_strike, action_budget
<1>8. ASSUME NEW c \in Container, Guard3(c) PROVE TypeInv'
  BY <1>8 DEF Guard3
<1>9. ASSUME NEW c \in Container, Post(c) PROVE TypeInv'
  <2>1. PICK r \in DOMAIN cfg_.targets :
          posted' = Append(posted, [id |-> c, action |-> cfg_.targets[r].action,
                                    used |-> run_budget_used_])
    BY <1>9 DEF Post
  <2>2. posted' \in Seq(Posts)
    BY <2>1, AppendProperties DEF Posts
  <2> QED BY <1>9, <2>2 DEF Post
<1>10. ASSUME NEW c \in Container,
              StrikeOk(c) \/ StrikeSkipped(c) \/ StrikeRefused(c) \/ StrikeUnanswered(c)
       PROVE  TypeInv'
  <2>1. CASE StrikeOk(c) BY <2>1 DEF StrikeOk
  <2>2. CASE StrikeSkipped(c) BY <2>2 DEF StrikeSkipped
  <2>3. CASE StrikeRefused(c) BY <2>3 DEF StrikeRefused
  <2>4. CASE StrikeUnanswered(c) BY <2>4 DEF StrikeUnanswered
  <2> QED BY <1>10, <2>1, <2>2, <2>3, <2>4
<1>11. ASSUME NEW c \in Container,
              Executes(c) \/ Refuses(c) \/ OrphanEnds(c) \/ ContainerChanges(c)
       PROVE  TypeInv'
  <2>1. CASE Executes(c) BY <2>1 DEF Executes, TakeDown
  <2>2. CASE Refuses(c) BY <2>2 DEF Refuses
  <2>3. CASE OrphanEnds(c)
    <3>1. up' \subseteq Container /\ downs' \in Nat
      <4>1. CASE TakeDown(c) BY <4>1 DEF TakeDown
      <4>2. CASE UNCHANGED <<up, downs>> BY <4>2
      <4> QED BY <2>3, <4>1, <4>2 DEF OrphanEnds
    <3>2. UNCHANGED <<cfg_, phase, matched, selected, todo, counters_,
                      run_budget_used_, wire, ticks, posted, late>>
          /\ orphans' \subseteq Container
      BY <2>3 DEF OrphanEnds
    <3> QED BY <3>1, <3>2
  <2>4. CASE ContainerChanges(c) BY <2>4 DEF ContainerChanges
  <2> QED BY <1>11, <2>1, <2>2, <2>3, <2>4
<1> HIDE DEF TypeInv
<1> QED
  BY <1>1, <1>2, <1>3, <1>4, <1>5, <1>6, <1>7, <1>8, <1>9, <1>10, <1>11
     DEF EngineStep, DockerStep

ControlInv == WireInv /\ ModeInv /\ LateInv /\ CountInv

(* Where the tick may be, what has been sent when, and what is counted.    *)
LEMMA ControlStep ==
  ASSUME TypeInv, ControlInv, Tick \/ EngineStep \/ DockerStep, state_' = state_
  PROVE  ControlInv'
<1> USE EngineAssumption
    DEF TypeInv, EngineTypeOK, ControlInv, WireInv, ModeInv, LateInv, CountInv,
        engineVars, dockerVars, historyVars, Count, NextTarget
<1>1. CASE Tick BY <1>1 DEF Tick
<1>2. CASE Guard1 BY <1>2 DEF Guard1
<1>3. CASE ListFails BY <1>3 DEF ListFails
<1>4. CASE ListSucceeds BY <1>4 DEF ListSucceeds
<1>5. CASE Guard2 BY <1>5 DEF Guard2
<1>6. CASE SweepEnds BY <1>6 DEF SweepEnds
<1>7. ASSUME NEW fires \in BOOLEAN, should_strike(fires) PROVE ControlInv'
  BY <1>7 DEF should_strike
<1>8. ASSUME NEW c \in Container, Guard3(c) PROVE ControlInv'
  BY <1>8 DEF Guard3
<1>9. ASSUME NEW c \in Container, Post(c) PROVE ControlInv'
  BY <1>9 DEF Post
<1>10. ASSUME NEW c \in Container, StrikeOk(c) PROVE ControlInv'
  BY <1>10 DEF StrikeOk
<1>11. ASSUME NEW c \in Container, StrikeSkipped(c) PROVE ControlInv'
  BY <1>11 DEF StrikeSkipped
<1>12. ASSUME NEW c \in Container, StrikeRefused(c) PROVE ControlInv'
  BY <1>12 DEF StrikeRefused
<1>13. ASSUME NEW c \in Container, StrikeUnanswered(c) PROVE ControlInv'
  BY <1>13 DEF StrikeUnanswered
<1>14. ASSUME NEW c \in Container, Executes(c) PROVE ControlInv'
  BY <1>14 DEF Executes, TakeDown
<1>15. ASSUME NEW c \in Container, Refuses(c) PROVE ControlInv'
  BY <1>15 DEF Refuses
<1>16. ASSUME NEW c \in Container, OrphanEnds(c) PROVE ControlInv'
  <2>1. CASE TakeDown(c) BY <1>16, <2>1 DEF OrphanEnds, TakeDown
  <2>2. CASE UNCHANGED <<up, downs>> BY <1>16, <2>2 DEF OrphanEnds
  <2> QED BY <1>16, <2>1, <2>2 DEF OrphanEnds
<1>17. ASSUME NEW c \in Container, ContainerChanges(c) PROVE ControlInv'
  BY <1>17 DEF ContainerChanges
<1> HIDE DEF ControlInv
<1> QED
  BY <1>1, <1>2, <1>3, <1>4, <1>5, <1>6, <1>7, <1>8, <1>9, <1>10, <1>11, <1>12,
     <1>13, <1>14, <1>15, <1>16, <1>17
     DEF EngineStep, DockerStep

(* Every way a container can go down is accounted for beforehand.          *)
LEMMA AccountStep ==
  ASSUME TypeInv, WireInv, AccountInv, Tick \/ EngineStep \/ DockerStep
  PROVE  AccountInv'
<1>0. /\ orphans \in SUBSET Container /\ IsFiniteSet(orphans)
      /\ Cardinality(orphans) \in Nat /\ downs \in Nat
      /\ counters_ \in [rolls : Nat, strikes : Nat, errors : Nat]
  BY FiniteContainers DEF TypeInv, EngineTypeOK
<1> USE DEF AccountInv, Reported, WireInv, engineVars, dockerVars, historyVars, Count,
            NextTarget
<1>1. CASE Tick BY <1>0, <1>1 DEF Tick
<1>2. CASE Guard1 BY <1>0, <1>2 DEF Guard1
<1>3. CASE ListFails BY <1>0, <1>3 DEF ListFails
<1>4. CASE ListSucceeds BY <1>0, <1>4 DEF ListSucceeds
<1>5. CASE Guard2 BY <1>0, <1>5 DEF Guard2
<1>6. CASE SweepEnds BY <1>0, <1>6 DEF SweepEnds
<1>7. ASSUME NEW fires \in BOOLEAN, should_strike(fires) PROVE AccountInv'
  BY <1>0, <1>7 DEF should_strike
<1>8. ASSUME NEW c \in Container, Guard3(c) PROVE AccountInv'
  BY <1>0, <1>8 DEF Guard3
<1>9. ASSUME NEW c \in Container, Post(c) PROVE AccountInv'
  BY <1>0, <1>9 DEF Post
<1>10. ASSUME NEW c \in Container, StrikeOk(c) PROVE AccountInv'
  BY <1>0, <1>10 DEF StrikeOk
<1>11. ASSUME NEW c \in Container, StrikeSkipped(c) PROVE AccountInv'
  BY <1>0, <1>11 DEF StrikeSkipped
<1>12. ASSUME NEW c \in Container, StrikeRefused(c) PROVE AccountInv'
  BY <1>0, <1>12 DEF StrikeRefused
<1>13. ASSUME NEW c \in Container, StrikeUnanswered(c) PROVE AccountInv'
  <2>1. Reported' >= Reported /\ (wire # "ok" => Reported' = Reported + 1) /\ downs' = downs
    BY <1>0, <1>13 DEF StrikeUnanswered
  <2>2. CASE orphans' = orphans
    BY <1>0, <1>13, <2>2 DEF StrikeUnanswered
  <2>3. CASE orphans' # orphans
    <3>1. wire = "sent" /\ orphans' = orphans \cup {c}
      BY <1>13, <2>3 DEF StrikeUnanswered
    <3>2. Cardinality(orphans') = Cardinality(orphans) + 1
      BY <1>0, <2>3, <3>1, FS_AddElement
    <3> QED
      BY <1>0, <2>1, <3>1, <3>2
  <2> QED
    BY <2>2, <2>3
<1>14. ASSUME NEW c \in Container, Executes(c) PROVE AccountInv'
  BY <1>0, <1>14 DEF Executes, TakeDown
<1>15. ASSUME NEW c \in Container, Refuses(c) PROVE AccountInv'
  BY <1>0, <1>15 DEF Refuses
<1>16. ASSUME NEW c \in Container, OrphanEnds(c) PROVE AccountInv'
  <2>1. Reported' = Reported /\ Reported \in Nat
    BY <1>0, <1>16 DEF OrphanEnds
  <2>2. Cardinality(orphans') = Cardinality(orphans) - 1
    BY <1>0, <1>16, FS_RemoveElement DEF OrphanEnds
  <2>3. downs' \in {downs, downs + 1}
    BY <1>16 DEF OrphanEnds, TakeDown
  <2> QED
    BY <1>0, <2>1, <2>2, <2>3
<1>17. ASSUME NEW c \in Container, ContainerChanges(c) PROVE AccountInv'
  BY <1>0, <1>17 DEF ContainerChanges
<1> HIDE DEF AccountInv
<1> QED
  BY <1>1, <1>2, <1>3, <1>4, <1>5, <1>6, <1>7, <1>8, <1>9, <1>10, <1>11, <1>12,
     <1>13, <1>14, <1>15, <1>16, <1>17
     DEF EngineStep, DockerStep

\* One target less to deal with.
LEMMA OneLess ==
  ASSUME EngineTypeOK, NEW c \in Container, IsNext(c)
  PROVE  /\ Cardinality(todo) \in Nat \ {0}
         /\ Cardinality(todo \ {c}) = Cardinality(todo) - 1
<1>1. todo \in SUBSET Container /\ todo # {} /\ c \in todo
  BY DEF EngineTypeOK, IsNext
<1>2. IsFiniteSet(todo)
  BY <1>1, FiniteContainers
<1> QED
  BY <1>1, <1>2, FS_EmptySet, FS_CardinalityType, FS_RemoveElement

CapsInv == SweepInv /\ BudgetInv /\ GrantInv

(* Steps that leave the sweep and the budget where they are.               *)
LEMMA CapsKept ==
  ASSUME CapsInv,
         UNCHANGED <<cfg_, todo, posted, run_budget_used_>>,
         (Sweeping /\ phase = phase') \/ ~Sweeping'
  PROVE  CapsInv'
BY DEF CapsInv, SweepInv, BudgetInv, GrantInv, Sweeping, InFlight, Cap, Limited, PerCycle

(* The sweep spends what it was given and no more.                         *)
LEMMA CapsStep ==
  ASSUME TypeInv, CapsInv, Tick \/ EngineStep \/ DockerStep
  PROVE  CapsInv'
<1>0. /\ EngineTypeOK /\ FreshInv /\ cfg_ \in Configs /\ run_budget_used_ \in Nat
      /\ Len(posted) \in Nat /\ Cap \in Nat /\ Cardinality(todo) \in Nat
      /\ cfg_.max_actions_per_run \in Int
      /\ cfg_' = cfg_ => Cap' = Cap /\ Limited' = Limited
      /\ posted # <<>> => posted[1].used \in Nat
  <2>1. EngineTypeOK /\ FreshInv
    BY DEF TypeInv
  <2>2. cfg_ \in Configs /\ run_budget_used_ \in Nat /\ Len(posted) \in Nat
        /\ todo \in SUBSET Container
    BY <2>1 DEF EngineTypeOK
  <2>3. ASSUME posted # <<>> PROVE posted[1].used \in Nat
    <3>1. posted \in Seq(Posts) /\ Len(posted) \in Nat \ {0}
      BY <2>1, <2>3 DEF EngineTypeOK
    <3>2. posted[1] \in Posts
      BY <3>1, ElementOfSeq
    <3> QED BY <3>2 DEF Posts
  <2> QED BY <2>1, <2>2, <2>3, CapType, FiniteContainers, EngineAssumption
          DEF Cap, Limited, PerCycle
<1> USE DEF CapsInv, SweepInv, BudgetInv, GrantInv, Sweeping, InFlight
<1>1. CASE Tick
  BY <1>0, <1>1 DEF Tick
<1>2. CASE Guard1 \/ ListFails \/ ListSucceeds \/ Guard2 \/ SweepEnds
  <2>1. UNCHANGED <<cfg_, todo, posted, run_budget_used_>> /\ ~Sweeping'
    BY <1>2 DEF Guard1, ListFails, ListSucceeds, Guard2, SweepEnds, historyVars
  <2> QED BY <2>1, CapsKept
<1>3. ASSUME NEW fires \in BOOLEAN, should_strike(fires) PROVE CapsInv'
  <2>1. /\ UNCHANGED <<cfg_, posted, run_budget_used_>>
        /\ posted = <<>> /\ todo' = selected'
        /\ phase' = IF fires THEN "sweep" ELSE "idle"
        /\ selected' = IF fires THEN action_budget(matched) ELSE {}
    BY <1>0, <1>3 DEF should_strike, historyVars, FreshInv
  <2>2. CASE fires
    <3>1. Cardinality(todo') <= Allowed
      BY <1>0, <2>1, <2>2, BudgetBound DEF EngineTypeOK
    <3>2. Cardinality(todo') \in Nat
      BY <1>0, <2>1, <2>2, FiniteContainers DEF EngineTypeOK, action_budget
    <3>3. /\ Allowed \in Nat /\ Allowed <= Cap
          /\ Limited => run_budget_used_ + Allowed <= cfg_.max_actions_per_run
      BY <1>0, AllowedBounds
    <3> QED BY <1>0, <2>1, <2>2, <3>1, <3>2, <3>3
  <2>3. CASE ~fires
    BY <1>0, <2>1, <2>3
  <2> QED BY <2>2, <2>3
<1>4. ASSUME NEW c \in Container, Guard3(c) PROVE CapsInv'
  <2>1. UNCHANGED <<cfg_, posted, run_budget_used_>> /\ phase = "sweep" /\ IsNext(c)
        /\ phase' \in {"sweep", "post"} /\ todo' \in {todo, todo \ {c}}
    BY <1>4 DEF Guard3, historyVars
  <2>2. Cardinality(todo') \in Nat /\ Cardinality(todo') <= Cardinality(todo)
    BY <1>0, <2>1, OneLess
  <2> QED BY <1>0, <2>1, <2>2
<1>5. ASSUME NEW c \in Container, Post(c) PROVE CapsInv'
  <2>1. /\ UNCHANGED <<cfg_, todo, run_budget_used_>>
        /\ phase = "post" /\ phase' = "reply" /\ IsNext(c)
    BY <1>5 DEF Post
  <2>2. /\ Len(posted') = Len(posted) + 1
        /\ posted'[1].used = IF posted = <<>> THEN run_budget_used_ ELSE posted[1].used
    <3>1. PICK r \in DOMAIN cfg_.targets :
            posted' = Append(posted, [id |-> c, action |-> cfg_.targets[r].action,
                                      used |-> run_budget_used_])
      BY <1>5 DEF Post
    <3> QED BY <1>0, <3>1, AppendProperties DEF EngineTypeOK
  <2>3. Cardinality(todo) \in Nat \ {0}
    BY <1>0, <2>1, OneLess
  <2>4. SweepInv' /\ BudgetInv'
    BY <1>0, <2>1, <2>2, <2>3
  <2>5. GrantInv'
    <3>1. CASE posted = <<>>
      <4>1. Len(posted') = 1 /\ posted'[1].used = run_budget_used_
        BY <2>2, <3>1
      <4>2. ASSUME Limited
            PROVE  /\ run_budget_used_ + 1 <= cfg_.max_actions_per_run
                   /\ run_budget_used_ + 1 + Cardinality(todo)
                        <= cfg_.max_actions_per_run + 1
        BY <1>0, <2>1, <2>3, <4>2
      <4> QED BY <1>0, <2>1, <4>1, <4>2
    <3>2. CASE posted # <<>>
      <4>1. posted'[1].used = posted[1].used /\ posted[1].used \in Nat
        BY <1>0, <2>2, <3>2
      <4>2. ASSUME Limited
            PROVE  /\ posted[1].used + (Len(posted) + 1) <= cfg_.max_actions_per_run
                   /\ posted[1].used + (Len(posted) + 1) + Cardinality(todo)
                        <= cfg_.max_actions_per_run + 1
        <5>1. posted[1].used + Len(posted) + Cardinality(todo)
                <= cfg_.max_actions_per_run
          BY <1>0, <2>1, <3>2, <4>1, <4>2
        <5>2. posted[1].used \in Nat /\ Len(posted) \in Nat
              /\ cfg_.max_actions_per_run \in Int
          BY <1>0, <4>1
        <5> QED BY <2>3, <5>1, <5>2
      <4> QED BY <1>0, <2>1, <2>2, <4>1, <4>2
    <3> QED BY <3>1, <3>2
  <2> QED BY <2>4, <2>5
<1>6. ASSUME NEW c \in Container,
             StrikeOk(c) \/ StrikeSkipped(c) \/ StrikeRefused(c) \/ StrikeUnanswered(c)
      PROVE  CapsInv'
  <2>1. /\ UNCHANGED <<cfg_, posted>> /\ phase = "reply" /\ phase' = "sweep"
        /\ IsNext(c) /\ todo' = todo \ {c}
        /\ run_budget_used_' \in {run_budget_used_, run_budget_used_ + 1}
    BY <1>6
    DEF StrikeOk, StrikeSkipped, StrikeRefused, StrikeUnanswered, NextTarget, historyVars
  <2>2. /\ Cardinality(todo) \in Nat \ {0}
        /\ Cardinality(todo') = Cardinality(todo) - 1
    BY <1>0, <2>1, OneLess
  <2>3. SweepInv' /\ BudgetInv'
    BY <1>0, <2>1, <2>2
  <2>4. ASSUME Limited, posted # <<>>
        PROVE  posted[1].used + Len(posted) + Cardinality(todo')
                 <= cfg_.max_actions_per_run
    BY <1>0, <2>1, <2>2, <2>4
  <2>5. cfg_' = cfg_ /\ posted' = posted /\ Limited' = Limited /\ InFlight' = 0
    BY <1>0, <2>1
  <2>6. GrantInv'
    <3> SUFFICES ASSUME Limited, posted # <<>>
                 PROVE  /\ posted[1].used + Len(posted) <= cfg_.max_actions_per_run
                        /\ posted[1].used + Len(posted) + Cardinality(todo')
                             <= cfg_.max_actions_per_run + 0
      BY <2>5
    <3> QED BY <1>0, <2>4
  <2> QED BY <2>3, <2>6
<1>7. CASE DockerStep
  <2>1. UNCHANGED <<cfg_, todo, posted, run_budget_used_, phase>>
    BY <1>7 DEF DockerStep, Executes, Refuses, OrphanEnds, ContainerChanges,
                engineVars, historyVars
  <2> QED BY <2>1, CapsKept
<1> HIDE DEF CapsInv
<1> QED BY <1>1, <1>2, <1>3, <1>4, <1>5, <1>6, <1>7 DEF EngineStep

(* The first target is unique.                                             *)
LEMMA NextIsUnique ==
  ASSUME EngineTypeOK, NEW c, NEW d, IsNext(c), IsNext(d)
  PROVE  c = d
<1>1. todo \subseteq Nat
  BY EngineAssumption DEF EngineTypeOK
<1> QED BY <1>1 DEF IsNext

SequenceInv == AwaitedInv /\ OrderInv /\ CompleteInv /\ PrefixInv

(* Steps that change nothing of the sweep but where it is.                 *)
LEMMA SequenceKept ==
  ASSUME SequenceInv,
         UNCHANGED <<cfg_, matched, selected, todo, posted>>,
         phase' = phase \/ ~Sweeping'
  PROVE  SequenceInv'
BY DEF SequenceInv, AwaitedInv, OrderInv, CompleteInv, PrefixInv, Sweeping, IsNext,
       PostedIds, StrikesInListingOrder

(* The strikes follow the listing, and each is on the next target.         *)
LEMMA SequenceStep ==
  ASSUME TypeInv, SequenceInv, Tick \/ EngineStep \/ DockerStep
  PROVE  SequenceInv'
<1>0. /\ EngineTypeOK /\ FreshInv
      /\ posted \in Seq(Posts)
      /\ \A i \in DOMAIN posted : posted[i].id \in Nat
      /\ Len(posted) \in Nat /\ DOMAIN posted = 1..Len(posted)
      /\ todo \subseteq Nat
  <2>1. EngineTypeOK /\ FreshInv
    BY DEF TypeInv
  <2>2. posted \in Seq(Posts) /\ todo \subseteq Container
    BY <2>1 DEF EngineTypeOK
  <2>3. Len(posted) \in Nat /\ DOMAIN posted = 1..Len(posted)
    BY <2>2
  <2>4. \A i \in DOMAIN posted : posted[i] \in Posts
    BY <2>2, <2>3, ElementOfSeq
  <2> QED BY <2>1, <2>2, <2>3, <2>4, EngineAssumption DEF Posts
<1> USE DEF SequenceInv, AwaitedInv, OrderInv, CompleteInv, PrefixInv, Sweeping,
            StrikesInListingOrder, PostedIds
<1>1. CASE Tick
  BY <1>0, <1>1 DEF Tick
<1>2. CASE Guard1 \/ ListFails \/ Guard2 \/ SweepEnds
  <2>1. UNCHANGED <<cfg_, matched, selected, todo, posted>> /\ ~Sweeping'
    BY <1>2 DEF Guard1, ListFails, Guard2, SweepEnds, historyVars
  <2> QED BY <2>1, SequenceKept
<1>3. CASE ListSucceeds
  BY <1>0, <1>3 DEF ListSucceeds, historyVars, FreshInv
<1>4. ASSUME NEW fires \in BOOLEAN, should_strike(fires) PROVE SequenceInv'
  <2>1. /\ UNCHANGED <<cfg_, matched, posted>> /\ phase' \in {"sweep", "idle"}
        /\ posted = <<>> /\ todo' = selected'
        /\ selected' \in {action_budget(matched), {}}
        /\ selected' = {} \/ selected' = action_budget(matched)
    BY <1>0, <1>4 DEF should_strike, historyVars, FreshInv
  <2>2. \A c \in action_budget(matched), d \in matched \ action_budget(matched) : c < d
    BY <1>0, BudgetPrefix DEF EngineTypeOK
  <2>3. PrefixInv'
    BY <2>1, <2>2
  <2>4. (AwaitedInv /\ OrderInv /\ CompleteInv)'
    BY <2>1
  <2> QED BY <2>3, <2>4
<1>5. ASSUME NEW c \in Container, Guard3(c) PROVE SequenceInv'
  <2>1. /\ UNCHANGED <<cfg_, matched, selected, posted>> /\ phase = "sweep"
        /\ phase' \in {"sweep", "post"} /\ todo' \subseteq todo
        /\ ~cfg_.dry_run => todo' = todo
    BY <1>0, <1>5, EngineAssumption DEF Guard3, historyVars, EngineTypeOK
  <2> QED BY <2>1
<1>6. ASSUME NEW c \in Container, Post(c) PROVE SequenceInv'
  <2>1. /\ UNCHANGED <<cfg_, matched, selected, todo>>
        /\ phase = "post" /\ phase' = "reply" /\ IsNext(c)
    BY <1>6 DEF Post
  <2>2. PICK r \in DOMAIN cfg_.targets :
          posted' = Append(posted, [id |-> c, action |-> cfg_.targets[r].action,
                                    used |-> run_budget_used_])
    BY <1>6 DEF Post
  <2>3. /\ Len(posted') = Len(posted) + 1
        /\ DOMAIN posted' = 1..(Len(posted) + 1)
        /\ \A i \in DOMAIN posted : posted'[i] = posted[i]
        /\ posted'[Len(posted) + 1].id = c
    BY <1>0, <2>2, AppendProperties
  <2>4. c \in todo /\ \A d \in todo : c <= d
    BY <2>1 DEF IsNext
  <2>5. \A i \in DOMAIN posted : posted[i].id < c
    BY <1>0, <2>1, <2>4
  <2>6. AwaitedInv'
    BY <1>0, <2>1, <2>3 DEF IsNext
  <2>7. OrderInv'
    <3>1. \A i \in DOMAIN posted' : IF i = Len(posted) + 1 THEN posted'[i].id = c
                                    ELSE i \in DOMAIN posted /\ posted'[i] = posted[i]
      BY <1>0, <2>3
    <3>2. StrikesInListingOrder'
      <4> SUFFICES ASSUME NEW i \in DOMAIN posted', NEW j \in DOMAIN posted', i < j
                   PROVE  posted'[i].id < posted'[j].id
        OBVIOUS
      <4>1. i \in DOMAIN posted /\ posted'[i] = posted[i]
        BY <1>0, <2>3, <3>1
      <4>2. CASE j = Len(posted) + 1
        BY <2>3, <2>5, <4>1, <4>2
      <4>3. CASE j # Len(posted) + 1
        BY <1>0, <3>1, <4>1, <4>3
      <4> QED BY <4>2, <4>3
    <3>3. \A i \in DOMAIN posted', d \in todo : posted'[i].id <= d
      BY <1>0, <2>4, <2>5, <3>1
    <3> QED BY <2>1, <3>2, <3>3
  <2>8. CompleteInv'
    <3>1. {posted'[i].id : i \in DOMAIN posted'} = PostedIds \cup {c}
      BY <1>0, <2>3
    <3> QED BY <2>1, <2>4, <3>1
  <2>9. PrefixInv'
    BY <2>1
  <2> QED BY <2>6, <2>7, <2>8, <2>9
<1>7. ASSUME NEW c \in Container,
             StrikeOk(c) \/ StrikeSkipped(c) \/ StrikeRefused(c) \/ StrikeUnanswered(c)
      PROVE  SequenceInv'
  <2>1. /\ UNCHANGED <<cfg_, matched, selected, posted>>
        /\ phase = "reply" /\ phase' = "sweep"
        /\ IsNext(c) /\ todo' = todo \ {c}
    BY <1>7
    DEF StrikeOk, StrikeSkipped, StrikeRefused, StrikeUnanswered, NextTarget, historyVars
  <2>2. c \in PostedIds
    <3>1. posted # <<>> /\ IsNext(posted[Len(posted)].id)
      BY <2>1
    <3>2. posted[Len(posted)].id = c
      BY <1>0, <2>1, <3>1, NextIsUnique
    <3>3. Len(posted) \in DOMAIN posted
      BY <1>0, <3>1
    <3> QED BY <3>2, <3>3
  <2>3. CompleteInv'
    BY <2>1, <2>2
  <2>4. OrderInv'
    <3>1. c \in todo /\ \A d \in todo : c <= d
      BY <2>1 DEF IsNext
    <3>2. \A i \in DOMAIN posted : posted[i].id <= c
      BY <2>1, <3>1
    <3>3. \A i \in DOMAIN posted, d \in todo' : posted[i].id < d
      BY <1>0, <2>1, <3>1, <3>2
    <3>4. \A i \in DOMAIN posted, d \in todo' : posted[i].id <= d /\ posted[i].id # d
      BY <1>0, <2>1, <3>3
    <3> QED BY <2>1, <3>4
  <2> QED BY <2>1, <2>3, <2>4
<1>8. CASE DockerStep
  <2>1. UNCHANGED <<cfg_, matched, selected, todo, posted, phase>>
    BY <1>8 DEF DockerStep, Executes, Refuses, OrphanEnds, ContainerChanges,
                engineVars, historyVars
  <2> QED BY <2>1, SequenceKept
<1> HIDE DEF SequenceInv
<1> QED BY <1>1, <1>2, <1>3, <1>4, <1>5, <1>6, <1>7, <1>8 DEF EngineStep

----------------------------------------------------------------------------
(* The invariant holds *)

EngineInv == TypeInv /\ ControlInv /\ AccountInv /\ CapsInv /\ SequenceInv

(* The process starts in the invariant.                                    *)
LEMMA EngineInvInit == EngineInit => EngineInv
<1> SUFFICES ASSUME EngineInit PROVE EngineInv
  OBVIOUS
<1> USE EngineAssumption DEF EngineInit
<1>1. TypeInv
  BY DEF TypeInv, EngineTypeOK, FreshInv, Phases
<1>2. ControlInv
  BY DEF ControlInv, WireInv, ModeInv, LateInv, CountInv
<1>3. CapsInv
  <2>1. Cap \in Nat /\ cfg_.max_actions_per_run \in Int
    BY CapType
  <2> QED BY <2>1 DEF CapsInv, SweepInv, BudgetInv, GrantInv, Sweeping, Limited
<1>4. SequenceInv
  BY DEF SequenceInv, AwaitedInv, OrderInv, CompleteInv, PrefixInv, Sweeping,
         StrikesInListingOrder
<1>5. AccountInv
  <2>1. Cardinality(orphans) = 0
    BY FS_EmptySet
  <2> QED BY <2>1 DEF AccountInv, Reported
<1> QED BY <1>1, <1>2, <1>3, <1>4, <1>5 DEF EngineInv

(* The stop flag never falls.                                              *)
LEMMA StopIsForever == ShutdownNext /\ state_ => state_'
BY DEF ShutdownNext, RequestStep, WaitStep, Wakeup, BeginRequest, LockRequest, Exchange,
       StoreReason, UnlockRequest, NotifyAll, BeginWait, LockWait, TestPredicate, Block,
       RelockWoken, RelockTimedOut, UnlockWait, Timeout, SpuriousWake, Goto

(* No step of another thread, and no stuttering step, disturbs it.         *)
LEMMA EngineInvKept ==
  ASSUME EngineInv, UNCHANGED allEngineVars, state_ => state_'
  PROVE  EngineInv'
<1>1. UNCHANGED <<cfg_, phase, matched, selected, todo, counters_, run_budget_used_,
                  up, wire, orphans, ticks, posted, late, downs>>
  BY DEF allEngineVars, engineVars, dockerVars, historyVars
<1>2. TypeInv'
  BY <1>1 DEF EngineInv, TypeInv, EngineTypeOK, FreshInv
<1>3. ControlInv'
  BY <1>1 DEF EngineInv, ControlInv, WireInv, ModeInv, LateInv, CountInv
<1>4. CapsInv'
  BY <1>1, CapsKept DEF EngineInv, Sweeping
<1>5. SequenceInv'
  BY <1>1, SequenceKept DEF EngineInv
<1>6. AccountInv'
  BY <1>1 DEF EngineInv, AccountInv, Reported
<1> QED BY <1>2, <1>3, <1>4, <1>5, <1>6 DEF EngineInv

(* Every step, of the engine or around it, keeps the invariant.            *)
LEMMA EngineInvStep ==
  ASSUME EngineInv, [EngineNext]_<<shutdownVars, allEngineVars>>
  PROVE  EngineInv'
<1>1. CASE Tick \/ EngineStep \/ DockerStep
  <2>1. CASE UNCHANGED shutdownVars
    <3>1. state_' = state_
      BY <2>1 DEF shutdownVars
    <3>2. WireInv
      BY DEF EngineInv, ControlInv
    <3> QED BY <1>1, <3>1, <3>2, TypeStep, ControlStep, AccountStep, CapsStep, SequenceStep
            DEF EngineInv
  <2>2. CASE ~UNCHANGED shutdownVars
    BY <2>2, StopIsForever, EngineInvKept DEF EngineNext
  <2> QED BY <2>1, <2>2
<1>2. CASE ShutdownNext /\ UNCHANGED allEngineVars
  BY <1>2, StopIsForever, EngineInvKept
<1>3. CASE UNCHANGED <<shutdownVars, allEngineVars>>
  BY <1>3, EngineInvKept DEF shutdownVars
<1> QED BY <1>1, <1>2, <1>3 DEF EngineNext

(* The inductive invariant of the engine holds for every host, rule set,   *)
(* configuration and set of requesting threads.                            *)
THEOREM EngineInvariant == EngineSpec => []EngineInv
<1>1. EngineInv /\ [EngineNext]_<<shutdownVars, allEngineVars>> => EngineInv'
  BY EngineInvStep
<1> QED BY <1>1, EngineInvInit, PTL DEF EngineSpec

----------------------------------------------------------------------------
(* What the invariant gives *)

(* The engine's state stays well typed.                                    *)
THEOREM EngineTypeCorrect == EngineSpec => []EngineTypeOK
<1>1. EngineInv => EngineTypeOK
  BY DEF EngineInv, TypeInv
<1> QED BY <1>1, EngineInvariant, PTL

(* The run budget is never overdrawn (chaos.cpp:18-27, engine.cpp:94-96).  *)
THEOREM RunBudgetHolds == EngineSpec => []StrikesWithinRunBudget
<1>1. EngineInv => StrikesWithinRunBudget
  BY DEF EngineInv, ControlInv, CountInv, CapsInv, BudgetInv, StrikesWithinRunBudget
<1> QED BY <1>1, EngineInvariant, PTL

(* A tick sends no more POSTs than max_actions_per_cycle, nor more than    *)
(* the run budget had left when its first one went out (chaos.cpp:11-29).  *)
THEOREM CycleCapHolds == EngineSpec => []PostsWithinCycleCap
<1>1. EngineInv => PostsWithinCycleCap
  <2> SUFFICES ASSUME EngineInv PROVE PostsWithinCycleCap
    OBVIOUS
  <2>1. EngineTypeOK /\ BudgetInv /\ GrantInv
    BY DEF EngineInv, TypeInv, CapsInv
  <2>2. Len(posted) \in Nat /\ cfg_ \in Configs /\ cfg_.max_actions_per_run \in Int
    BY <2>1, EngineAssumption DEF EngineTypeOK
  <2>3. PerCycle \in Nat /\ Len(posted) <= Cap
    BY <2>1, <2>2, CapType DEF BudgetInv
  <2> QED BY <2>1, <2>2, <2>3 DEF PostsWithinCycleCap, Cap, GrantInv
<1> QED BY <1>1, EngineInvariant, PTL

(* Dry runs and --discover send nothing (engine.cpp:89, 152-157).          *)
THEOREM HarmlessModesAreHarmless == EngineSpec => []HarmlessModesSendNothing
<1>1. EngineInv => HarmlessModesSendNothing
  BY DEF EngineInv, ControlInv, ModeInv, WireInv, HarmlessModesSendNothing
<1> QED BY <1>1, EngineInvariant, PTL

(* A stop request lets at most one more POST out (engine.cpp:142-149).     *)
THEOREM StopIsPrompt == EngineSpec => []AtMostOneLateStrike
<1>1. EngineInv => AtMostOneLateStrike
  BY DEF EngineInv, ControlInv, LateInv, AtMostOneLateStrike
<1> QED BY <1>1, EngineInvariant, PTL

\* The report covers the containers taken down so far.
LEMMA ReportCovers == EngineInv => downs <= Reported
<1> SUFFICES ASSUME EngineInv PROVE downs <= Reported
  OBVIOUS
<1>1. counters_ \in [rolls : Nat, strikes : Nat, errors : Nat] /\ downs \in Nat
  BY DEF EngineInv, TypeInv, EngineTypeOK
<1>2. Cardinality(orphans) \in Nat
  BY FiniteContainers DEF EngineInv, TypeInv, EngineTypeOK
<1>3. downs + Cardinality(orphans) <= Reported /\ Reported \in Nat
  BY <1>1 DEF EngineInv, AccountInv, Reported
<1> QED BY <1>1, <1>2, <1>3

(* Strikes and errors reported account for every container taken down, and *)
(* no strike is reported that took none down (engine.cpp:165-190).         *)
THEOREM ReportIsHonest == EngineSpec => []TakedownsAreReported
<1>1. EngineInv => TakedownsAreReported
  <2> SUFFICES ASSUME EngineInv PROVE TakedownsAreReported
    OBVIOUS
  <2>1. counters_ \in [rolls : Nat, strikes : Nat, errors : Nat] /\ downs \in Nat
    BY DEF EngineInv, TypeInv, EngineTypeOK
  <2>2. counters_.strikes <= downs
    BY <2>1 DEF EngineInv, ControlInv, CountInv
  <2> QED BY <2>2, ReportCovers DEF TakedownsAreReported, Reported
<1> QED BY <1>1, EngineInvariant, PTL

\* What the run cap bounds, lost replies included.
DownsWithinCapAndErrors ==
  Limited => downs <= cfg_.max_actions_per_run + counters_.errors

(* The cap on a run's strikes may be passed by what is taken down, but by  *)
(* no more than the errors that the run has reported: what remains true of *)
(* BlastRadiusBounded (chaos.cpp:18-27, engine.cpp:171-187).               *)
THEOREM BlastRadiusWithErrors == EngineSpec => []DownsWithinCapAndErrors
<1>1. EngineInv => DownsWithinCapAndErrors
  <2> SUFFICES ASSUME EngineInv, Limited
               PROVE  downs <= cfg_.max_actions_per_run + counters_.errors
    BY DEF DownsWithinCapAndErrors
  <2>1. /\ EngineTypeOK /\ counters_ \in [rolls : Nat, strikes : Nat, errors : Nat]
        /\ downs \in Nat /\ cfg_.max_actions_per_run \in Int
    BY EngineAssumption DEF EngineInv, TypeInv, EngineTypeOK
  <2>2. run_budget_used_ = counters_.strikes /\ WireInv
    BY DEF EngineInv, ControlInv, CountInv
  <2>3. downs <= Reported
    BY <2>1, ReportCovers
  <2>4. CASE wire = "ok"
    <3>1. phase = "reply"
      BY <2>2, <2>4 DEF WireInv
    <3>2. PICK c \in Container : IsNext(c)
      BY <2>1, <3>1 DEF EngineInv, SequenceInv, AwaitedInv, IsNext, EngineTypeOK
    <3>3. Cardinality(todo) \in Nat \ {0}
      BY <2>1, <3>2, OneLess
    <3>4. run_budget_used_ + Cardinality(todo) <= cfg_.max_actions_per_run
      BY <3>1 DEF EngineInv, CapsInv, SweepInv, Sweeping
    <3>5. counters_.strikes + 1 <= cfg_.max_actions_per_run
      BY <2>1, <2>2, <3>3, <3>4
    <3> QED
      BY <2>1, <2>3, <2>4, <3>5 DEF Reported
  <2>5. CASE wire # "ok"
    <3>1. counters_.strikes <= cfg_.max_actions_per_run
      BY <2>2 DEF EngineInv, CapsInv, BudgetInv
    <3> QED
      BY <2>1, <2>3, <2>5, <3>1 DEF Reported
  <2> QED
    BY <2>4, <2>5
<1> QED BY <1>1, EngineInvariant, PTL

(* The sweep follows the listing (engine.cpp:141, discovery.cpp:63-66).    *)
THEOREM SweepFollowsTheListing == EngineSpec => []StrikesInListingOrder
<1>1. EngineInv => StrikesInListingOrder
  BY DEF EngineInv, SequenceInv, OrderInv
<1> QED BY <1>1, EngineInvariant, PTL

(* A sweep that nobody stops deals with all it selected, whatever happens  *)
(* to the single strikes (engine.cpp:141-191).                             *)
THEOREM SweepsAreComplete == EngineSpec => FaultIsolation
<1>1. ASSUME EngineInv, [EngineNext]_<<shutdownVars, allEngineVars>>
      PROVE  [SweepIsComplete]_<<shutdownVars, allEngineVars>>
  <2> SUFFICES ASSUME EngineNext, phase = "sweep", phase' = "idle", ~state_, ~cfg_.dry_run
               PROVE  /\ PostedIds = selected
                      /\ \A c \in selected, d \in matched \ selected : c < d
    BY <1>1 DEF SweepIsComplete
  <2>1. todo = {}
    <3>1. phase' # phase
      OBVIOUS
    <3>2. Tick \/ EngineStep
      BY <3>1 DEF EngineNext, allEngineVars, engineVars, DockerStep, Executes, Refuses,
                  OrphanEnds, ContainerChanges
    <3>3. SweepEnds
      BY <3>2 DEF Tick, EngineStep, Guard1, ListFails, ListSucceeds, Guard2, should_strike,
                  Guard3, Post, StrikeOk, StrikeSkipped, StrikeRefused, StrikeUnanswered
    <3> QED BY <3>3 DEF SweepEnds
  <2> QED BY <1>1, <2>1 DEF EngineInv, SequenceInv, CompleteInv, PrefixInv, Sweeping
<1> QED BY <1>1, EngineInvariant, PTL DEF EngineSpec, FaultIsolation

=============================================================================
