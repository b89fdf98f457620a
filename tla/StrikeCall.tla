------------------------------ MODULE StrikeCall ------------------------------
(***************************************************************************)
(* What the chaos engine relies on when it calls stop_container() or       *)
(* kill_container(): the outcome it counts is the one that the Docker      *)
(* Engine answered, or none at all.                                        *)
(***************************************************************************)
CONSTANT Answer

VARIABLES
  answer,  \* what the Engine's reply to this strike says
  fate     \* "pending", then what the caller makes of the call

strikeVars == <<answer, fate>>

StrikeInit == answer \in Answer /\ fate = "pending"

Returns ==
  /\ fate = "pending"
  /\ fate' \in {answer, "unanswered"}
  /\ UNCHANGED answer

StrikeCallSpec == StrikeInit /\ [][Returns]_strikeVars
=============================================================================
