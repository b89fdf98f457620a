----------------------------- MODULE MCStartup ------------------------------
(* Configuration files with at most two keys that are out of the ordinary. *)
EXTENDS Startup

MCTrim == [s \in {"", " ", "/sock", "web", " web ", "kill", " STOP ", "maim",
                  "error", " Warn ", "loud"} |->
             CASE s = " " -> "" [] s = " web " -> "web" [] s = " STOP " -> "STOP"
               [] s = " Warn " -> "Warn" [] OTHER -> s]
MCLower == [s \in {"", "kill", "stop", "STOP", "maim", "error", "ERROR", "Warn",
                   "loud", "web"} |->
              CASE s = "STOP" -> "stop" [] s = "Warn" -> "warn"
                [] s = "ERROR" -> "error" [] OTHER -> s]

MCEnvs == {"", "error", "ERROR", "Warn", "loud"}

Number(ns) == {[number |-> n] : n \in ns}
String(ss) == {[string |-> s] : s \in ss}
Array(seqs) == {[array |-> seq] : seq \in seqs}
Object(fields) == [object |-> fields]

AnEntry(name, action) == Object([name_match |-> [string |-> name],
                                 action |-> [string |-> action]])
Good == AnEntry(" web ", "kill")
BadEntries == {AnEntry(" ", "kill"), AnEntry("web", "maim"),
               Object([name_match |-> [string |-> "web"]]),
               Object([action |-> [string |-> "kill"]]),
               Object([name_match |-> [number |-> 2], action |-> [string |-> "kill"]]),
               [string |-> "web"]}

\* What each key may hold: the ends of its range, values beyond them, another type.
Unusual(key) ==
  CASE key = "interval_seconds"      -> Number({0, 2, 3, 172800, 172802}) \cup String({"web"})
    [] key = "chaos_probability"     -> Number({-1, 0, 2, 3})
    [] key = "docker_socket"         -> String({"", "/sock"}) \cup Number({2})
    [] key = "stop_timeout_seconds"  -> Number({0, 2, 1200, 1202})
    [] key = "dry_run"               -> {[bool |-> TRUE], [bool |-> FALSE]} \cup String({"web"})
    [] key = "max_actions_per_cycle" -> Number({0, 2, 2000, 2002})
    [] key = "max_actions_per_run"   -> Number({-2, 0, 2, 2000000, 2000002})
    [] key = "log_level"             -> String({"error", " Warn ", "loud"})
    [] key = "targets"               ->
         Array({<<>>, <<Good, AnEntry("web", " STOP ")>>}
               \cup {<<Good, e>> : e \in BadEntries}) \cup String({"web"})

Keys == {KeyOrder[i] : i \in 1..Len(KeyOrder)} \cup {"targets"}
Plain == [k \in {"targets"} |-> [array |-> <<Good>>]]

With(fields, key, v) == [k \in DOMAIN fields \cup {key} |-> IF k = key THEN v ELSE fields[k]]

OneUnusual == {With(Plain, k, v) : <<k, v>> \in UNION {{k} \X Unusual(k) : k \in Keys}}
LiveFile == With(Plain, "dry_run", [bool |-> FALSE])
\* One more key in a file that goes live.
TwoUnusual == {With(LiveFile, k, v) :
                 <<k, v>> \in UNION {{k} \X Unusual(k) : k \in Keys \ {"dry_run"}}}
\* Two faults at once.
TwoFaults == {With(With(Plain, "interval_seconds", [number |-> 3]), "log_level",
                   [string |-> "loud"]),
              With([k \in {} |-> Good], "dry_run", [string |-> "web"])}

MCFiles ==
  {[state |-> "missing"], [state |-> "blank"], [state |-> "broken"],
   [state |-> "parsed", root |-> [number |-> 2]],
   [state |-> "parsed", root |-> Object(Plain)]}
  \cup {[state |-> "parsed", root |-> Object(f)] : f \in OneUnusual \cup TwoUnusual \cup TwoFaults}
=============================================================================
