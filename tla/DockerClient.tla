----------------------------- MODULE DockerClient -----------------------------
(***************************************************************************)
(* One call of the Docker Engine client (src/docker_api.cpp): the request  *)
(* path is checked, the HTTP client runs one exchange over a connection of *)
(* its own, and what came back is judged by its status; the body of a      *)
(* listing goes through the JSON parser.                                   *)
(***************************************************************************)
EXTENDS HttpClient, JsonGrammar

CONSTANTS
  Calls,     \* the calls made: records of op, id and seconds
  IdLength   \* 64

VARIABLES
  call,         \* the call under way
  http_status,  \* the caller's variable, 0 unless the call sets it
  verdict,      \* "none", "parsing" a listing; "done", "failed" once returned
  listed        \* the caller's vector of containers

callVars == <<call, http_status, verdict, listed>>
dockerVars == <<httpVars, jsonVars, callVars>>

DockerInit ==
  /\ HttpInit /\ JsonInit(<<>>)
  /\ call \in Calls
  /\ http_status = 0 /\ verdict = "none" /\ listed = <<>>

IsStrike == call.op \in {"stop", "kill"}

is_valid_container_id(id) == Len(id) = IdLength /\ \A i \in DOMAIN id : IsHex(id[i])

PathIsGood ==
  /\ IsStrike => is_valid_container_id(call.id)
  /\ call.op = "stop" => call.seconds \in 1..600

Judged(v) == verdict' = v /\ UNCHANGED <<httpVars, jsonVars, call, listed>>

\* Nothing is sent for a malformed id or timeout.
RejectPath ==
  /\ verdict = "none" /\ ~PathIsGood
  /\ Judged("failed") /\ UNCHANGED http_status

Exchange ==
  /\ verdict = "none" /\ PathIsGood
  /\ HttpStep
  /\ UNCHANGED <<jsonVars, callVars>>

\* Mutant: the status line of a reply that broke off is believed.
RequestFails_KeepsStatus ==
  /\ verdict = "none" /\ stage = "err"
  /\ http_status' = IF IsStrike THEN status ELSE http_status
  /\ Judged("failed")

RequestFails ==
  /\ verdict = "none" /\ stage = "err"
  /\ Judged("failed") /\ UNCHANGED http_status

ok == status >= 200 /\ status < 300

\* post_container_action()
StrikeAnswered ==
  /\ verdict = "none" /\ stage = "ok" /\ IsStrike
  /\ http_status' = status
  /\ Judged(IF ok THEN "done" ELSE "failed")

PingAnswered ==
  /\ verdict = "none" /\ stage = "ok" /\ call.op = "ping"
  /\ Judged(IF ok THEN "done" ELSE "failed") /\ UNCHANGED http_status

\* list_containers() hands a body on to the JSON parser.
ListingArrives ==
  /\ verdict = "none" /\ stage = "ok" /\ call.op = "list"
  /\ IF ok THEN verdict' = "parsing" /\ text' = body
           ELSE verdict' = "failed" /\ text' = text
  /\ UNCHANGED <<httpVars, pos_, err_, ctl, stack, str, out, call, http_status, listed>>

----------------------------------------------------------------------------
(* parse_container_list() *)

ParseListing ==
  /\ verdict = "parsing" /\ JsonStep
  /\ UNCHANGED <<httpVars, callVars>>

Is(type, value) == type \in DOMAIN value
find(value, key) ==
  IF Is("obj", value) /\ key \in DOMAIN value.obj THEN value.obj[key] ELSE Null

\* Mutant: any string will do for an id.
IsContainer_AnyId(entry) == Is("str", find(entry, <<"Id">>))

IsContainer(entry) ==
  LET id == find(entry, <<"Id">>)
  IN  Is("str", id) /\ is_valid_container_id(id.str)

normalize_container_name(raw) ==
  LET kept == {i \in DOMAIN raw : raw[i] # "/"}
  IN  IF kept = {} THEN <<>> ELSE SubSeq(raw, Min(kept), Len(raw))

\* The vector that push_back() fills: what f has for 1, 2, ..., n, if anything.
Gathered(f, n) ==
  LET gathered[k \in 0..n] ==
        IF k = 0 THEN <<>>
        ELSE IF k \in DOMAIN f THEN Append(gathered[k - 1], f[k]) ELSE gathered[k - 1]
  IN  gathered[n]

NamesIn(entry) ==
  LET value     == find(entry, <<"Names">>)
      normal(i) == normalize_container_name(value.arr[i].str)
      good      == {i \in DOMAIN value.arr : Is("str", value.arr[i]) /\ normal(i) # <<>>}
  IN  IF Is("arr", value) THEN Gathered([i \in good |-> normal(i)], Len(value.arr)) ELSE <<>>

\* Image, State and Status, which are only logged, are left out.
Containers(entries) ==
  LET good == {i \in DOMAIN entries : IsContainer(entries[i])}
  IN  Gathered([i \in good |-> [id    |-> find(entries[i], <<"Id">>).str,
                               names |-> NamesIn(entries[i])]], Len(entries))

NoListing ==
  /\ verdict = "parsing"
  /\ ctl = "failed" \/ (ctl = "ok" /\ ~Is("arr", out))
  /\ Judged("failed") /\ UNCHANGED http_status

Listed ==
  /\ verdict = "parsing" /\ ctl = "ok" /\ Is("arr", out)
  /\ listed' = Containers(out.arr)
  /\ verdict' = "done"
  /\ UNCHANGED <<httpVars, jsonVars, call, http_status>>

DockerStep ==
  \/ RejectPath \/ Exchange \/ RequestFails \/ StrikeAnswered \/ PingAnswered
  \/ ListingArrives \/ ParseListing \/ NoListing \/ Listed

CallDone == verdict \in {"done", "failed"}
DockerNext == DockerStep \/ (CallDone /\ UNCHANGED dockerVars)
DockerSpec == DockerInit /\ [][DockerNext]_dockerVars
(* The thread runs, and recv() comes back: with bytes, with the end of the *)
(* connection or, by SO_RCVTIMEO, with an error.                           *)
FairDockerSpec == DockerSpec /\ WF_dockerVars(DockerStep)

----------------------------------------------------------------------------
(* What a listing says.  The content of a reply is JSON, and the containers*)
(* of the reply are those that its array shows, in their order: an object  *)
(* shows one if it has an Id of the right form.  Its names are the strings *)
(* of its Names less the slashes they begin with, if anything is left.     *)

\* What an unframed reply sends is all of it that is no head.
Sent(r) ==
  IF r.framing = "eof" THEN SubSeq(r.wire, r.head + 1, Len(r.wire)) ELSE r.content

\* The list t has a member for each place in I of the list s, and it is
\* the one of that rank.
OneForEach(s, I, t) ==
  IsList(s) /\ I \subseteq DOMAIN s /\ IsList(t) /\ Len(t) = Cardinality(I)
Rank(I, i) == Cardinality({j \in I : j <= i})

HasLetters(value) == Is("str", value) /\ \E k \in DOMAIN value.str : value.str[k] # "/"
Strips(raw, name) ==
  /\ IsList(name) /\ name # <<>> /\ name[1] # "/"
  /\ \E n \in 0..Len(raw) : raw = [i \in 1..n |-> "/"] \o name

ShowsNames(entry, names) ==
  LET value == find(entry, <<"Names">>)
      raw   == IF Is("arr", value) THEN value.arr ELSE <<>>
      named == {i \in DOMAIN raw : HasLetters(raw[i])}
  IN  /\ OneForEach(raw, named, names)
      /\ \A i \in named : Strips(raw[i].str, names[Rank(named, i)])

Shows(entry) ==
  /\ Is("obj", entry) /\ <<"Id">> \in DOMAIN entry.obj
  /\ LET id == entry.obj[<<"Id">>]
     IN  Is("str", id) /\ Len(id.str) = IdLength /\ \A i \in DOMAIN id.str : IsHex(id.str[i])
Describes(entry, c) ==
  /\ c = [id |-> entry.obj[<<"Id">>].str, names |-> c.names]
  /\ ShowsNames(entry, c.names)

Lists(entries, cs) ==
  LET shown == {i \in DOMAIN entries : Shows(entries[i])}
  IN  /\ OneForEach(entries, shown, cs)
      /\ \A i \in shown : Describes(entries[i], cs[Rank(shown, i)])

IsListing(r) == \E v \in Meaning(Sent(r)) : Is("arr", v) /\ Lists(v.arr, r.containers)
\* What is no listing does not begin like an array or, if it is framed, is none.
IsNoListing(r) ==
  \/ Marks(Sent(r), 1, "[") = {}
  \/ r.framing # "eof" /\ \A v \in Meaning(r.content) : ~Is("arr", v)

ASSUME ListingsAssumption ==
  /\ \A r \in Replies : r.status \in 200..299 => IsListing(r) \/ IsNoListing(r)
  /\ "[" \notin DOMAIN HexOf /\ Whitespace \cap DOMAIN HexOf = {}

----------------------------------------------------------------------------
(* Properties *)

\* What a reply says, and what execute_strikes() makes of the call: it looks at
\* the returned value first and at http_status only if that is false.
Outcome(code) ==
  IF code >= 200 /\ code < 300 THEN "ok"
  ELSE IF code \in {404, 409} THEN "gone" ELSE "refused"
Fate ==
  IF ~IsStrike \/ ~CallDone THEN "pending"
  ELSE IF verdict = "done" THEN "ok"
  ELSE IF http_status \in {404, 409} THEN "gone"
  ELSE IF http_status = 0 THEN "unanswered" ELSE "refused"

Strike == INSTANCE StrikeCall WITH
  Answer <- {"ok", "gone", "refused"}, answer <- Outcome(reply.status), fate <- Fate

(* Wherever the exchange breaks, before, in or after the status line, a    *)
(* strike is counted as what the Engine answered or as unanswered, never   *)
(* as something else (docker_api.hpp:89-91, engine.cpp:171-187).           *)
ImplementsStrikeCall == Strike!StrikeCallSpec

(* A listing that is accepted is the Engine's, container for container;    *)
(* one cut short by the end of the connection, in whatever framing, is     *)
(* never taken for a shorter one, and one not accepted leaves nothing.     *)
(* That a listing may be misread, for want of header fields, can only make *)
(* it be rejected: a Content-Length in it gives the parser the beginning   *)
(* of what was sent, and an array begins with no chunk size.  Only what is *)
(* no listing may become one by being misread.                             *)
ListIsTheEngines ==
  IF verdict = "done" /\ call.op = "list"
  THEN listed = reply.containers \/ (MayBeMisread(reply) /\ ~IsListing(reply))
  ELSE listed = <<>>

(* Every call returns: no input makes step() or the JSON parser go round   *)
(* without consuming anything, and every failure leads out.                *)
CallReturns == <>CallDone
=============================================================================
