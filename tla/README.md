# Chaos_Forger in TLA+

Chaos_Forger is a daemon that, every `interval_seconds`, lists the containers
of a Docker Engine over its Unix socket, matches them against rules, rolls a
die and, if it falls so, stops or kills some of the matching containers within
two caps. This directory models the program, checks the models with TLC on
small instances and proves the core of them with TLAPS for every instance.

Paths below are relative to the repository: `main.cpp`, `src/*.cpp`,
`include/forger/*.hpp`.

## 1. The system

| Component | State | Operations | Who calls it |
|---|---|---|---|
| Shutdown state (`shutdown.hpp/.cpp`) | atomic flag `state_`, atomic `reason_`, `mutex_`, `cv_` | `request`, `wait_for_stop`, lock-free `stop_requested` and `reason` | listener thread requests, main waits and reads |
| Chaos engine (`engine.cpp`) | `counters_`, `run_budget_used_`, the vectors of one tick | `tick`: guard 1, discover, match, guard 2, roll, budget, sweep with guard 3 | scheduler loop, one-shot mode |
| Discovery (`discovery.cpp`) | none | `contains_substring`, `match_containers` | engine |
| Budget and dice (`chaos.cpp`) | the generator | `action_budget`, `set_probability`, `roll` | engine |
| Docker API client (`docker_api.cpp`) | none (a connection per request) | `ping`, `list_containers`, `stop_container`, `kill_container` | engine, `main` |
| HTTP client and parser (`http_socket.cpp`) | socket; `state_`, `buf_`, chunk state | `request`, `feed` | Docker API client |
| Daemon shell (`main.cpp`) | main thread, listener thread, pending signals, `g_signal_received`, `next_tick` | startup, scheduler loop, signal listener, exit report | the operating system |
| Configuration (`config.cpp`) | `Config`, while it is filled in | `load_config`, `validate_config` | `main` |
| JSON (`json.cpp`) | none | `parse` | configuration, Docker API client |
| Logging (`log.cpp`) | the level in force, one mutex | set the level, a line of text | all |

Two threads exist: `main`, and in daemon mode the listener, which does one
`sigwait()` and one `request()`. They share only the shutdown state and
`g_signal_received`. The engine is single-threaded, but the stop flag may rise
between any two of its steps, and the Docker Engine at the other end of the
socket may answer, refuse, fall silent or carry a request out after its client
has given up.

What is hard here: the handshake of flag, reason and notification; guards that
read the flag and then act; a listing that is stale by the time it is used; a
budget that is charged by replies; failures in the middle of a sweep; the end of
the process with a listener still on its way out; the schedule after a stall;
a byte stream cut anywhere; a decision (dry run, log level) that is taken in
several places on the way from the file to the engine; a parser that goes back over
what it has read; a listing that ends because the connection did. `PROJECT.json`
lists each hazard at its line, with the properties that watch over it.

What makes each component correct:

- shutdown state: first request wins; no wake-up lost; the reason is there for
  who leaves the wait;
- engine: both caps hold over any failures; dry runs are harmless; a stop is
  honoured within one strike; a failure costs one target and no more; the report
  accounts for every container taken down;
- daemon: any signal at any time ends it; the exit report is right; teardown
  finds nobody inside; ticks neither burst nor cease;
- startup: no run is live that its file did not ask to be; only values in range
  reach the engine; the first fault is the one reported; the log tells the mode;
- HTTP: a success carries the whole body; every failure closes the socket;
  memory is bounded; the cuts of the stream do not matter (two findings say where they do);
- Docker API: a strike is counted as what the Engine answered or as unanswered; a
  listing is the Engine's whole listing or none; every call returns;
- JSON: a text is accepted if and only if it has a meaning within the depth cap,
  and the value is that meaning; no text makes it loop or recurse beyond the cap.

## 2. The modules

| Module | Models | Extends |
|---|---|---|
| `StopLatch` | what the shutdown state promises: a latch set once, in one step | - |
| `ShutdownState` | `request()` and `wait_for_stop()`, one step per shared access; refines `StopLatch` | - |
| `ChaosEngine` | `tick()` with discovery, matching, dice, budget, sweep, and the Docker Engine around it | `ShutdownState` |
| `Daemon` | `main()`, the listener, signals, exit; composes engine and shutdown state | `ChaosEngine` |
| `Config` | `load_config()` and `validate_config()`, part by part | - |
| `Startup` | `main()` up to the first tick | `Config` |
| `Scheduler` | the loop's clock: `next_tick`, stalls, truncated waits | - |
| `HttpResponseParser` | `feed()` and `step()` of the parser | - |
| `HttpClient` | `HttpClient::request` over the transport | `HttpResponseParser` |
| `RequestTime` | the time the blocking calls of a request take | `HttpClient` |
| `Json` | the recursive-descent parser, as a machine with a stack | - |
| `JsonGrammar` | what a text means, by a grammar: the reference for `Json` | `Json` |
| `StrikeCall` | what the engine relies on when it strikes | - |
| `DockerClient` | the four calls of the client; composes `HttpClient` and `Json`, refines `StrikeCall` | `HttpClient`, `JsonGrammar` |
| `LeastNumbers` | lemmas on least and greatest numbers of a finite set | - |
| `MC*` | the instances TLC checks | the module named |
| `*Proofs` | theorems and proofs | the module named |

### How state and actions correspond to the code

**ShutdownState.** Variables carry the names of the members. `call[t]` says where
thread `t` is inside the class; `Exchange`, `StoreReason`, `UnlockRequest` and
`NotifyAll` are the lines of `request()`, and `LockWait` to `UnlockWait` unfold
`cv_.wait_for` with its predicate: test under the mutex, release and block in one
step, wake by notification, timeout or for no reason, take the mutex again.

**ChaosEngine.** `phase` is the place in `tick()`; each action is the code from one
point at which another party can interfere to the next. A container is its
place in the Engine's listing, so the code's vectors, all subsequences of that
listing, are sets of numbers and `action_budget` is "fewer than `Allowed` armed
ones before it". `Post` does not look at the flag again, as the code does not.
`wire` is the fate of the strike in flight; `StrikeUnanswered` may leave the
request in `orphans`, where the Docker Engine may still carry it out. Containers
in `Restless` also stop and restart for reasons of their own. The histories
`posted`, `late`, `downs` and `ticks` serve the properties only.

**Daemon.** `main` and `listener` are program counters; `pending` is the process's
set of pending signals (both are blocked everywhere from
`install_signal_handlers()` on). A tick is `ChaosEngine!Tick` followed by the
engine's steps; a wait is `BeginWait(Main)` followed by the steps of
`ShutdownState`. Whether the clock has reached `next_tick` is a free choice here;
`Scheduler` settles what the clock does.

**Config, Startup.** `at` is the part of the file being checked: the eight optional keys
in the code's order, the array of rules, then rule by rule; `cfg` is filled in as
parts pass and `fault` is the part that ends it. A JSON value is a record whose one
field names its type. `pc` is the place in `main()`, which hands over to `Daemon` (or to
its one-shot mode) at `"daemon"` (`"once"`). `told` holds the lines that the log has
really shown, past the filter of the level in force at that moment. `given` is what
the operator typed, kept beside the flags the code keeps of it.

**Scheduler.** Every `Clock::now()` is a step, time passes in between. A unit is
finer than a millisecond, so `duration_cast` really cuts something off.

**HttpResponseParser, HttpClient.** `feed()` appends and raises `running`; each turn
of `step()` and of its chunk loop is an action taken while `running`. In the body
an element of the stream is a byte; in the head, where the parser waits for the
blank line before it looks at anything, a line is one element. `Receive(n)` gives
the client any next piece of the reply; it may instead see the connection end or
time out at any point. A chunk size is added to what has come modulo `Word`, the
width of a `uint64` cut down with the number of hex digits it can have.
`HeaderLines` is the text that `parse_headers()` goes through. For a head without fields
the length it computes wraps round, and the text is whatever of the body is buffered
already, divided at its CR LFs (`LinesIn`); such a line is a sequence of bytes, and
`FieldOf` says of which sequences the loop takes notice.

A reply is a record of its wire image and of what the Engine means by it: the length
of the head, the framing its header fields name, the status, the content and, for a
chunked body, how much content precedes each chunk (`chunks`). `HeadIsMeant`,
`LengthIsMeant` and `ChunksAreMeant` tie meaning to image, place by place and without a
parser; they are assumed of every reply (`RepliesAssumption`) and do not say that
a reply is well-formed. `IsSound` does: a status, sizes that are hex, chunks that end in
CR LF, a last chunk and its trailers, nothing behind, and all of it within the limits.
`MayBeMisread` says of a reply without fields that some read can leave a line in the buffer
that reads like a `Content-Length` or a chunked `Transfer-Encoding`.

**RequestTime.** The actions of `HttpClient` once more, those with a blocking call
taking from none to all of the socket timeout.

**Json.** `ctl` is the function that runs, `stack` one frame per `parse_array` or
`parse_object` under way, so that `depth` is its height. An element of the text is
a character; a literal and the four digits of a `\u` escape are one element each,
since the code takes or refuses them as a whole. A string value is its bytes: UTF-8 is
computed as `append_utf8` does. A number keeps its text; `std::stod` appears as the one
thing it may refuse, an exponent out of range. `UnicodeEscape` includes the read-back: a
high surrogate reads the escape behind it, and if that is no low one the position, but
not the recorded error, is put back.

**JsonGrammar.** `Meaning(t)` is the set of the values that a text can be divided up
into. A phrase at a place is where it ends and what it stands for; each rule of the grammar
gives the phrases at a place from those at later places, and `Tables` collects them from the
last place on. No rule prefers one division to another, so that the parser has to find
the only one, or fail if there is none. What the bytes of a character are is
stated by `IsUtf8`, from bytes to code point; the parser goes the other way.

**DockerClient.** One call: path check, exchange, verdict, and for a listing the JSON
parser on the body and then the entries. `Fate` is what `execute_strikes()` makes of
the return value and of `http_status`; `StrikeCall` says that this is the Engine's
answer or "unanswered", which is how `ChaosEngine` takes it (`StrikeOk`,
`StrikeSkipped`, `StrikeRefused`, `StrikeUnanswered`).

What a listing says is stated beside the code, without its loops: `Lists` relates an array
to containers by the ranks of the entries that show one, `ShowsNames` likewise an
entry's `Names` to its names, and a reply is a listing if a meaning of what it sends is such an
array (`IsListing`).

## 3. The runs

| Run | Instance | Shows |
|---|---|---|
| `shutdown` | 2 requesters with 2 reasons, 2 waiters | types and a mutex that nobody keeps (`ShutdownStateOK`), `NoLostWakeup`, `WaiterSeesReason`, refinement of `StopLatch` |
| `engine` | 4 containers (one matched by two rules, one malformed, one restless), 6 configurations, 3 ticks, 1 requester | the eight engine properties |
| `daemon` | 2 containers, daemon and one-shot mode, 2 ticks, fairness | types, `ExitReportIsRight`, `NobodyInsideAtTeardown`, `SignalEndsDaemon` |
| `scheduler` | interval of 5 units, 2 per millisecond, 15 units of time | `TicksDoNotBurst`, `AtMostOneLateTick`, `NextTickComes` |
| `docker` | 8 calls, 36 replies of 3 framings, reads of 1 to 9 elements, fairness | types, `SuccessIsWhole`, `MemoryIsBounded`, `CutsDoNotMatter`, `SocketIsClosed`, `ListIsTheEngines`, refinement of `StrikeCall`, `CallReturns` |
| `json` | 26 804 texts, depth cap 1 | types, `RecursionIsBounded`, `ParsesWhatIsMeant`, `ErrTellsTheOutcome`, `EveryStepConsumes` |
| `startup` | 86 files, 5 values of the log-level variable, up to 3 arguments | types, `LiveNeedsConsent`, `EngineWithinRanges`, `FirstFaultIsReported`, `LevelIsAsAsked`, `ModeIsHeard` |
| `lost_reply` | as `engine`, 2 ticks | `BlastRadiusBounded` does not hold |
| `once_ctrl_c` | one-shot mode, fairness | `CtrlCStops` does not hold |
| `split_chunk` | as `docker` | `ChunkedCutsDoNotMatter` does not hold |
| `body_as_head` | as `docker` | `BodySetsNoFraming` does not hold |
| `request_time` | 3 replies, a timeout of 2 units | `BoundedByTheTimeout` does not hold |

### Bounds, and why they are enough

- *Threads.* The program has one requester and one waiter; `shutdown` checks two
  of each, so that requests race and a notification has more than one sleeper.
- *Containers.* With four, a sweep has a target before, at and after the caps;
  one vanishes by itself, one is refused by the listing's Id check.
- *Configurations.* Each is one way the caps and modes can meet: unlimited run,
  run cap below the cycle cap, a cycle cap clamped to 1, dry run, `--discover`,
  a die that never falls. `validate_config` keeps the 0 cycle cap and the empty
  rule from a file; the library accepts them and its tests feed them.
- *`MaxTicks`* bounds the ticks of a process: three let the budget be used up,
  be exhausted and be found exhausted, and let an orphan of one tick be carried
  out during another. Two are enough where the engine is only a companion.
- *`MaxTime`* bounds the model's clock: three intervals, enough for a stall, a reset
  and two ticks after it.
- *Files.* Each key takes the ends of its range, the next values beyond, another
  type, for integers a fraction; each of these in an otherwise plain file and in
  one that goes live, and two files have two faults. A fault does not look at
  other keys, so pairs beyond these meet no new code.
- *`MaxArgs`*: three arguments give every set of the three mode flags.
- *The HTTP parser's limits* are small (45 for a body, 12 for a head, 5 for a chunk line,
  2 hex digits) so that some reply passes each of them; the body limit leaves room for a
  listing of two containers, and is below half of `Word`, as 16 MB is below half of 2^64.
- *Replies.* 24 of the 36 are sound: three of nine chunked ones (several chunks, data that
  looks like framing, a size with an extension, trailers), nine of thirteen with a length,
  twelve of fourteen that end with the connection, among them the six of `Misread`, which
  have no header fields and a body that reads like some. Each of the others is unsound in one
  way the parser can notice: surplus bytes, a bad status line, length, size or chunk end, or
  one of the limits passed. Data is cut anywhere, so a longer body meets no new code.
- *`RecvSize`* is 9 (8192 in the code): as many bytes can come with the head as it takes for
  a line of the body to be read as a field and for the rest to be framed by it.
- *Calls.* Each operation, and for strikes an id too short, an id with a character
  that is not hex, and timeouts of 0, 600 and 601. An id has 2 characters for 64.
- *Texts.* The JSON texts are all sequences of up to five brackets, commas, blanks and
  digits; of up to four parts of a number; of up to four parts of an object (two names,
  so that keys repeat); of up to three or four parts of a string, among them whole, half,
  reversed and malformed surrogate pairs; every pair of 15 code units at the boundaries
  of UTF-8 and of the surrogates. Longer texts repeat the same frames.
- *`kMaxDepth`* is 1 (64 in the code): the texts go one and two levels beyond it in
  either kind of container. In `docker` it is 3, the depth of a name in a listing.

### Fairness

`FairDaemonSpec` has weak fairness for the main thread (its own steps, the
engine's and those inside `wait_for_stop`) and for the listener: the operating
system runs threads that can run, and a strike that is never answered ends by
the receive timeout, so waiting for a reply is not a reason to stand still. The
listener's steps inside `request()` have strong fairness, since the mutex it
needs is free again and again but not all the time. Nothing is assumed of the
clock, of spurious wake-ups, of signals or of the Docker Engine: in
particular `SignalEndsDaemon` does not rely on a wait timing out.
`FairSchedulerSpec` lets the thread run and time pass. `FairDockerSpec` lets the
thread run and `recv()` come back, with bytes, with the end of the connection or, by
`SO_RCVTIMEO`, with an error; it does not ask that the Engine ever answers.

### Findings

- `lost_reply`: `max_actions_per_run` bounds the strikes *counted*, not the containers
  taken down. The budget is charged when a 2xx reply has been read
  (`engine.cpp:171`); a stop that the Engine carries out after the client's 5 s
  timeout is charged to nobody. The README's "never past the lifetime budget"
  holds of what is reported (`StrikesWithinRunBudget`), not of what happens. What does
  hold of what happens: every container taken down is a strike or an error of the report
  (`TakedownsAreReported`), so the cap is passed by no more than the errors reported
  (`BlastRadiusWithErrors`).
- `once_ctrl_c`: the safety warning for "both --once and daemon modes" advises
  Ctrl+C, but in one-shot mode signals are blocked and nobody waits for them.
- `split_chunk`: a chunked reply whose final `0` line and the blank line after it
  come in different reads is rejected as malformed: the size line is dropped
  before the parser knows that the rest is there. In the daemon this turns a
  listing into a discovery error, or a strike that was done into an error. With
  the next finding, it is the only way a sound reply is misjudged: `CutsDoNotMatter` says
  that it takes a chunked reply whose whole content has been read, or a reply without
  fields whose body may be misread, for any reply and any cuts (section 4).
- `body_as_head`: the comment at `http_socket.cpp:246-248` says that header lines are "never
  body bytes". For a head without fields the length at line 251 wraps round, and the part
  of the body that came in the same read is taken for header lines: one that reads like
  `Content-Length: n` or `Transfer-Encoding: chunked` sets the framing. Such a reply is then
  rejected, or accepted with another body, depending on how it was cut, and this is
  the exception (`MayBeMisread`) that `SuccessIsWhole` and `CutsDoNotMatter` make. A listing
  is safe even then (`ListIsTheEngines`): a length
  can only cut it short, which the JSON parser notices, and `[` is no chunk size.
- `request_time`: comments bound a tick, or a strike in flight, by the 5 s socket
  timeout. The timeout is per blocking call: a reply that trickles in keeps a request,
  and with it shutdown, waiting for as many timeouts as it has pieces.

Three more places where a comment and the code differ, read off the code and not worth a run:
the README (lines 13-15) promises that "every run prints the blast-radius settings before
acting", but they are one WARN line, which log level `error` drops (`ModeIsHeard` says when
they are heard); `http_socket.hpp:91-93` gives Content-Length precedence over chunked, while
`parse_headers` does it the other way round, as the RFC asks; and `docker_api.hpp:38` speaks
of lowercase hex digits, while `is_valid_container_id` accepts uppercase ones too.

## 4. The proofs

All theorems hold for every value of the constants under the modules' `ASSUME`s:
requesters and waiters are disjoint; containers are finitely many
numbers; a configuration's caps are integers; the daemon has exactly its two
threads; interval and millisecond are positive; an array of the file is a sequence, a
Boolean of it `TRUE` or `FALSE`; a text is a sequence of strings, of which `"end"` is none
that the tables name; the limits of the parser are positive and below half of `Word`; a
reply is a sequence of strings whose meant status is that of its first line
(`ClientAssumption`), and what it means is what its wire image says (`RepliesAssumption`): the
head ends at the first blank line; chunked wins over a length, and a length over the end of
the connection; every Content-Length that is a number is the length of the content, so
replies that contradict themselves are left out; each chunk's data is the next piece of the
content and the content is whole after the last; and no trailer field reads like a chunk
size, as no field name holds a `;` and every field a `:`. An unsound reply satisfies
all of this too, as far as it goes: it may end, or break off, anywhere. No character of a JSON text
is in two alphabets (`AlphabetAssumption`), and the table of UTF-8 says what UTF-8 is
(`Utf8Assumption`). The content of a 2xx reply to any call is a listing of its containers or no
listing, and only in the latter case its containers are left open (`ListingsAssumption`); neither
`[` nor a blank is a hex digit. What is no
listing does not begin like an array or, where a length or chunks tell its end, is none: an unframed
part of a listing is sent by nobody, it is what is left when the connection breaks.
`HexAssumption`, that a good chunk size has a value in `Nat`, is
a fact about a fold: it needs induction over a sequence, which the prover does not do, and
TLC evaluates it on every run that extends the module.

**ShutdownStateProofs.** `ShutdownInv` says that who is at a point inside the
critical section owns the mutex and nobody else does (`MutexInv`), that a waiter about to sleep has just
seen the flag down (`BlockInv`), and that flag and reason agree except while the
winner stores (`ReasonInv`). `NoLostWakeup` is not inductive without them: it needs
that nobody raises the flag between a waiter's test and its sleep, which is
mutual exclusion. From the same invariant every step maps to a latch step or a
stutter, so `ShutdownImplementsLatch`.

**ChaosEngineProofs.** First a fact about the budget alone: numbering the selected
containers by the armed ones before them is injective into `1..Allowed`
(`BudgetBound`), and what is selected comes before what is not (`BudgetPrefix`).
The invariant has five groups. `TypeInv`. `ControlInv`: where the tick can be in
each mode, after a late strike, and with a request on the wire; the budget equals
the strikes counted, each of which took a container down. `AccountInv`: what was taken down and the
requests the Engine still runs for nobody are covered by strikes, errors and the reply
awaited; without the `orphans` in the sum `TakedownsAreReported` is not inductive, as a container
may go down long after the error for it was counted. `CapsInv`: what is still
to do plus what was sent is within the cycle cap, and plus what was charged,
within the run cap; this is the strengthening that makes `StrikesWithinRunBudget`
inductive, as a sweep may go on after the flag of the last check. `GrantInv`, a part of it, keeps
what the run budget had left when the tick's first POST went out, which the budget itself
no longer shows once strikes are charged: `PostsWithinCycleCap` rests on it. `SequenceInv`:
what was sent comes before what is to do, and together they are what was
selected. Each group has a lemma that every step keeps it; the eight run
properties follow, `FaultIsolation` as an action property, and `BlastRadiusWithErrors`.

**DaemonProofs.** Every step of the daemon is a step of the engine or a stutter
(`DaemonRunsEngine`), and one of the shutdown state or a stutter
(`DaemonRunsShutdown`), so what is proved of them holds of the process
(`DaemonKeepsItsLimits`). `DaemonInv` follows the one request of the listener against
main's way out; `ExitReportHolds` and `TeardownIsSafe` follow from it.

**SchedulerProofs.** Between ticks `next_tick` is ahead of every earlier tick by as
many intervals as there have been ticks since; during a tick by one less. No tick
begins before `next_tick`, hence `NoBurst`. `NearInv` is the bound from the other side: the
next tick is due, or due an interval after the last one began at the latest. Hence
`SleepsAreShort`: no tick is put off and no sleep is longer than an interval, the
part of `NextTickComes` that needs no fairness.

**StartupProofs.** `StartupInv` has four groups: the flags remember their options
(`FlagInv`); `cfg` is never out of range, not even half filled in (`RangeInv`); there
is one good rule per entry checked, and an accepted file has at least one
(`TargetsInv`); consent at each stage between file and engine (`ConsentInv`), without
which `LiveNeedsConsent` is not inductive, since what it speaks of is decided long
before it is looked at. `LiveConsent` and `EngineGetsRanges` follow. The ranges that these
speak of are those of the README's table (`Documented`); that the code checks just
these is a lemma (`CheckedAsDocumented`), and so a value at an end of one is no fault.

`ReportInv` is a second layer on top: the parts before `at` have no fault (`FaultInv`);
the file's level is in `cfg` only once its key, the last, has been checked (`LevelInv`);
a dry run by default has been explained while the level was still the environment's, and
"blast radius" is logged at the last step or not at all (`ToldInv`). `FirstFault`,
`LevelAsAsked`, `ModeHeard` and `StartupTypeCorrect` follow.

**JsonProofs.** `JsonInv` keeps the position within the text and the frames of the two
kinds there are, bounds the stack, and says that the recorded error is set if the parse
has failed, and only then or when what is to be read next is the malformed escape that
set it (`Doomed`). The last part is what makes `ErrTellsTheOutcome` inductive: the parser
has gone back to that escape and can only fail on it. `EveryStepConsumes` follows as an action
property; together with the length of the text it bounds the steps of every parse, the
part of termination that needs no temporal argument. `LeastNumbers` has the existence of
least and greatest elements, by well-founded induction.

`ParserIsRight` is that the parser decides the grammar, for any texts, alphabets and depth cap.
The invariant is `MeansInv`: for every value, the text means it if and only if from here on the
text can still be found to mean it (`Leads`). `Leads` says in each control state
what the text from the position on has to be, in the grammar's terms, and what the
frames of the stack, taken with it, would then amount to (`Outer`, which goes through the stack from
the innermost container out). Every step is shown to preserve this in both
directions (`Faithful`); at the end one direction says that the value returned is a meaning and the only
one, the other that a text refused has none. Three groups of lemmas carry it. The table holds
just what the rules say of it (by least counterexample on places, as each rule looks only
at later ones), and so the proofs speak of the rules. No character has two roles, so that
what a value begins with decides what it is, and a scan of blanks or of a
number ends where the grammar's does. A character of a string is one thing only, though the
parser reads a low surrogate on sight of the high one and may go back.

Of the grammar itself: no text has two meanings (`MeaningIsOne`), and a beginning of a
text that has a meaning too has the same one, unless it is a number (`CutMeansTheSame`).
The proof goes over places once more, with both texts at once: where they agree, values,
elements and members that begin at the same place are the same and end at the same place.

**DockerClientProofs.** `DockerInv` joins types, a bound for buffer and body in each state of
the parser, the socket's state at each stage, and the relation of the status parsed to the
first line of the reply: `buf_` begins with that line until
the head is parsed, whatever the cuts, and then `status` is its `StatusCode`.
From it `MemoryBounded` holds for any limits and any replies, and every step of a call
maps to a step of `StrikeCall` or a stutter (`ClientImplementsStrikeCall`).

`StreamInv` is a second layer, about the bytes. It has two cases. `MeantInv` is that of a reply
that is read as what it is. `Place` is how far into the reply the parser
is; `Unread` says that `buf_` holds the reply from there to what has been received. With a
head still to come nothing is consumed. A body with a length begins behind the head
and is taken in one go when all of it is there (`InLength`); one that ends with the
connection stays in the buffer until then (`InEof`). For a chunked one the body is the beginning of
the content (`Spelled`), and the parser stands inside a chunk, the rest of whose data is the next
piece of the content (`InData`), at a chunk that `chunks` knows and that agrees with the body
(`AtChunk`), or between the last size line and the end of the trailers, where the content is
whole (`AtTrailers`). The last is what makes `CutsDoNotMatter` inductive, and it is the place the
split_chunk finding needs: `CutsAreHarmless` shows that in every other place a sound reply is
read to its end. `MisreadInv` is the case of a reply that may be misread: up to the end of the
head nothing differs, but a body that ought to end with the connection may be taken for one
with a length or in chunks. It keeps of a listing that what is taken is its beginning, and that
as a chunked body it stays at its first size line, which is none. `SuccessReturnsTheReply` is
`SuccessIsWhole` for any replies, limits and cuts. The lemmas that carry these are on places: of a piece of a sequence, of two joined,
of what remains when the front is dropped, and of the first CR LF, which an unfinished buffer
and the whole reply have at the same place.

`ParseInv` adds the parser's text. `ListingIsTheReply` says of an accepted listing that the
JSON parser took the whole content of a 2xx reply (of a misread listing, a beginning of it),
and found an array of which the listing is made. With the parser proved right, that array is a meaning of the body.
`ListingsAreTheEngines` completes the argument. The body begins what the Engine has sent,
also where only the end of the connection ends it; what was sent
means the Engine's listing, and no array cut short is an array, so the two
arrays are one (`CutMeansTheSame`). From there it is a matter of lists: gathering
what a loop appends, place by place, gives the one list that has a member of each rank
(`OneForEach`), and so the client's containers and names are those that `Lists` and
`ShowsNames` describe. If the Engine sent no listing, there is no array for the client to find.

`CallsComeToAnEnd` is the part of `CallReturns` that needs no fairness. `Work` is
what is left to receive (weighted, as a received byte may be handled more than once), to
parse of the head, of the chunk loop and of the JSON text; every step of a
call, whatever the reply and its cuts, makes this natural number smaller, and it begins at four
times the length of the reply and eight. What is left to fairness is that a step is taken at all.

**Only model-checked.** Liveness (`SignalEndsDaemon`, `NextTickComes`,
`CallReturns`), which is beyond the prover; for the client and the parser the variants
above, and for the scheduler `SleepsAreShort`, are the safety half of it. Every safety property
of a passing run is a theorem. The findings are counterexamples, and TLC's. That a fold or a recursive
function computes what it should on every input needs induction over data, which the prover
cannot be given; where the proofs need such a fact of a function they take a least
counterexample instead (`LeastNumbers`), and of a fold they take it from `HexAssumption`.

## 5. Not modelled

- The double a JSON number stands for: `Config` takes its numbers as halves, `Json`
  keeps their text. That `std::stod` reads it rightly is the C++ library's business.
- The configuration is modelled from the parsed value on; `Json` is not composed with it.
- Warnings about unknown keys and duplicate rules: they change nothing.
- `trim()` and `to_lower()` are given functions on strings.
- Clock and threads together: `Daemon` leaves the clock free, `Scheduler` the threads,
  `RequestTime` both.
- The text of a request, and the fields of a listing that are only logged.
- EINTR loops of the transport: they repeat a call that changed nothing.
- The random generator's distribution: a roll is any outcome its probability allows.
- `std::string::find` is a given relation between names and needles.
- Logging but for the lines `told` is about: output only.

## 6. State

Every component but the format of log lines is modelled and checked, and every safety property
the runs check is proved. What is left is what the tools do not reach (liveness, above) and
three compositions that would join results now proved apart:

1. `ChaosEngine`'s wire shown to be `StrikeCall`, so that client and engine meet in one
   abstract specification that both are proved against.
2. `Daemon` with the clock of `Scheduler` shown to implement `Daemon` without one.
3. Variants for a tick and for startup, as for a call.
