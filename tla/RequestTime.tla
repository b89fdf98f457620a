----------------------------- MODULE RequestTime -----------------------------
(***************************************************************************)
(* The time one request takes.  SO_RCVTIMEO and SO_SNDTIMEO                *)
(* (src/http_socket.cpp) bound each blocking call and nothing bounds their *)
(* sum, so that an Engine that sends a byte now and then keeps a request,  *)
(* and the tick that waits for it, alive.                                  *)
(***************************************************************************)
EXTENDS HttpClient

CONSTANT timeout_sec  \* 5

VARIABLE elapsed  \* since request() was called

TimedInit == HttpInit /\ elapsed = 0

\* A call that blocks comes back within the timeout, or fails at its end.
Blocking(call) == call /\ \E d \in 0..timeout_sec : elapsed' = elapsed + d

TimedStep ==
  \/ Blocking(Connect) \/ Blocking(send_all)
  \/ Blocking(\E n \in 1..RecvSize : Receive(n))
  \/ Blocking(ReceiveEof) \/ Blocking(ReceiveFails)
  \/ (Malformed \/ Finish) /\ UNCHANGED elapsed
  \/ ParserStep /\ UNCHANGED <<clientVars, elapsed>>

TimedNext == TimedStep \/ (Returned /\ UNCHANGED elapsed)
TimedSpec == TimedInit /\ [][TimedNext]_<<httpVars, elapsed>>

(* engine.cpp:43-44 says of a tick that it is "bounded by the 5 s socket   *)
(* timeout", and engine.hpp:16-17 of a strike in flight.  Not even one     *)
(* request is, if connect, send and the wait for the reply may take the    *)
(* timeout each.                                                           *)
BoundedByTheTimeout == elapsed <= 3 * timeout_sec
=============================================================================
