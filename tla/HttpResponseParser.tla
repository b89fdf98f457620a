-------------------------- MODULE HttpResponseParser --------------------------
(***************************************************************************)
(* The incremental response parser (src/http_socket.cpp): feed() appends   *)
(* what arrived to buf_, and step() consumes as much of it as it can.  The *)
(* turns of step()'s loops are steps here, taken while running.            *)
(*                                                                         *)
(* The input is a sequence of strings.  In the body each is one byte: CR,  *)
(* LF, a hex digit, ";" or any other; a field name that a line of the body *)
(* begins with is one, too.  Of the head, in which the parser does nothing *)
(* until all of it is there, the status line, each header line and the     *)
(* blank line that ends it are one string each.                            *)
(***************************************************************************)
EXTENDS Integers, Sequences, FiniteSets, FiniteSetsExt, SequencesExt

CONSTANTS
  max_body_bytes, max_header_bytes, max_chunk_line_bytes, \* the Limits
  MaxHexDigits,            \* 16: what a uint64 can hold
  allow_eof_termination_,
  StatusOf,      \* StatusOf[line]: the status code, 0 if malformed
  FieldOf,       \* FieldOf[line]: "content-length" or "chunked"; a line is the
                 \* sequence of its strings, and any other is junk
  LengthOf,      \* LengthOf[line]: its value, -1 if malformed
  HexOf          \* HexOf[byte]: the value of a hex digit

Word == 16 ^ MaxHexDigits  \* a uint64 is below it

ASSUME LimitsAssumption ==
  /\ {max_body_bytes, max_header_bytes, max_chunk_line_bytes} \subseteq Nat \ {0}
  /\ MaxHexDigits \in Nat /\ Word \in Nat /\ 2 * max_body_bytes < Word
  /\ allow_eof_termination_ \in BOOLEAN
  /\ \A line \in DOMAIN StatusOf : StatusOf[line] \in Nat
  /\ \A line \in DOMAIN LengthOf : LengthOf[line] \in Nat \cup {-1}
  /\ \A c \in DOMAIN HexOf : HexOf[c] \in 0..15

VARIABLES
  state_,        \* "StatusLine", "BodyContentLength", "BodyChunked",
                 \* "BodyEof", "Done", "Error"
  buf_, status, body,   \* resp_
  content_length_, chunk_started_, chunk_remaining_,
  running        \* step() is consuming buf_

parserVars == <<state_, buf_, status, body, content_length_, chunk_started_,
                chunk_remaining_, running>>

ParserInit ==
  /\ state_ = "StatusLine"
  /\ buf_ = <<>> /\ status = 0 /\ body = <<>>
  /\ content_length_ = 0 /\ chunk_started_ = FALSE /\ chunk_remaining_ = 0
  /\ running = FALSE

Drop(s, n) == SubSeq(s, n + 1, Len(s))
\* The places at which a CR LF begins.
CrLf(s) == {i \in 1..(Len(s) - 1) : s[i] = "CR" /\ s[i + 1] = "LF"}

fail == state_' = "Error" /\ running' = FALSE
NeedMoreBytes == running' = FALSE

----------------------------------------------------------------------------
(* feed() *)

\* Which guard, if any, rejects what has been buffered so far.
TooLong(buf) ==
  \/ state_ = "StatusLine" /\ Len(buf) > max_header_bytes
  \/ state_ = "BodyEof" /\ Len(buf) > max_body_bytes

feed(piece) ==
  /\ ~running
  /\ state_ \notin {"Done", "Error"}
  /\ buf_' = buf_ \o piece
  /\ IF TooLong(buf_') THEN fail ELSE running' = TRUE /\ state_' = state_
  /\ UNCHANGED <<status, body, content_length_, chunk_started_, chunk_remaining_>>

\* Mutant: any response may end with the connection.
feed_eof_Lenient ==
  /\ ~running
  /\ state_ \notin {"Done", "Error"}
  /\ state_' = "Done" /\ UNCHANGED <<body, buf_>>
  /\ UNCHANGED <<status, content_length_, chunk_started_, chunk_remaining_, running>>

\* feed(nullptr, 0): the connection has been closed.
feed_eof ==
  /\ ~running
  /\ state_ \notin {"Done", "Error"}
  /\ IF state_ = "BodyEof" /\ allow_eof_termination_
     THEN state_' = "Done" /\ body' = buf_ /\ buf_' = <<>>
     ELSE state_' = "Error" /\ UNCHANGED <<body, buf_>>
  /\ UNCHANGED <<status, content_length_, chunk_started_, chunk_remaining_, running>>

----------------------------------------------------------------------------
(* step() in the head *)

StatusCode(line) == IF line \in DOMAIN StatusOf THEN StatusOf[line] ELSE 0
Field(line) == IF line \in DOMAIN FieldOf THEN FieldOf[line] ELSE "other"
FieldLength(line) == IF line \in DOMAIN LengthOf THEN LengthOf[line] ELSE -1

\* Mutant: a value that is no number is taken for one.
BadLength_TakesJunk(line) == FALSE

BadLength(line) == FieldLength(line) = -1 \/ FieldLength(line) > max_body_bytes

\* The lines of a head that ends with the blank line at place end of buf.
FieldLines(buf, end) == [i \in 1..(end - 2) |-> <<buf[i + 1]>>]

\* The lines of anything else, by the place they begin at; the last need not
\* have ended.
LinesIn(s) ==
  LET starts   == {p \in DOMAIN s : p = 1 \/ p - 2 \in CrLf(s)}
      EndOf(p) == Min({e \in CrLf(s) : p <= e} \cup {Len(s) + 1})
  IN  [p \in starts |-> SubSeq(s, p, EndOf(p) - 1)]

\* What parse_headers() goes through.  Where there are no fields the status
\* line's end is the first half of the blank line: header_end less what comes
\* after it is below zero, a huge size_t, and substr() goes on to the end of all
\* that is buffered (http_socket.cpp:249-251).
HeaderLines(buf, end) ==
  IF end > 2 THEN FieldLines(buf, end) ELSE LinesIn(Drop(buf, end))

\* What the header lines say of the body.  Chunked wins whatever the order,
\* a Content-Length is only looked at while no chunked header has come.
parse_headers(lines) ==
  LET Of(field) == {i \in DOMAIN lines : Field(lines[i]) = field}
      lengths   == {i \in Of("content-length") : \A j \in Of("chunked") : i < j}
  IN  [bad     |-> \E i \in lengths : BadLength(lines[i]),
       framing |-> IF Of("chunked") # {} THEN "chunked"
                   ELSE IF lengths # {} THEN "content-length" ELSE "none",
       length  |-> IF lengths = {} THEN 0 ELSE FieldLength(lines[Max(lengths)])]

parse_head ==
  /\ running /\ state_ = "StatusLine"
  /\ LET blanks == {i \in DOMAIN buf_ : buf_[i] = "BLANK"}
         end    == Min(blanks)
         fields == parse_headers(HeaderLines(buf_, end))
     IN  IF blanks = {}
         THEN NeedMoreBytes /\ UNCHANGED <<state_, buf_, status, content_length_>>
         ELSE IF StatusCode(buf_[1]) = 0 \/ fields.bad
                 \/ (fields.framing = "none" /\ ~allow_eof_termination_)
         THEN /\ fail /\ status' = StatusCode(buf_[1])
              /\ UNCHANGED <<buf_, content_length_>>
         ELSE /\ status' = StatusCode(buf_[1])
              /\ content_length_' = fields.length
              /\ buf_' = Drop(buf_, end)
              /\ state_' = CASE fields.framing = "content-length" -> "BodyContentLength"
                             [] fields.framing = "chunked" -> "BodyChunked"
                             [] OTHER -> "BodyEof"
              /\ running' = TRUE
  /\ UNCHANGED <<body, chunk_started_, chunk_remaining_>>

----------------------------------------------------------------------------
(* step() in the body *)

\* Mutant: the body has to come in one piece.
body_step_content_length_AtOnce ==
  /\ running /\ state_ = "BodyContentLength"
  /\ IF Len(buf_) = content_length_
     THEN state_' = "Done" /\ running' = FALSE /\ body' = buf_ /\ buf_' = <<>>
     ELSE fail /\ UNCHANGED <<body, buf_>>
  /\ UNCHANGED <<status, content_length_, chunk_started_, chunk_remaining_>>

body_step_content_length ==
  /\ running /\ state_ = "BodyContentLength"
  /\ IF Len(buf_) < content_length_
     THEN NeedMoreBytes /\ UNCHANGED <<state_, body, buf_>>
     ELSE /\ body' = SubSeq(buf_, 1, content_length_)
          /\ buf_' = Drop(buf_, content_length_)
          /\ IF buf_' = <<>> THEN state_' = "Done" /\ running' = FALSE ELSE fail
  /\ UNCHANGED <<status, content_length_, chunk_started_, chunk_remaining_>>

IsHex(c) == c \in DOMAIN HexOf
HexValue(digits) == FoldLeft(LAMBDA n, c : 16 * n + HexOf[c], 0, digits)
ASSUME HexAssumption ==
  \A n \in 1..MaxHexDigits : \A digits \in [1..n -> DOMAIN HexOf] :
    HexValue(digits) \in Nat
\* The chunk-size line without its extensions.
SizeDigits(line) ==
  LET semis == {i \in DOMAIN line : line[i] = ";"}
  IN  IF semis = {} THEN line ELSE SubSeq(line, 1, Min(semis) - 1)
GoodSize(digits) ==
  Len(digits) \in 1..MaxHexDigits /\ \A i \in DOMAIN digits : IsHex(digits[i])

\* What is left of the buffer after the last chunk's size line: trailer lines
\* up to a blank one, which is at the start or right after another line's end.
EndTrailers(rest) ==
  LET eols   == CrLf(rest)
      blanks == {i \in eols : i = 1 \/ i - 2 \in eols}
      seen   == IF blanks # {} THEN Min(blanks) + 1
                ELSE IF eols # {} THEN Max(eols) + 1 ELSE 0
  IN  IF seen > max_chunk_line_bytes THEN fail /\ buf_' = rest
      ELSE IF blanks # {}
      THEN state_' = "Done" /\ running' = FALSE /\ buf_' = Drop(rest, Min(blanks) + 1)
      ELSE IF Len(rest) > max_chunk_line_bytes THEN fail /\ buf_' = rest
      ELSE NeedMoreBytes /\ state_' = state_ /\ buf_' = rest

\* Mutant: only the sum, which wraps around, is looked at.
TooBig_Wraps(size) == (Len(body) + size) % Word > max_body_bytes

TooBig(size) ==
  size > max_body_bytes \/ (Len(body) + size) % Word > max_body_bytes

chunk_size_line ==
  /\ running /\ state_ = "BodyChunked" /\ ~chunk_started_
  /\ LET eols   == CrLf(buf_)
         digits == SizeDigits(SubSeq(buf_, 1, Min(eols) - 1))
         rest   == Drop(buf_, Min(eols) + 1)
         size   == HexValue(digits)
     IN  IF eols = {}
         THEN /\ IF Len(buf_) > max_chunk_line_bytes THEN fail
                 ELSE NeedMoreBytes /\ state_' = state_
              /\ UNCHANGED <<buf_, chunk_started_, chunk_remaining_>>
         ELSE IF ~GoodSize(digits)
         THEN fail /\ buf_' = rest /\ UNCHANGED <<chunk_started_, chunk_remaining_>>
         ELSE IF size = 0
         THEN EndTrailers(rest) /\ UNCHANGED <<chunk_started_, chunk_remaining_>>
         ELSE IF TooBig(size)
         THEN fail /\ buf_' = rest /\ UNCHANGED <<chunk_started_, chunk_remaining_>>
         ELSE /\ buf_' = rest
              /\ chunk_started_' = TRUE /\ chunk_remaining_' = size
              /\ UNCHANGED <<state_, running>>
  /\ UNCHANGED <<status, body, content_length_>>

\* Mutant: the loop goes round without new bytes.
chunk_data_Spins ==
  /\ running /\ state_ = "BodyChunked" /\ chunk_started_ /\ chunk_remaining_ > 0
  /\ LET take == IF chunk_remaining_ < Len(buf_) THEN chunk_remaining_ ELSE Len(buf_)
     IN  /\ body' = body \o SubSeq(buf_, 1, take)
         /\ buf_' = Drop(buf_, take)
         /\ chunk_remaining_' = chunk_remaining_ - take
  /\ UNCHANGED <<running, state_, status, content_length_, chunk_started_>>

chunk_data ==
  /\ running /\ state_ = "BodyChunked" /\ chunk_started_ /\ chunk_remaining_ > 0
  /\ LET take == IF chunk_remaining_ < Len(buf_) THEN chunk_remaining_ ELSE Len(buf_)
     IN  /\ body' = body \o SubSeq(buf_, 1, take)
         /\ buf_' = Drop(buf_, take)
         /\ chunk_remaining_' = chunk_remaining_ - take
  /\ running' = (chunk_remaining_' = 0)
  /\ UNCHANGED <<state_, status, content_length_, chunk_started_>>

chunk_end ==
  /\ running /\ state_ = "BodyChunked" /\ chunk_started_ /\ chunk_remaining_ = 0
  /\ IF Len(buf_) < 2 THEN NeedMoreBytes /\ UNCHANGED <<state_, buf_, chunk_started_>>
     ELSE IF 1 \notin CrLf(buf_) THEN fail /\ UNCHANGED <<buf_, chunk_started_>>
     ELSE buf_' = Drop(buf_, 2) /\ chunk_started_' = FALSE /\ UNCHANGED <<state_, running>>
  /\ UNCHANGED <<status, body, content_length_, chunk_remaining_>>

body_until_eof ==
  /\ running /\ state_ = "BodyEof"
  /\ NeedMoreBytes
  /\ UNCHANGED <<state_, buf_, status, body, content_length_, chunk_started_,
                 chunk_remaining_>>

ParserStep ==
  \/ parse_head \/ body_step_content_length
  \/ chunk_size_line \/ chunk_data \/ chunk_end \/ body_until_eof
=============================================================================
