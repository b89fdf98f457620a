------------------------- MODULE DockerClientProofs -------------------------
(* Proofs about the HTTP client and the Engine client on top of it, for    *)
(* any replies, however they are cut, and any limits.                      *)
EXTENDS DockerClient, JsonProofs, FiniteSetTheorems

----------------------------------------------------------------------------
(* Pieces of a buffer *)

Strings == Seq(STRING)

LEMMA Dropped ==
  ASSUME NEW s \in Strings, NEW n \in 0..Len(s)
  PROVE  Drop(s, n) \in Strings /\ Len(Drop(s, n)) = Len(s) - n
BY DEF Strings, Drop

LEMMA Prefix ==
  ASSUME NEW s \in Strings, NEW n \in 0..Len(s)
  PROVE  /\ SubSeq(s, 1, n) \in Strings /\ Len(SubSeq(s, 1, n)) = n
         /\ \A i \in 1..n : SubSeq(s, 1, n)[i] = s[i]
BY DEF Strings

LEMMA Piece ==
  ASSUME NEW s \in Strings, NEW m \in Nat, NEW n \in Nat, m + n <= Len(s)
  PROVE  /\ SubSeq(s, m + 1, m + n) \in Strings /\ Len(SubSeq(s, m + 1, m + n)) = n
         /\ n > 0 => SubSeq(s, m + 1, m + n)[1] = s[m + 1]
BY DEF Strings

LEMMA Joined ==
  ASSUME NEW s \in Strings, NEW t \in Strings
  PROVE  /\ s \o t \in Strings /\ Len(s \o t) = Len(s) + Len(t)
         /\ Len(s) > 0 => (s \o t)[1] = s[1]
         /\ Len(s) = 0 /\ Len(t) > 0 => (s \o t)[1] = t[1]
BY DEF Strings

LEMMA FirstLine ==
  ASSUME NEW s \in Strings, CrLf(s) # {}
  PROVE  Min(CrLf(s)) \in 1..(Len(s) - 1)
<1>1. CrLf(s) \subseteq 1..(Len(s) - 1)
  BY DEF CrLf
<1>2. CrLf(s) \subseteq Nat
  BY <1>1
<1>3. Min(CrLf(s)) \in CrLf(s)
  BY <1>2, MinExists
<1> QED
  BY <1>1, <1>3

\* The size on a chunk-size line that is good.
LEMMA SizeIsNat ==
  ASSUME NEW line \in Strings, GoodSize(SizeDigits(line))
  PROVE  HexValue(SizeDigits(line)) \in Nat
<1> DEFINE digits == SizeDigits(line)
           semis  == {i \in DOMAIN line : line[i] = ";"}
<1>1. digits \in Strings
  <2>1. CASE semis = {}
    BY <2>1 DEF SizeDigits
  <2>2. CASE semis # {}
    <3>0. DOMAIN line = 1..Len(line) /\ Len(line) \in Nat
      BY DEF Strings
    <3>1. semis \subseteq 1..Len(line) /\ Len(line) \in Nat
      <4>1. semis \subseteq DOMAIN line
        OBVIOUS
      <4> QED BY <3>0, <4>1
    <3>2. semis \subseteq Nat
      <4> HIDE DEF semis
      <4>1. 1..Len(line) \subseteq Nat
        BY <3>0
      <4> QED BY <3>1, <4>1
    <3>3. Min(semis) \in semis
      <4> HIDE DEF semis
      <4> QED BY <2>2, <3>2, MinExists
    <3>4. Min(semis) - 1 \in 0..Len(line)
      <4>1. Min(semis) \in 1..Len(line)
        BY <3>1, <3>3
      <4> HIDE DEF semis
      <4> QED BY <3>1, <4>1
    <3>5. digits = SubSeq(line, 1, Min(semis) - 1)
      BY <2>2 DEF SizeDigits
    <3> QED
      BY <3>4, <3>5, Prefix
  <2> QED
    BY <2>1, <2>2
<1>2. /\ Len(digits) \in 1..MaxHexDigits
      /\ \A i \in DOMAIN digits : digits[i] \in DOMAIN HexOf
  BY DEF GoodSize, IsHex
<1>3. digits \in [1..Len(digits) -> DOMAIN HexOf]
  <2> HIDE DEF digits
  <2>1. DOMAIN digits = 1..Len(digits) /\ digits = [i \in 1..Len(digits) |-> digits[i]]
    BY <1>1 DEF Strings
  <2> QED
    BY <2>1, <1>2
<1> HIDE DEF digits
<1>4. HexValue(digits) \in Nat
  BY <1>2, <1>3, HexAssumption
<1> QED
  BY <1>4 DEF digits

\* What a chunk adds is not too much: a sum below Word does not wrap.
LEMMA SizeFits ==
  ASSUME NEW n \in Nat, n = Len(body), n <= max_body_bytes,
         NEW size \in Nat, ~TooBig(size)
  PROVE  n + size <= max_body_bytes
<1> DEFINE w == Word
           sum == n + size
<1>1. /\ max_body_bytes \in Nat /\ 2 * max_body_bytes < w /\ w \in Nat
  BY LimitsAssumption
<1>2. ~(size > max_body_bytes) /\ ~(sum % w > max_body_bytes)
  BY DEF TooBig
<1> HIDE DEF w
<1>3. sum \in Nat /\ sum < w /\ w > 0
  BY <1>1, <1>2
<1> HIDE DEF sum
<1>4. sum % w = sum
  BY <1>1, <1>3
<1>5. sum <= max_body_bytes
  BY <1>1, <1>2, <1>3, <1>4
<1> QED
  BY <1>5 DEF sum

\* The lines of a head begin within what is buffered.
LEMMA LinesArePlaced ==
  ASSUME NEW s \in Strings, NEW end \in 1..Len(s)
  PROVE  DOMAIN HeaderLines(s, end) \subseteq 0..Len(s)
<1>1. Len(s) \in Nat /\ end \in 0..Len(s)
  BY DEF Strings
<1>2. CASE end > 2
  <2>1. DOMAIN FieldLines(s, end) = 1..(end - 2)
    BY DEF FieldLines
  <2> QED
    BY <1>1, <1>2, <2>1 DEF HeaderLines
<1>3. CASE ~(end > 2)
  <2> DEFINE rest == Drop(s, end)
  <2>1. rest \in Strings /\ Len(rest) = Len(s) - end
    BY <1>1, Dropped
  <2>2. DOMAIN rest = 1..Len(rest)
    BY <2>1 DEF Strings
  <2>3. DOMAIN LinesIn(rest) \subseteq DOMAIN rest
    <3> HIDE DEF rest
    <3> QED BY DEF LinesIn
  <2>4. HeaderLines(s, end) = LinesIn(rest)
    BY <1>3 DEF HeaderLines
  <2> HIDE DEF rest
  <2> QED
    BY <1>1, <2>1, <2>2, <2>3, <2>4
<1> QED
  BY <1>2, <1>3

LEMMA LengthIsInBounds ==
  ASSUME NEW lines, NEW n \in Nat, DOMAIN lines \subseteq 0..n, ~parse_headers(lines).bad
  PROVE  parse_headers(lines).length \in 0..max_body_bytes
<1> DEFINE Of(field) == {i \in DOMAIN lines : Field(lines[i]) = field}
           lengths   == {i \in Of("content-length") : \A j \in Of("chunked") : i < j}
           last      == Max(lengths)
<1>1. max_body_bytes \in Nat
  BY LimitsAssumption
<1>2. CASE lengths = {}
  BY <1>1, <1>2 DEF parse_headers
<1>3. CASE lengths # {}
  <2>1. lengths \subseteq 0..n
    OBVIOUS
  <2>2. last \in lengths
    <3> HIDE DEF lengths
    <3> QED BY <1>3, <2>1, MaxExists
  <2>3. ~BadLength(lines[last])
    BY <2>2 DEF parse_headers
  <2>4. parse_headers(lines).length = FieldLength(lines[last])
    BY <1>3 DEF parse_headers
  <2>5. FieldLength(lines[last]) \in Nat \cup {-1}
    BY LimitsAssumption DEF FieldLength
  <2> HIDE DEF last
  <2> QED
    BY <1>1, <2>3, <2>4, <2>5 DEF BadLength
<1> QED
  BY <1>2, <1>3

----------------------------------------------------------------------------
(* The invariant of an exchange *)

Longest == Max({max_header_bytes, max_chunk_line_bytes})
\* What can be held before the next receive.
Room == max_body_bytes + Longest
Held == Len(buf_) + Len(body)
Waiting == ~running /\ state_ \notin {"Done", "Error"}

LEMMA Limits ==
  /\ max_body_bytes \in Nat /\ max_header_bytes \in Nat
  /\ max_chunk_line_bytes \in Nat \ {0} /\ RecvSize \in Nat
  /\ Longest \in Nat /\ Room \in Nat /\ Room = max_body_bytes + Longest
  /\ max_header_bytes <= Longest /\ max_chunk_line_bytes <= Longest
<1>1. /\ max_body_bytes \in Nat /\ max_header_bytes \in Nat
      /\ max_chunk_line_bytes \in Nat \ {0} /\ RecvSize \in Nat
  BY LimitsAssumption, ClientAssumption
<1> DEFINE n == max_header_bytes + max_chunk_line_bytes
           T == {max_header_bytes, max_chunk_line_bytes}
<1>2. n \in Nat /\ T \subseteq 0..n /\ T # {}
  BY <1>1
<1>3. Max(T) \in T /\ \A y \in T : y <= Max(T)
  <2> HIDE DEF T, n
  <2> QED BY <1>2, MaxExists
<1> QED
  BY <1>1, <1>3 DEF Longest, Room

(* What step() leaves behind in each state: the status is that of the      *)
(* reply's first line, and what is held fits the limits of the state.      *)
StateInv ==
  /\ state_ = "StatusLine" =>
       /\ Len(body) = 0 /\ chunk_remaining_ = 0
       /\ Len(buf_) <= max_header_bytes /\ Len(buf_) = got
       /\ got > 0 => buf_[1] = reply.wire[1]
  /\ state_ = "BodyContentLength" => Len(body) = 0 /\ content_length_ <= max_body_bytes
  /\ state_ = "BodyChunked" => Len(body) + chunk_remaining_ <= max_body_bytes
  /\ state_ = "BodyEof" => Len(body) = 0 /\ Len(buf_) <= Room
  /\ state_ \notin {"StatusLine", "Error"} => status # 0 /\ status = StatusCode(reply.wire[1])

HeldInv ==
  /\ Held <= got /\ Held <= Room + RecvSize
  /\ Waiting => Held <= Room

ParserType ==
  /\ state_ \in {"StatusLine", "BodyContentLength", "BodyChunked", "BodyEof",
                 "Done", "Error"}
  /\ running \in BOOLEAN /\ chunk_started_ \in BOOLEAN
  /\ status \in Nat /\ content_length_ \in Nat /\ chunk_remaining_ \in Nat
  /\ buf_ \in Strings /\ body \in Strings

ReplyType ==
  reply \in Replies /\ reply.wire \in Strings /\ got \in 0..Len(reply.wire)

ParserInv == ParserType /\ ReplyType /\ StateInv /\ HeldInv

LEMMA Lengths ==
  ASSUME ParserType, ReplyType
  PROVE  /\ Len(buf_) \in Nat /\ Len(body) \in Nat /\ Held \in Nat
         /\ Held = Len(buf_) + Len(body)
         /\ got \in Nat /\ Len(reply.wire) \in Nat /\ got <= Len(reply.wire)
BY DEF ParserType, ReplyType, Strings, Held

\* A turn that holds on to no more than before keeps the bounds.
LEMMA NoMoreHeld ==
  ASSUME ParserInv, ParserType', UNCHANGED <<reply, got>>,
         Held' <= Held, Waiting' => Held' <= Room
  PROVE  ReplyType' /\ HeldInv'
<1>1. ReplyType'
  BY DEF ParserInv, ReplyType
<1>2. Held' \in Nat /\ Held \in Nat /\ got \in Nat
  BY <1>1, Lengths DEF ParserInv, ParserType, ReplyType, Strings, Held
<1> QED
  BY <1>1, <1>2, Limits DEF ParserInv, HeldInv

\* Failing keeps everything but the state.
LEMMA FailedInv ==
  ASSUME ParserInv, ParserType', UNCHANGED <<reply, got>>,
         state_' = "Error", Held' <= Held
  PROVE  ParserInv'
<1>1. ReplyType' /\ HeldInv'
  BY NoMoreHeld DEF Waiting
<1>2. StateInv'
  BY DEF StateInv
<1> QED
  BY <1>1, <1>2 DEF ParserInv

----------------------------------------------------------------------------
(* What arrives *)

LEMMA ReceiveKeeps ==
  ASSUME ParserInv, NEW n \in 1..RecvSize, Receive(n)
  PROVE  ParserInv'
<1> DEFINE piece == SubSeq(reply.wire, got + 1, got + n)
<1>0. /\ ParserType /\ ReplyType /\ StateInv /\ HeldInv
      /\ Len(buf_) \in Nat /\ Len(body) \in Nat /\ got \in Nat /\ n \in Nat
      /\ n <= RecvSize /\ RecvSize \in Nat /\ Len(reply.wire) \in Nat
  BY Lengths, Limits DEF ParserInv
<1>1. got + n <= Len(reply.wire) /\ got' = got + n /\ UNCHANGED reply /\ feed(piece)
  BY DEF Receive
<1>2. piece \in Strings /\ Len(piece) = n /\ piece[1] = reply.wire[got + 1]
  <2>1. reply.wire \in Strings
    BY <1>0 DEF ReplyType
  <2>2. got \in Nat /\ n \in Nat /\ n > 0 /\ got + n <= Len(reply.wire)
    BY <1>0, <1>1
  <2> QED
    BY <2>1, <2>2, Piece
<1> HIDE DEF piece
<1>3. /\ ~running /\ state_ \notin {"Done", "Error"}
      /\ buf_' = buf_ \o piece
      /\ UNCHANGED <<status, body, content_length_, chunk_started_, chunk_remaining_>>
      /\ \/ TooLong(buf_') /\ state_' = "Error" /\ running' = FALSE
         \/ ~TooLong(buf_') /\ state_' = state_ /\ running' = TRUE
  BY <1>1 DEF feed, fail
<1>4. /\ buf_' \in Strings /\ Len(buf_') = Len(buf_) + n
      /\ Len(buf_) > 0 => buf_'[1] = buf_[1]
      /\ Len(buf_) = 0 => buf_'[1] = piece[1]
  <2>1. buf_ \in Strings
    BY <1>0 DEF ParserType
  <2>2. /\ buf_ \o piece \in Strings /\ Len(buf_ \o piece) = Len(buf_) + n
        /\ Len(buf_) > 0 => (buf_ \o piece)[1] = buf_[1]
        /\ Len(buf_) = 0 => (buf_ \o piece)[1] = piece[1]
    <3>1. piece \in Strings /\ Len(piece) = n /\ n > 0
      BY <1>2
    <3> QED
      BY <2>1, <3>1, Joined
  <2> QED
    BY <1>3, <2>2
<1>5. ParserType'
  BY <1>0, <1>3, <1>4 DEF ParserType
<1>6. ReplyType'
  BY <1>0, <1>1 DEF ReplyType
<1>7. HeldInv'
  <2>1. Held <= got /\ Held <= Room
    BY <1>0, <1>3 DEF HeldInv, Waiting
  <2>2. Held' = Held + n /\ Held \in Nat
    BY <1>0, <1>3, <1>4 DEF Held
  <2>3. ~Waiting'
    BY <1>3 DEF Waiting
  <2> QED
    BY <1>0, <1>1, <2>1, <2>2, <2>3, Limits DEF HeldInv
<1>8. StateInv'
  <2>1. CASE state_' = "Error"
    BY <2>1 DEF StateInv
  <2>2. CASE ~TooLong(buf_') /\ state_' = state_
    <3>1. state_ = "StatusLine" =>
            /\ Len(body') = 0 /\ chunk_remaining_' = 0
            /\ Len(buf_') <= max_header_bytes /\ Len(buf_') = got'
            /\ buf_'[1] = reply.wire[1]
      <4> SUFFICES ASSUME state_ = "StatusLine"
                   PROVE  /\ Len(body') = 0 /\ chunk_remaining_' = 0
                          /\ Len(buf_') <= max_header_bytes /\ Len(buf_') = got'
                          /\ buf_'[1] = reply.wire[1]
        OBVIOUS
      <4>1. /\ Len(body) = 0 /\ chunk_remaining_ = 0 /\ Len(buf_) = got
            /\ got > 0 => buf_[1] = reply.wire[1]
        BY <1>0 DEF StateInv
      <4>2. Len(buf_') <= max_header_bytes
        BY <2>2, <1>0, <1>4, Limits DEF TooLong
      <4> QED
        BY <4>1, <4>2, <1>0, <1>1, <1>2, <1>3, <1>4
    <3>2. state_ = "BodyEof" => Len(body') = 0 /\ Len(buf_') <= Room
      BY <2>2, <1>0, <1>3, <1>4, Limits DEF TooLong, StateInv
    <3> QED
      BY <2>2, <3>1, <3>2, <1>0, <1>1, <1>3 DEF StateInv
  <2> QED
    BY <2>1, <2>2, <1>3
<1> QED
  BY <1>5, <1>6, <1>7, <1>8 DEF ParserInv

LEMMA ReceiveEofKeeps ==
  ASSUME ParserInv, ReceiveEof
  PROVE  ParserInv'
<1>0. /\ ParserType /\ ReplyType /\ StateInv /\ HeldInv
      /\ Len(buf_) \in Nat /\ Len(body) \in Nat
  BY Lengths DEF ParserInv
<1>1. feed_eof /\ UNCHANGED <<reply, got>>
  BY DEF ReceiveEof
<1>2. CASE state_' = "Done"
  <2>1. /\ state_ = "BodyEof" /\ body' = buf_ /\ buf_' = <<>>
        /\ UNCHANGED <<status, content_length_, chunk_started_, chunk_remaining_, running>>
    BY <1>1, <1>2 DEF feed_eof
  <2>2. ParserType'
    BY <1>0, <1>2, <2>1 DEF ParserType, Strings
  <2>3. Held' <= Held
    <3>1. Len(buf_') = 0
      BY <2>1
    <3> QED
      BY <1>0, <2>1, <3>1 DEF Held
  <2>4. StateInv'
    BY <1>0, <1>1, <1>2, <2>1 DEF StateInv
  <2> QED
    BY <1>1, <1>2, <2>2, <2>3, <2>4, NoMoreHeld DEF ParserInv, Waiting
<1>3. CASE state_' # "Done"
  <2>1. /\ state_' = "Error"
        /\ UNCHANGED <<buf_, body, status, content_length_, chunk_started_,
                       chunk_remaining_, running>>
    BY <1>1, <1>3 DEF feed_eof
  <2>2. ParserType' /\ Held' = Held /\ Held \in Nat
    BY <1>0, <2>1 DEF ParserType, Held
  <2> QED
    BY <1>1, <2>1, <2>2, FailedInv
<1> QED
  BY <1>2, <1>3

----------------------------------------------------------------------------
(* The turns of step() *)

LEMMA HeadKeeps ==
  ASSUME ParserInv, parse_head, UNCHANGED clientVars
  PROVE  ParserInv'
<1> DEFINE blanks == {i \in DOMAIN buf_ : buf_[i] = "BLANK"}
           end    == Min(blanks)
           lines  == HeaderLines(buf_, end)
           fields == parse_headers(lines)
<1>0. /\ ParserType /\ ReplyType /\ StateInv /\ HeldInv
      /\ Len(buf_) \in Nat /\ Len(body) \in Nat
      /\ Held = Len(buf_) + Len(body)
      /\ UNCHANGED <<reply, got, body, chunk_started_, chunk_remaining_>>
  BY Lengths DEF ParserInv, parse_head, clientVars
<1>1. state_ = "StatusLine" /\ running
  BY DEF parse_head
<1>2. CASE blanks = {}
  <2>1. UNCHANGED <<state_, buf_, status, content_length_>> /\ running' = FALSE
    BY <1>2 DEF parse_head, NeedMoreBytes
  <2>2. ParserType' /\ StateInv'
    BY <1>0, <2>1 DEF ParserType, StateInv
  <2>3. Held' = Held /\ Held <= Room
    BY <1>0, <1>1, <2>1, Limits DEF Held, StateInv
  <2> QED
    BY <1>0, <2>2, <2>3, NoMoreHeld DEF ParserInv
<1>3. CASE blanks # {}
  <2>1. end \in 1..Len(buf_)
    <3>1. blanks \subseteq 1..Len(buf_) /\ blanks \subseteq Nat
      BY <1>0 DEF ParserType, Strings
    <3>2. end \in blanks
      <4> HIDE DEF blanks
      <4> QED BY <1>3, <3>1, MinExists
    <3> QED
      BY <3>1, <3>2
  <2>2. StatusCode(buf_[1]) \in Nat /\ buf_[1] = reply.wire[1]
    <3>1. StatusCode(buf_[1]) \in Nat
      BY LimitsAssumption DEF StatusCode
    <3>2. Len(buf_) > 0 /\ Len(buf_) = got
      BY <1>0, <1>1, <2>1 DEF StateInv
    <3> QED
      BY <3>1, <3>2, <1>0, <1>1 DEF StateInv
  <2>3. CASE state_' = "Error"
    <3>1. status' = StatusCode(buf_[1]) /\ UNCHANGED <<buf_, content_length_>> /\ running' = FALSE
      BY <1>3, <2>3 DEF parse_head, fail
    <3>2. ParserType' /\ Held' = Held
      BY <1>0, <2>2, <2>3, <3>1 DEF ParserType, Held
    <3> QED
      BY <1>0, <2>3, <3>2, FailedInv
  <2>4. CASE state_' # "Error"
    <3>1. /\ ~fields.bad /\ StatusCode(buf_[1]) # 0
          /\ status' = StatusCode(buf_[1])
          /\ content_length_' = fields.length
          /\ buf_' = Drop(buf_, end)
          /\ state_' \in {"BodyContentLength", "BodyChunked", "BodyEof"}
          /\ running' = TRUE
      BY <1>3, <2>4 DEF parse_head, fail
    <3>2. DOMAIN lines \subseteq 0..Len(buf_)
      <4>1. buf_ \in Strings
        BY <1>0 DEF ParserType
      <4> HIDE DEF end
      <4> QED BY <2>1, <4>1, LinesArePlaced
    <3>3. fields.length \in 0..max_body_bytes
      <4> HIDE DEF lines
      <4> QED BY <1>0, <3>1, <3>2, LengthIsInBounds
    <3>4. buf_' \in Strings /\ Len(buf_') = Len(buf_) - end
      <4>1. buf_' = Drop(buf_, end) /\ buf_ \in Strings /\ end \in 0..Len(buf_)
        BY <1>0, <2>1, <3>1 DEF ParserType
      <4> HIDE DEF end
      <4> QED BY <4>1, Dropped
    <3> HIDE DEF end, fields
    <3>5. content_length_' \in Nat /\ content_length_' <= max_body_bytes
      BY <3>1, <3>3, Limits
    <3>6. ParserType'
      BY <1>0, <2>2, <3>1, <3>4, <3>5 DEF ParserType
    <3>7. Len(buf_') <= Len(buf_) /\ Held' <= Held
      BY <1>0, <2>1, <3>4 DEF Held
    <3>8. StateInv'
      <4>1. Len(body) = 0 /\ chunk_remaining_ = 0 /\ Len(buf_) <= max_header_bytes
        BY <1>0, <1>1 DEF StateInv
      <4>2. Len(buf_') <= Room /\ Len(body') + chunk_remaining_' <= max_body_bytes
        BY <4>1, <1>0, <3>4, <3>6, <3>7, Limits DEF ParserType, Strings
      <4>3. state_' \notin {"StatusLine", "Error"}
        BY <3>1
      <4> QED
        BY <1>0, <4>1, <4>2, <4>3, <2>2, <3>1, <3>5 DEF StateInv
    <3> QED
      BY <1>0, <3>1, <3>6, <3>7, <3>8, NoMoreHeld DEF ParserInv, Waiting
  <2> QED
    BY <2>3, <2>4
<1> QED
  BY <1>2, <1>3

LEMMA LengthBodyKeeps ==
  ASSUME ParserInv, body_step_content_length, UNCHANGED clientVars
  PROVE  ParserInv'
<1>0. /\ ParserType /\ ReplyType /\ StateInv /\ HeldInv
      /\ Len(buf_) \in Nat /\ Len(body) \in Nat /\ content_length_ \in Nat
      /\ Held = Len(buf_) + Len(body)
      /\ buf_ \in Strings
      /\ UNCHANGED <<reply, got, status, content_length_, chunk_started_, chunk_remaining_>>
  BY Lengths DEF ParserInv, ParserType, body_step_content_length, clientVars
<1>1. /\ state_ = "BodyContentLength"
      /\ Len(body) = 0 /\ content_length_ <= max_body_bytes
  BY <1>0 DEF body_step_content_length, StateInv
<1>2. CASE Len(buf_) < content_length_
  <2>1. UNCHANGED <<state_, body, buf_>> /\ running' = FALSE
    BY <1>2 DEF body_step_content_length, NeedMoreBytes
  <2>2. ParserType' /\ StateInv'
    BY <1>0, <2>1 DEF ParserType, StateInv
  <2>3. Held' = Held /\ Held <= Room
    BY <1>0, <1>1, <1>2, <2>1, Limits DEF Held
  <2> QED
    BY <1>0, <2>2, <2>3, NoMoreHeld DEF ParserInv
<1>3. CASE ~(Len(buf_) < content_length_)
  <2>1. /\ body' = SubSeq(buf_, 1, content_length_)
        /\ buf_' = Drop(buf_, content_length_)
        /\ state_' \in {"Done", "Error"} /\ running' = FALSE
    BY <1>3 DEF body_step_content_length, fail
  <2>2. content_length_ \in 0..Len(buf_)
    BY <1>0, <1>3
  <2>3. /\ body' \in Strings /\ Len(body') = content_length_
        /\ buf_' \in Strings /\ Len(buf_') = Len(buf_) - content_length_
    BY <1>0, <2>1, <2>2, Dropped, Prefix
  <2>4. ParserType'
    BY <1>0, <2>1, <2>3 DEF ParserType
  <2>5. Held' <= Held
    BY <1>0, <1>1, <2>3 DEF Held
  <2>6. StateInv'
    BY <1>0, <1>1, <2>1 DEF StateInv
  <2> QED
    BY <1>0, <2>1, <2>4, <2>5, <2>6, NoMoreHeld DEF ParserInv, Waiting
<1> QED
  BY <1>2, <1>3

\* A turn of body_step_chunked() that is no failure: it stays in the state or
\* ends in Done, and what it leaves waiting fits.
LEMMA ChunkTurn ==
  ASSUME ParserInv, ParserType', state_ = "BodyChunked",
         UNCHANGED <<reply, got, status>>,
         Held' <= Held, Len(body') + chunk_remaining_' <= max_body_bytes,
         state_' \in {"BodyChunked", "Done"},
         Waiting' => Len(buf_') <= max_chunk_line_bytes
  PROVE  ParserInv'
<1>0. ParserType /\ ReplyType /\ StateInv /\ HeldInv
  BY DEF ParserInv
<1>1. /\ Len(buf_') \in Nat /\ Len(body') \in Nat /\ chunk_remaining_' \in Nat
      /\ Held' = Len(buf_') + Len(body')
  BY DEF ParserType, Strings, Held
<1>2. Waiting' => Held' <= Room
  BY <1>1, Limits
<1>3. StateInv'
  BY <1>0 DEF StateInv
<1> QED
  BY <1>2, <1>3, NoMoreHeld DEF ParserInv

LEMMA TrailersKeep ==
  ASSUME ParserInv, state_ = "BodyChunked", NEW rest \in Strings,
         Len(rest) <= Len(buf_), EndTrailers(rest),
         UNCHANGED <<reply, got, status, body, content_length_, chunk_started_,
                     chunk_remaining_>>
  PROVE  ParserInv'
<1> DEFINE eols   == CrLf(rest)
           blanks == {i \in eols : i = 1 \/ i - 2 \in eols}
<1>0. /\ ParserType /\ StateInv
      /\ Len(rest) \in Nat /\ Len(buf_) \in Nat /\ Len(body) \in Nat
      /\ Len(body) + chunk_remaining_ <= max_body_bytes
  BY Lengths DEF ParserInv, StateInv, Strings
<1>1. blanks # {} => Min(blanks) + 1 \in 0..Len(rest)
  <2>1. blanks \subseteq 1..(Len(rest) - 1)
    BY DEF CrLf
  <2> HIDE DEF blanks
  <2>2. blanks \subseteq Nat
    BY <1>0, <2>1
  <2>3. blanks # {} => Min(blanks) \in 1..(Len(rest) - 1)
    BY <2>1, <2>2, MinExists
  <2> QED
    BY <1>0, <2>3
<1>2. CASE state_' = "Error"
  <2>1. buf_' = rest /\ running' = FALSE
    BY <1>2 DEF EndTrailers, fail
  <2>2. ParserType'
    BY <1>0, <1>2, <2>1 DEF ParserType
  <2>3. Held' <= Held
    BY <1>0, <2>1 DEF Held
  <2> QED
    BY <1>2, <2>2, <2>3, FailedInv
<1>3. CASE state_' # "Error"
  <2>1. CASE blanks # {}
    <3>1. buf_' = Drop(rest, Min(blanks) + 1) /\ state_' = "Done" /\ running' = FALSE
      BY <1>3, <2>1 DEF EndTrailers, fail
    <3>2. buf_' \in Strings /\ Len(buf_') = Len(rest) - (Min(blanks) + 1)
      <4> HIDE DEF blanks
      <4> QED BY <1>1, <2>1, <3>1, Dropped
    <3> HIDE DEF blanks
    <3>3. Len(buf_') <= Len(buf_)
      BY <1>0, <1>1, <2>1, <3>2
    <3>4. ParserType'
      BY <1>0, <3>1, <3>2 DEF ParserType
    <3>5. Held' <= Held
      <4>1. Len(buf_') \in Nat
        BY <3>4 DEF ParserType, Strings
      <4> QED
        BY <1>0, <3>3, <4>1 DEF Held
    <3> QED
      BY <1>0, <3>1, <3>4, <3>5, ChunkTurn DEF Waiting
  <2>2. CASE blanks = {}
    <3>1. /\ buf_' = rest /\ state_' = state_ /\ running' = FALSE
          /\ ~(Len(rest) > max_chunk_line_bytes)
      BY <1>3, <2>2 DEF EndTrailers, fail, NeedMoreBytes
    <3>2. ParserType'
      BY <1>0, <3>1 DEF ParserType
    <3>3. Len(buf_') <= max_chunk_line_bytes
      BY <1>0, <3>1, Limits
    <3>4. Held' <= Held
      BY <1>0, <3>1 DEF Held
    <3> QED
      BY <1>0, <3>1, <3>2, <3>3, <3>4, ChunkTurn
  <2> QED
    BY <2>1, <2>2
<1> QED
  BY <1>2, <1>3

LEMMA SizeLineKeeps ==
  ASSUME ParserInv, chunk_size_line, UNCHANGED clientVars
  PROVE  ParserInv'
<1> DEFINE eols == CrLf(buf_)
           line == SubSeq(buf_, 1, Min(eols) - 1)
           size == HexValue(SizeDigits(line))
           rest == Drop(buf_, Min(eols) + 1)
<1>0. /\ ParserType /\ StateInv /\ buf_ \in Strings
      /\ Len(buf_) \in Nat /\ Len(body) \in Nat /\ chunk_remaining_ \in Nat
      /\ UNCHANGED <<reply, got, status, body, content_length_>>
  BY Lengths DEF ParserInv, ParserType, chunk_size_line, clientVars
<1>1. state_ = "BodyChunked" /\ running
      /\ Len(body) + chunk_remaining_ <= max_body_bytes
  BY <1>0 DEF chunk_size_line, StateInv
<1>2. CASE eols = {}
  <2>1. /\ UNCHANGED <<buf_, chunk_started_, chunk_remaining_>> /\ running' = FALSE
        /\ \/ state_' = "Error"
           \/ state_' = state_ /\ ~(Len(buf_) > max_chunk_line_bytes)
    BY <1>2 DEF chunk_size_line, fail, NeedMoreBytes
  <2>2. ParserType'
    BY <1>0, <1>1, <2>1 DEF ParserType
  <2>3. Held' = Held /\ Held \in Nat
    BY <1>0, <2>1 DEF Held
  <2>4. CASE state_' = "Error"
    BY <1>0, <2>2, <2>3, <2>4, FailedInv
  <2>5. CASE state_' = state_ /\ ~(Len(buf_) > max_chunk_line_bytes)
    <3>1. Len(buf_') <= max_chunk_line_bytes /\ Len(body') + chunk_remaining_' <= max_body_bytes
      BY <1>0, <1>1, <2>1, <2>5, Limits
    <3> QED
      BY <1>0, <1>1, <2>2, <2>3, <2>5, <3>1, ChunkTurn
  <2> QED
    BY <2>1, <2>4, <2>5
<1>3. CASE eols # {}
  <2>1. Min(eols) \in 1..(Len(buf_) - 1)
    BY <1>0, <1>3, FirstLine
  <2>2. line \in Strings /\ rest \in Strings /\ Len(rest) <= Len(buf_)
    <3>1. Min(eols) - 1 \in 0..Len(buf_) /\ Min(eols) + 1 \in 0..Len(buf_)
      BY <1>0, <2>1
    <3> HIDE DEF eols
    <3>2. line \in Strings
      BY <1>0, <3>1, Prefix
    <3>3. rest \in Strings /\ Len(rest) = Len(buf_) - (Min(eols) + 1)
      BY <1>0, <3>1, Dropped
    <3> QED
      BY <1>0, <3>1, <3>2, <3>3
  <2>3. CASE ~GoodSize(SizeDigits(line)) \/ (size # 0 /\ TooBig(size))
    <3>1. /\ state_' = "Error" /\ running' = FALSE /\ buf_' = rest
          /\ UNCHANGED <<chunk_started_, chunk_remaining_>>
      BY <1>3, <2>3 DEF chunk_size_line, fail
    <3> HIDE DEF rest
    <3>2. ParserType'
      BY <1>0, <2>2, <3>1 DEF ParserType
    <3>3. Held' <= Held
      <4>1. Len(buf_') \in Nat
        BY <3>2 DEF ParserType, Strings
      <4> QED
        BY <1>0, <2>2, <3>1, <4>1 DEF Held
    <3> QED
      BY <1>0, <3>1, <3>2, <3>3, FailedInv
  <2>4. CASE GoodSize(SizeDigits(line)) /\ size = 0
    <3>1. EndTrailers(rest) /\ UNCHANGED <<chunk_started_, chunk_remaining_>>
      BY <1>3, <2>4 DEF chunk_size_line
    <3> HIDE DEF rest
    <3> QED
      BY <1>0, <1>1, <2>2, <3>1, TrailersKeep
  <2>5. CASE GoodSize(SizeDigits(line)) /\ size # 0 /\ ~TooBig(size)
    <3>1. /\ buf_' = rest /\ chunk_started_' = TRUE /\ chunk_remaining_' = size
          /\ UNCHANGED <<state_, running>>
      BY <1>3, <2>5 DEF chunk_size_line
    <3>2. size \in Nat
      <4> HIDE DEF line
      <4> QED BY <2>2, <2>5, SizeIsNat
    <3> HIDE DEF size, rest
    <3>3. Len(body) <= max_body_bytes
      BY <1>0, <1>1, Limits
    <3>4. Len(body) + size <= max_body_bytes
      BY <1>0, <2>5, <3>2, <3>3, SizeFits
    <3>5. ParserType'
      BY <1>0, <2>2, <3>1, <3>2 DEF ParserType
    <3>6. Held' <= Held
      <4>1. Len(buf_') \in Nat
        BY <3>5 DEF ParserType, Strings
      <4> QED
        BY <1>0, <2>2, <3>1, <4>1 DEF Held
    <3>7. Len(body') + chunk_remaining_' <= max_body_bytes
      BY <1>0, <3>1, <3>4
    <3>8. ~Waiting'
      BY <1>1, <3>1 DEF Waiting
    <3> QED
      BY <1>0, <1>1, <3>1, <3>5, <3>6, <3>7, <3>8, ChunkTurn
  <2> QED
    BY <2>3, <2>4, <2>5
<1> QED
  BY <1>2, <1>3

LEMMA DataKeeps ==
  ASSUME ParserInv, chunk_data, UNCHANGED clientVars
  PROVE  ParserInv'
<1> DEFINE take == IF chunk_remaining_ < Len(buf_) THEN chunk_remaining_ ELSE Len(buf_)
<1>0. /\ ParserType /\ StateInv /\ buf_ \in Strings /\ body \in Strings
      /\ Len(buf_) \in Nat /\ Len(body) \in Nat /\ chunk_remaining_ \in Nat
      /\ UNCHANGED <<reply, got, state_, status, content_length_, chunk_started_>>
  BY Lengths DEF ParserInv, ParserType, chunk_data, clientVars
<1>1. state_ = "BodyChunked" /\ Len(body) + chunk_remaining_ <= max_body_bytes
  BY <1>0 DEF chunk_data, StateInv
<1>2. take \in 0..Len(buf_) /\ take <= chunk_remaining_
  BY <1>0
<1>3. /\ body' = body \o SubSeq(buf_, 1, take)
      /\ buf_' = Drop(buf_, take)
      /\ chunk_remaining_' = chunk_remaining_ - take
      /\ running' = (chunk_remaining_' = 0)
  BY DEF chunk_data
<1>4. take = Len(buf_) \/ take = chunk_remaining_
  OBVIOUS
<1> HIDE DEF take
<1>5. /\ buf_' \in Strings /\ Len(buf_') = Len(buf_) - take
      /\ SubSeq(buf_, 1, take) \in Strings /\ Len(SubSeq(buf_, 1, take)) = take
  BY <1>0, <1>2, <1>3, Dropped, Prefix
<1>6. body' \in Strings /\ Len(body') = Len(body) + take
  BY <1>0, <1>3, <1>5, Joined
<1>7. chunk_remaining_' \in Nat
  BY <1>0, <1>2, <1>3
<1>8. ParserType'
  BY <1>0, <1>3, <1>5, <1>6, <1>7 DEF ParserType
<1>9. Held' = Held /\ Held \in Nat
  BY <1>0, <1>2, <1>5, <1>6 DEF Held
<1>10. Len(body') + chunk_remaining_' <= max_body_bytes
  BY <1>0, <1>1, <1>2, <1>3, <1>6
<1>11. Waiting' => Len(buf_') <= max_chunk_line_bytes
  <2> SUFFICES ASSUME Waiting' PROVE Len(buf_') = 0
    BY Limits
  <2>1. chunk_remaining_' # 0
    BY <1>3 DEF Waiting
  <2> QED
    BY <2>1, <1>0, <1>3, <1>4, <1>5
<1> QED
  BY <1>0, <1>1, <1>8, <1>9, <1>10, <1>11, ChunkTurn

LEMMA EndKeeps ==
  ASSUME ParserInv, chunk_end, UNCHANGED clientVars
  PROVE  ParserInv'
<1>0. /\ ParserType /\ StateInv /\ buf_ \in Strings
      /\ Len(buf_) \in Nat /\ Len(body) \in Nat
      /\ UNCHANGED <<reply, got, status, body, content_length_, chunk_remaining_>>
  BY Lengths DEF ParserInv, ParserType, chunk_end, clientVars
<1>1. /\ state_ = "BodyChunked" /\ running
      /\ Len(body) + chunk_remaining_ <= max_body_bytes
  BY <1>0 DEF chunk_end, StateInv
<1>2. CASE Len(buf_) < 2
  <2>1. UNCHANGED <<state_, buf_, chunk_started_>> /\ running' = FALSE
    BY <1>2 DEF chunk_end, NeedMoreBytes
  <2>2. ParserType'
    BY <1>0, <2>1 DEF ParserType
  <2>3. Held' <= Held /\ Len(buf_') <= max_chunk_line_bytes
    BY <1>0, <1>2, <2>1, Limits DEF Held
  <2> QED
    BY <1>0, <1>1, <2>1, <2>2, <2>3, ChunkTurn
<1>3. CASE ~(Len(buf_) < 2) /\ 1 \notin CrLf(buf_)
  <2>1. state_' = "Error" /\ running' = FALSE /\ UNCHANGED <<buf_, chunk_started_>>
    BY <1>3 DEF chunk_end, fail
  <2>2. ParserType'
    BY <1>0, <2>1 DEF ParserType
  <2>3. Held' <= Held
    BY <1>0, <2>1 DEF Held
  <2> QED
    BY <1>0, <2>1, <2>2, <2>3, FailedInv
<1>4. CASE ~(Len(buf_) < 2) /\ 1 \in CrLf(buf_)
  <2>1. buf_' = Drop(buf_, 2) /\ chunk_started_' = FALSE /\ UNCHANGED <<state_, running>>
    BY <1>4 DEF chunk_end
  <2>2. buf_' \in Strings /\ Len(buf_') = Len(buf_) - 2
    BY <1>0, <1>4, <2>1, Dropped
  <2>3. ParserType'
    BY <1>0, <2>1, <2>2 DEF ParserType
  <2>4. Held' <= Held
    BY <1>0, <1>4, <2>2 DEF Held
  <2>5. ~Waiting'
    BY <1>1, <2>1 DEF Waiting
  <2> QED
    BY <1>0, <1>1, <2>1, <2>3, <2>4, <2>5, ChunkTurn
<1> QED
  BY <1>2, <1>3, <1>4

LEMMA EofBodyKeeps ==
  ASSUME ParserInv, body_until_eof, UNCHANGED clientVars
  PROVE  ParserInv'
<1>0. /\ ParserType /\ StateInv
      /\ Len(buf_) \in Nat /\ Len(body) \in Nat /\ state_ = "BodyEof"
      /\ running' = FALSE
      /\ UNCHANGED <<reply, got, state_, buf_, status, body, content_length_,
                     chunk_started_, chunk_remaining_>>
  BY Lengths DEF ParserInv, body_until_eof, NeedMoreBytes, clientVars
<1>1. ParserType'
  BY <1>0 DEF ParserType
<1>2. StateInv'
  BY <1>0 DEF StateInv
<1>3. Held' = Held /\ Held \in Nat
  BY <1>0 DEF Held
<1>4. Held <= Room
  BY <1>0, Limits DEF StateInv, Held
<1> QED
  BY <1>0, <1>1, <1>2, <1>3, <1>4, NoMoreHeld DEF ParserInv

----------------------------------------------------------------------------
(* request() as a whole *)

ClientInv ==
  /\ eof \in BOOLEAN
  /\ \/ fd_ = TRUE /\ stage \in {"send", "read"}
     \/ fd_ = FALSE /\ stage \in {"connect", "ok", "err"}
  /\ stage = "ok" => state_ = "Done"

HttpInv == ParserInv /\ ClientInv

LEMMA HttpInvInit == HttpInit => HttpInv
<1> SUFFICES ASSUME HttpInit PROVE HttpInv
  OBVIOUS
<1>1. /\ state_ = "StatusLine" /\ buf_ = <<>> /\ body = <<>> /\ status = 0
      /\ content_length_ = 0 /\ chunk_started_ = FALSE /\ chunk_remaining_ = 0
      /\ running = FALSE /\ reply \in Replies /\ got = 0 /\ eof = FALSE
      /\ fd_ = FALSE /\ stage = "connect"
  BY DEF HttpInit, ParserInit
<1>2. reply.wire \in Strings /\ Len(reply.wire) \in Nat
  BY <1>1, ClientAssumption DEF Strings
<1>3. ReplyType
  BY <1>1, <1>2 DEF ReplyType
<1>4. <<>> \in Strings /\ Len(<<>>) = 0
  BY DEF Strings
<1>5. ParserType
  BY <1>1, <1>4 DEF ParserType
<1>6. StateInv /\ HeldInv
  BY <1>1, <1>4, Limits DEF StateInv, HeldInv, Held
<1> QED
  BY <1>1, <1>3, <1>5, <1>6 DEF HttpInv, ParserInv, ClientInv

LEMMA ParserStepKeeps ==
  ASSUME HttpInv, ParserStep, UNCHANGED clientVars
  PROVE  HttpInv'
<1>1. ParserInv'
  <2>1. ParserInv
    BY DEF HttpInv
  <2> QED
    BY <2>1, HeadKeeps, LengthBodyKeeps, SizeLineKeeps, DataKeeps, EndKeeps,
       EofBodyKeeps DEF ParserStep
<1>2. state_ # "Done"
  BY DEF ParserStep, parse_head, body_step_content_length, chunk_size_line,
         chunk_data, chunk_end, body_until_eof
<1>3. ClientInv'
  BY <1>2 DEF HttpInv, ClientInv, clientVars
<1> QED
  BY <1>1, <1>3 DEF HttpInv

\* A step of request() that leaves the parser alone.
LEMMA ParserUntouched ==
  ASSUME ParserInv, UNCHANGED <<parserVars, reply, got>>
  PROVE  ParserInv'
BY DEF ParserInv, parserVars, ParserType, ReplyType, StateInv, HeldInv, Held, Waiting

LEMMA HttpStepKeeps ==
  ASSUME HttpInv, HttpStep
  PROVE  HttpInv' /\ UNCHANGED reply
<1>0. ParserInv /\ ClientInv
  BY DEF HttpInv
<1>1. CASE Connect \/ send_all \/ ReceiveFails \/ Malformed \/ Finish
  <2>1. UNCHANGED <<parserVars, reply, got>>
    BY <1>1 DEF Connect, send_all, ReceiveFails, Malformed, Finish
  <2>2. ParserInv'
    BY <1>0, <2>1, ParserUntouched
  <2>3. UNCHANGED <<state_, eof>>
    BY <1>1 DEF Connect, send_all, ReceiveFails, Malformed, Finish, parserVars
  <2>4. /\ \/ fd_' = TRUE /\ stage' \in {"send", "read"}
           \/ fd_' = FALSE /\ stage' \in {"connect", "ok", "err"}
        /\ stage' = "ok" => state_ = "Done"
    <3>1. CASE Connect
      BY <3>1 DEF Connect
    <3>2. CASE send_all
      BY <3>2, <1>0 DEF send_all, ClientInv
    <3>3. CASE ReceiveFails \/ Malformed \/ Finish
      BY <3>3 DEF ReceiveFails, Malformed, Finish
    <3> QED
      BY <1>1, <3>1, <3>2, <3>3
  <2>5. ClientInv'
    BY <1>0, <2>3, <2>4 DEF ClientInv
  <2> QED
    BY <2>1, <2>2, <2>5 DEF HttpInv
<1>2. ASSUME NEW n \in 1..RecvSize, Receive(n) PROVE HttpInv' /\ UNCHANGED reply
  <2>1. ParserInv'
    BY <1>0, <1>2, ReceiveKeeps
  <2>2. stage = "read" /\ UNCHANGED <<reply, eof, fd_, stage>>
    BY <1>2 DEF Receive, Reading
  <2>3. ClientInv'
    BY <1>0, <2>2 DEF ClientInv
  <2> QED
    BY <2>1, <2>2, <2>3 DEF HttpInv
<1>3. CASE ReceiveEof
  <2>1. ParserInv'
    BY <1>0, <1>3, ReceiveEofKeeps
  <2>2. stage = "read" /\ eof' = TRUE /\ UNCHANGED <<reply, fd_, stage>>
    BY <1>3 DEF ReceiveEof, Reading
  <2>3. ClientInv'
    BY <1>0, <2>2 DEF ClientInv
  <2> QED
    BY <2>1, <2>2, <2>3 DEF HttpInv
<1>4. CASE ParserStep /\ UNCHANGED clientVars
  BY <1>4, ParserStepKeeps DEF clientVars
<1> QED
  BY <1>1, <1>2, <1>3, <1>4 DEF HttpStep

LEMMA HttpStutters ==
  ASSUME HttpInv, UNCHANGED httpVars
  PROVE  HttpInv' /\ UNCHANGED reply
<1>1. UNCHANGED <<parserVars, reply, got>> /\ UNCHANGED <<eof, fd_, stage, state_>>
  BY DEF httpVars, clientVars, parserVars
<1>2. ParserInv'
  BY <1>1, ParserUntouched DEF HttpInv
<1> QED
  BY <1>1, <1>2 DEF HttpInv, ClientInv

----------------------------------------------------------------------------
(* Where the parser stands in the reply *)

(* The place in the wire of the first byte the parser has not consumed,    *)
(* and what it buffers from there on.                                      *)
Place == got - Len(buf_) + 1
Unread ==
  Len(buf_) <= got /\ \A i \in 1..Len(buf_) : buf_[i] = reply.wire[Place + i - 1]

\* The body begins like the content.
Spelled ==
  Len(body) <= Len(reply.content) /\ \A i \in 1..Len(body) : body[i] = reply.content[i]

InHead ==
  Place = 1 /\ Len(body) = 0 /\ ~chunk_started_ /\ (~running => got < reply.head)
InLength ==
  /\ reply.framing = "length" /\ Place = reply.head + 1
  /\ content_length_ = Len(reply.content)
  /\ ~running => Len(buf_) < content_length_
InEof == reply.framing = "eof" /\ Place = reply.head + 1

\* What is left of a chunk's data is ahead, and then its end and the next
\* chunk.
InData ==
  LET end == Place + chunk_remaining_
  IN  /\ chunk_started_
      /\ Carries(reply, Place, Len(body), chunk_remaining_)
      /\ end \in CrLf(reply.wire) =>
           /\ end + 2 \in DOMAIN reply.chunks
           /\ reply.chunks[end + 2] = Len(body) + chunk_remaining_
      /\ IsSound(reply) => end \in CrLf(reply.wire)
      /\ ~running => Len(buf_) < 2 /\ (chunk_remaining_ > 0 => Len(buf_) = 0)
AtChunk ==
  /\ ~chunk_started_ /\ Place \in DOMAIN reply.chunks /\ reply.chunks[Place] = Len(body)
  /\ ~running => CrLf(buf_) = {}
\* The last size line has been dropped, and a trailer is ahead: nothing that
\* can be taken for a size.
AtTrailers ==
  /\ ~chunk_started_ /\ Len(body) = Len(reply.content)
  /\ \A e \in CrLf(reply.wire) : ~IsSize(reply.wire, Place, e)

WholeBody ==
  IF reply.framing = "eof" THEN body = SubSeq(reply.wire, reply.head + 1, got)
                           ELSE body = reply.content

\* Where the parser stands in a reply that cannot be misread.
MeantInv ==
  /\ state_ \notin {"Done", "Error"} => Unread
  /\ state_ = "StatusLine" => InHead
  /\ state_ = "BodyContentLength" => InLength
  /\ state_ = "BodyEof" => InEof
  /\ state_ = "BodyChunked" =>
       reply.framing = "chunked" /\ Spelled /\ (InData \/ AtChunk \/ AtTrailers)
  /\ state_ = "Done" => WholeBody
  /\ CutsDoNotMatter

(* And in one that may be: the body begins with what the Engine sent unless*)
(* it is taken for chunked, and a listing does not get beyond the first    *)
(* chunk size then, having none.                                           *)
MisreadInv ==
  /\ state_ = "StatusLine" => Unread /\ InHead
  /\ state_ \in {"BodyContentLength", "BodyEof"} => Unread /\ Place = reply.head + 1
  /\ state_ = "BodyChunked" /\ IsListing(reply) =>
       Unread /\ Place = reply.head + 1 /\ ~chunk_started_
  /\ state_ = "Done" /\ IsListing(reply) =>
       /\ Len(body) <= Len(reply.wire) - reply.head
       /\ body = SubSeq(reply.wire, reply.head + 1, reply.head + Len(body))

StreamInv == IF MayBeMisread(reply) THEN MisreadInv ELSE MeantInv

LEMMA Places ==
  ASSUME ParserType, ReplyType, Unread
  PROVE  /\ Len(buf_) \in Nat /\ got \in Nat /\ Len(reply.wire) \in Nat
         /\ Place \in Nat \ {0} /\ Place + Len(buf_) = got + 1
         /\ got <= Len(reply.wire)
BY Lengths DEF Unread, Place

LEMMA PieceBytes ==
  ASSUME NEW s \in Strings, NEW m \in Nat, NEW n \in Nat, m + n <= Len(s)
  PROVE  \A i \in 1..n : SubSeq(s, m + 1, m + n)[i] = s[m + i]
BY DEF Strings

LEMMA Unconsumed ==
  ASSUME NEW s \in Strings, NEW n \in 0..Len(s)
  PROVE  \A i \in 1..(Len(s) - n) : Drop(s, n)[i] = s[n + i]
BY DEF Strings, Drop

\* Consuming n bytes moves the place on by as many.
LEMMA Consumed ==
  ASSUME ParserType, ReplyType, Unread, UNCHANGED <<reply, got>>,
         NEW n \in 0..Len(buf_), buf_' = Drop(buf_, n)
  PROVE  Unread' /\ Place' = Place + n /\ Place' \in Nat \ {0}
<1>1. /\ Len(buf_) \in Nat /\ got \in Nat /\ Place = got - Len(buf_) + 1
      /\ Len(buf_) <= got /\ n \in Nat /\ n <= Len(buf_) /\ buf_ \in Strings
  BY Places DEF Place, Unread, ParserType
<1>2. Len(buf_') = Len(buf_) - n
  BY <1>1, Dropped
<1>3. Place' = Place + n
  BY <1>1, <1>2 DEF Place
<1>4. ASSUME NEW i \in 1..Len(buf_') PROVE buf_'[i] = reply'.wire[Place' + i - 1]
  <2>1. i \in 1..(Len(buf_) - n) /\ n + i \in 1..Len(buf_)
    BY <1>1, <1>2
  <2>2. buf_'[i] = buf_[n + i]
    BY <1>1, <2>1, Unconsumed
  <2>3. buf_[n + i] = reply.wire[Place + (n + i) - 1]
    BY <2>1 DEF Unread
  <2>4. Place + (n + i) - 1 = Place' + i - 1
    BY <1>1, <1>3, <2>1
  <2> QED
    BY <2>2, <2>3, <2>4
<1>5. Len(buf_') <= got'
  BY <1>1, <1>2
<1> QED
  BY <1>1, <1>3, <1>4, <1>5 DEF Unread

\* Bytes that stay in the buffer stay at their place.
LEMMA StaysUnread ==
  ASSUME Unread, UNCHANGED <<reply, got, buf_>>
  PROVE  Unread' /\ Place' = Place
BY DEF Unread, Place

\* A line ends in the buffer where it ends in the reply.
LEMMA LineEnds ==
  ASSUME ParserType, ReplyType, Unread, NEW i \in Nat \ {0}, i < Len(buf_)
  PROVE  i \in CrLf(buf_) <=> Place + i - 1 \in CrLf(reply.wire)
<1>1. /\ Len(buf_) \in Nat /\ got \in Nat /\ Len(reply.wire) \in Nat
      /\ Place \in Nat \ {0} /\ Place + Len(buf_) = got + 1
      /\ got <= Len(reply.wire)
  BY Places
<1> DEFINE j == Place + i - 1
<1>2. i \in 1..(Len(buf_) - 1) /\ i \in 1..Len(buf_) /\ i + 1 \in 1..Len(buf_)
  BY <1>1
<1>3. j \in 1..(Len(reply.wire) - 1) /\ Place + (i + 1) - 1 = j + 1
  BY <1>1
<1>4. buf_[i] = reply.wire[j] /\ buf_[i + 1] = reply.wire[j + 1]
  BY <1>2, <1>3 DEF Unread
<1> QED
  BY <1>2, <1>3, <1>4 DEF CrLf

LEMMA SameSequence ==
  ASSUME NEW s \in Strings, NEW t \in Strings, Len(s) = Len(t),
         \A i \in 1..Len(s) : s[i] = t[i]
  PROVE  s = t
BY DEF Strings

\* The bytes before the i-th of the buffer are those before its place.
LEMMA SameBytes ==
  ASSUME ParserType, ReplyType, Unread, NEW n \in 0..Len(buf_)
  PROVE  SubSeq(buf_, 1, n) = SubSeq(reply.wire, Place, Place + n - 1)
<1>1. /\ Len(buf_) \in Nat /\ got \in Nat /\ Len(reply.wire) \in Nat
      /\ Place \in Nat \ {0} /\ Place + Len(buf_) = got + 1
      /\ got <= Len(reply.wire)
      /\ buf_ \in Strings /\ reply.wire \in Strings
  BY Places DEF ParserType, ReplyType
<1> DEFINE m == Place - 1
           t == SubSeq(reply.wire, Place, Place + n - 1)
           s == SubSeq(buf_, 1, n)
<1>2. /\ m \in Nat /\ m + 1 = Place /\ m + n = Place + n - 1 /\ m + n <= Len(reply.wire)
      /\ n \in Nat
  BY <1>1
<1>3. t = SubSeq(reply.wire, m + 1, m + n)
  BY <1>2
<1>4. s \in Strings /\ Len(s) = n /\ \A i \in 1..n : s[i] = buf_[i]
  BY <1>1, Prefix
<1> HIDE DEF m, t
<1>5. t \in Strings /\ Len(t) = n /\ \A i \in 1..n : t[i] = reply.wire[Place + i - 1]
  <2>1. reply.wire \in Strings /\ m \in Nat /\ n \in Nat /\ m + n <= Len(reply.wire)
    BY <1>1, <1>2
  <2>2. t \in Strings /\ Len(t) = n /\ \A i \in 1..n : t[i] = reply.wire[m + i]
    BY <2>1, <1>3, Piece, PieceBytes
  <2>3. \A i \in 1..n : m + i = Place + i - 1
    BY <1>1, <1>2
  <2> QED
    BY <2>2, <2>3
<1>6. \A i \in 1..n : buf_[i] = reply.wire[Place + i - 1]
  <2>1. \A i \in 1..n : i \in 1..Len(buf_)
    BY <1>1
  <2> QED
    BY <2>1 DEF Unread
<1> HIDE DEF s
<1>7. s = t
  <2>1. \A i \in 1..n : s[i] = t[i]
    BY <1>4, <1>5, <1>6
  <2> QED
    BY <1>4, <1>5, <2>1, SameSequence
<1> QED
  BY <1>7 DEF s, t

LEMMA OneLine ==
  ASSUME NEW wire \in Strings, NEW p \in Nat, NEW e, NEW f,
         IsLine(wire, p, e), IsLine(wire, p, f)
  PROVE  e = f /\ e \in Nat
<1>1. CrLf(wire) \subseteq Nat /\ Len(wire) \in Nat
  BY DEF CrLf, Strings
<1>2. e \in CrLf(wire) /\ f \in CrLf(wire) /\ e \in Nat /\ f \in Nat /\ p <= e /\ p <= f
  BY <1>1 DEF IsLine
<1>3. ~(e \in p..(f - 1)) /\ ~(f \in p..(e - 1))
  BY <1>2 DEF IsLine
<1> QED
  BY <1>2, <1>3

LEMMA LineAhead ==
  ASSUME ParserType, ReplyType, Unread, CrLf(buf_) # {}
  PROVE  LET m == Min(CrLf(buf_))
             e == Place + m - 1
         IN  /\ m \in 1..(Len(buf_) - 1) /\ e \in CrLf(reply.wire)
             /\ IsLine(reply.wire, Place, e)
             /\ SubSeq(buf_, 1, m - 1) = SubSeq(reply.wire, Place, e - 1)
<1> DEFINE m == Min(CrLf(buf_))
           e == Place + m - 1
<1>1. /\ Len(buf_) \in Nat /\ Place \in Nat \ {0} /\ buf_ \in Strings
  BY Places DEF ParserType
<1>2. m \in 1..(Len(buf_) - 1) /\ m \in CrLf(buf_) /\ \A i \in CrLf(buf_) : m <= i
  <2>1. CrLf(buf_) \subseteq 1..(Len(buf_) - 1)
    BY DEF CrLf
  <2>2. CrLf(buf_) \subseteq Nat
    BY <2>1
  <2> QED
    BY <2>1, <2>2, MinExists
<1> HIDE DEF m
<1>3. m \in Nat \ {0} /\ m < Len(buf_) /\ m - 1 \in 0..Len(buf_)
  BY <1>1, <1>2
<1>4. e \in CrLf(reply.wire)
  BY <1>2, <1>3, LineEnds
<1>5. ASSUME NEW j \in CrLf(reply.wire), j \in Place..(e - 1) PROVE FALSE
  <2>1. j \in Int /\ Place <= j /\ j < e
    BY <1>1, <1>3, <1>5
  <2> DEFINE i == j - Place + 1
  <2>2. i \in Nat \ {0} /\ i < m /\ i < Len(buf_) /\ Place + i - 1 = j
    BY <1>1, <1>3, <2>1
  <2> HIDE DEF i
  <2>3. i \in CrLf(buf_)
    BY <2>2, LineEnds
  <2> QED
    BY <1>2, <1>3, <2>2, <2>3
<1>6. IsLine(reply.wire, Place, e)
  BY <1>1, <1>3, <1>4, <1>5 DEF IsLine
<1>7. SubSeq(buf_, 1, m - 1) = SubSeq(reply.wire, Place, e - 1)
  <2>1. Place + (m - 1) - 1 = e - 1
    BY <1>1, <1>3
  <2> QED
    BY <1>3, <2>1, SameBytes
<1> QED
  BY <1>2, <1>4, <1>6, <1>7 DEF m

----------------------------------------------------------------------------
(* The head *)

LEMMA ReplyIsMeant ==
  ASSUME ReplyType
  PROVE  /\ HeadIsMeant(reply)
         /\ reply.framing = "length" => LengthIsMeant(reply)
         /\ reply.framing = "chunked" => ChunksAreMeant(reply)
BY RepliesAssumption DEF ReplyType

\* A failure the reply accounts for.
LEMMA FailsRightly ==
  ASSUME state_' = "Error", UNCHANGED reply,
         \/ ~IsSound(reply) \/ CutShort'
         \/ reply.framing = "chunked" /\ body' = reply.content
  PROVE  MeantInv'
BY DEF MeantInv, CutsDoNotMatter, Misjudged, CutShort

(* No header field names a framing: what parse_headers() makes of that.    *)
LEMMA NoFraming ==
  ASSUME NEW lines, parse_headers(lines).framing = "none"
  PROVE  parse_headers(lines) = [bad |-> FALSE, framing |-> "none", length |-> 0]
<1> DEFINE Of(field) == {i \in DOMAIN lines : Field(lines[i]) = field}
           lengths   == {i \in Of("content-length") : \A j \in Of("chunked") : i < j}
<1>1. lengths = {} /\ Of("chunked") = {}
  BY DEF parse_headers
<1> QED
  BY <1>1 DEF parse_headers

\* The fields in the buffer are those of the reply.
LEMMA SameFields ==
  ASSUME NEW s \in Strings, NEW t \in Strings,
         NEW n \in Nat, n <= Len(s), n <= Len(t), \A i \in 1..(n - 1) : s[i] = t[i]
  PROVE  FieldLines(s, n) = FieldLines(t, n)
<1>1. \A i \in 1..(n - 2) : s[i + 1] = t[i + 1]
  <2> SUFFICES ASSUME NEW i \in 1..(n - 2) PROVE i + 1 \in 1..(n - 1)
    OBVIOUS
  <2> QED
    OBVIOUS
<1> QED
  BY <1>1 DEF FieldLines

\* The header fields tell the client the framing the Engine means.
LEMMA FramingIsMeant ==
  ASSUME NEW r, HeadIsMeant(r)
  PROVE  LET framing == parse_headers(Fields(r)).framing
         IN  \/ framing = "chunked" /\ r.framing = "chunked"
             \/ framing = "content-length" /\ r.framing = "length"
             \/ framing = "none" /\ r.framing = "eof"
<1> DEFINE lines     == Fields(r)
           Of(field) == {i \in DOMAIN lines : Field(lines[i]) = field}
           lengths   == {i \in Of("content-length") : \A j \in Of("chunked") : i < j}
<1>1. /\ Lines(r, "chunked") = Of("chunked")
      /\ Lines(r, "content-length") = Of("content-length")
  BY DEF Lines
<1>2. CASE Of("chunked") # {}
  BY <1>1, <1>2 DEF parse_headers, HeadIsMeant
<1>3. CASE Of("chunked") = {} /\ Of("content-length") # {}
  <2>1. lengths # {}
    BY <1>3
  <2> QED
    BY <1>1, <1>3, <2>1 DEF parse_headers, HeadIsMeant
<1>4. CASE Of("chunked") = {} /\ Of("content-length") = {}
  <2>1. lengths = {}
    BY <1>4
  <2> QED
    BY <1>1, <1>4, <2>1 DEF parse_headers, HeadIsMeant
<1> QED
  BY <1>2, <1>3, <1>4

\* And the length: one that is not bad is that of the content.
LEMMA LengthIsRead ==
  ASSUME NEW r, r.wire \in Strings, HeadIsMeant(r), r.framing = "length", LengthIsMeant(r)
  PROVE  ~parse_headers(Fields(r)).bad
           => parse_headers(Fields(r)).length = Len(r.content)
<1> DEFINE lines     == Fields(r)
           Of(field) == {i \in DOMAIN lines : Field(lines[i]) = field}
           lengths   == {i \in Of("content-length") : \A j \in Of("chunked") : i < j}
           last      == Max(lengths)
<1>0. DOMAIN lines \subseteq 0..Len(r.wire) /\ Len(r.wire) \in Nat
  <2>1. r.head \in 1..Len(r.wire) /\ Len(r.wire) \in Nat
    BY DEF HeadIsMeant, Strings
  <2>2. DOMAIN Fields(r) = 1..(r.head - 2)
    BY DEF Fields, FieldLines
  <2> QED
    BY <2>1, <2>2
<1>1. /\ Lines(r, "chunked") = Of("chunked")
      /\ Lines(r, "content-length") = Of("content-length")
  BY DEF Lines
<1>2. Of("chunked") = {} /\ Of("content-length") # {}
  BY <1>1 DEF HeadIsMeant
<1>3. lengths = Of("content-length") /\ lengths # {}
  BY <1>2
<1>4. last \in lengths
  <2>1. lengths \subseteq 0..Len(r.wire)
    BY <1>0
  <2> HIDE DEF lengths, lines
  <2> QED BY <1>0, <1>3, <2>1, MaxExists
<1>5. \A i \in lengths : FieldLength(lines[i]) \in {-1, Len(r.content)}
  BY <1>1, <1>3 DEF LengthIsMeant
<1>6. /\ parse_headers(lines).length = FieldLength(lines[last])
      /\ parse_headers(lines).bad = (\E i \in lengths : BadLength(lines[i]))
  BY <1>3 DEF parse_headers
<1> HIDE DEF lengths, last, lines
<1>7. ~parse_headers(lines).bad => parse_headers(lines).length = Len(r.content)
  BY <1>4, <1>5, <1>6 DEF BadLength
<1> QED
  BY <1>7 DEF lines

\* A sound reply's head is accepted.
LEMMA SoundHead ==
  ASSUME NEW r, HeadIsMeant(r), IsSound(r)
  PROVE  /\ StatusCode(r.wire[1]) # 0 /\ ~parse_headers(Fields(r)).bad
         /\ parse_headers(Fields(r)).framing = "none" => allow_eof_termination_
<1>1. ~parse_headers(Fields(r)).bad
  BY DEF IsSound, parse_headers, Lines
<1> QED
  BY <1>1, FramingIsMeant DEF IsSound

\* In the head, everything that has come is in the buffer.
LEMMA HeadIsHeld ==
  ASSUME ParserInv, Unread, InHead
  PROVE  /\ Len(buf_) \in Nat /\ got \in Nat /\ Len(buf_) = got /\ Len(reply.wire) \in Nat
         /\ got <= Len(reply.wire) /\ buf_ \in Strings /\ reply.wire \in Strings
         /\ \A i \in 1..Len(buf_) : buf_[i] = reply.wire[i]
         /\ HeadIsMeant(reply) /\ reply.head \in 2..Len(reply.wire)
<1>1. ParserType /\ ReplyType /\ Place = 1
  BY DEF ParserInv, InHead
<1>2. \A i \in 1..Len(buf_) : Place + i - 1 = i
  BY <1>1, Places
<1>3. /\ Len(buf_) \in Nat /\ got \in Nat /\ Len(reply.wire) \in Nat
      /\ 1 + Len(buf_) = got + 1 /\ got <= Len(reply.wire)
  BY <1>1, Places
<1>4. Len(buf_) = got
  BY <1>3
<1>5. \A i \in 1..Len(buf_) : buf_[i] = reply.wire[i]
  BY <1>2 DEF Unread
<1>6. buf_ \in Strings /\ reply.wire \in Strings
  BY <1>1 DEF ParserType, ReplyType
<1>7. HeadIsMeant(reply) /\ reply.head \in 2..Len(reply.wire)
  BY <1>1, ReplyIsMeant DEF HeadIsMeant
<1> QED
  BY <1>3, <1>4, <1>5, <1>6, <1>7

\* The blank line that is found first is the one that ends the reply's head.
LEMMA HeadIsFound ==
  ASSUME ParserInv, Unread, InHead
  PROVE  LET blanks == {i \in DOMAIN buf_ : buf_[i] = "BLANK"}
         IN  /\ blanks = {} => got < reply.head
             /\ blanks # {} => Min(blanks) = reply.head /\ reply.head \in 1..Len(buf_)
<1> DEFINE blanks == {i \in DOMAIN buf_ : buf_[i] = "BLANK"}
           end    == Min(blanks)
<1>3. /\ Len(buf_) \in Nat /\ got \in Nat /\ Len(buf_) = got /\ Len(reply.wire) \in Nat
      /\ got <= Len(reply.wire) /\ buf_ \in Strings
      /\ \A i \in 1..Len(buf_) : buf_[i] = reply.wire[i]
  BY HeadIsHeld
<1>4. /\ reply.head \in 2..Len(reply.wire)
      /\ reply.wire[reply.head] = "BLANK"
      /\ \A i \in 1..(reply.head - 1) : reply.wire[i] # "BLANK"
  BY HeadIsHeld DEF HeadIsMeant
<1>5. DOMAIN buf_ = 1..Len(buf_)
  BY <1>3 DEF Strings
<1>6. got >= reply.head => reply.head \in blanks
  <2> SUFFICES ASSUME got >= reply.head PROVE reply.head \in 1..Len(buf_)
    BY <1>3, <1>4, <1>5
  <2> QED
    BY <1>3, <1>4
<1>7. CASE blanks = {}
  BY <1>3, <1>4, <1>6, <1>7
<1>8. CASE blanks # {}
  <2>1. blanks \subseteq 1..Len(buf_) /\ blanks \subseteq Nat
    BY <1>3, <1>5
  <2>2. end \in blanks /\ \A y \in blanks : end <= y
    <3> HIDE DEF blanks
    <3> QED BY <1>8, <2>1, MinExists
  <2>3. end \in 1..Len(buf_) /\ buf_[end] = "BLANK"
    BY <2>1, <2>2
  <2> HIDE DEF end
  <2>4. ~(end \in 1..(reply.head - 1))
    BY <1>3, <1>4, <2>3
  <2>5. end >= reply.head
    BY <1>3, <1>4, <2>3, <2>4
  <2>6. reply.head \in blanks
    BY <1>3, <1>4, <1>6, <2>3, <2>5
  <2>7. end = reply.head /\ reply.head \in 1..Len(buf_)
    BY <1>4, <2>2, <2>3, <2>5, <2>6
  <2> QED
    BY <1>8, <2>7 DEF end
<1> QED
  BY <1>7, <1>8

\* What parse_headers() finds in the head of a reply that cannot be misread is
\* what its fields say: nothing, in the bytes after a head without fields.
LEMMA FieldsAreRead ==
  ASSUME ParserInv, Unread, InHead, reply.head \in 1..Len(buf_), ~MayBeMisread(reply)
  PROVE  parse_headers(HeaderLines(buf_, reply.head)) = parse_headers(Fields(reply))
<1> DEFINE w == reply.wire
           h == reply.head
<1>1. /\ Len(buf_) \in Nat /\ got \in Nat /\ Len(buf_) = got /\ Len(w) \in Nat
      /\ got <= Len(w) /\ buf_ \in Strings /\ w \in Strings
      /\ \A i \in 1..Len(buf_) : buf_[i] = w[i]
      /\ h \in 2..Len(w) /\ h \in 1..Len(buf_)
  BY HeadIsHeld
<1>2. Fields(reply) = FieldLines(w, h)
  BY DEF Fields
<1>3. CASE h > 2
  <2>1. FieldLines(buf_, h) = FieldLines(w, h)
    <3>1. h \in Nat /\ h <= Len(buf_) /\ h <= Len(w) /\ \A i \in 1..(h - 1) : buf_[i] = w[i]
      BY <1>1
    <3> HIDE DEF w, h
    <3> QED BY <1>1, <3>1, SameFields
  <2>2. HeaderLines(buf_, h) = FieldLines(buf_, h)
    BY <1>3 DEF HeaderLines
  <2> QED
    BY <1>2, <2>1, <2>2
<1>4. CASE ~(h > 2)
  <2>1. h = 2
    BY <1>1, <1>4
  <2>2. Drop(buf_, 2) = SubSeq(w, 3, got)
    <3> DEFINE a == Drop(buf_, 2)
               k == got - 2
    <3>1. 2 \in 0..Len(buf_) /\ k \in Nat /\ k = Len(buf_) - 2 /\ 2 + k = got
      BY <1>1, <2>1
    <3>2. a \in Strings /\ Len(a) = k /\ \A i \in 1..k : a[i] = buf_[2 + i]
      BY <1>1, <3>1, Dropped, Unconsumed
    <3> HIDE DEF a, k, w
    <3> DEFINE b == SubSeq(w, 2 + 1, 2 + k)
    <3>3. b \in Strings /\ Len(b) = k /\ \A i \in 1..k : b[i] = w[2 + i]
      <4>1. w \in Strings /\ 2 \in Nat /\ k \in Nat /\ 2 + k <= Len(w)
        BY <1>1, <3>1
      <4> QED
        BY <4>1, Piece, PieceBytes
    <3>4. \A i \in 1..k : buf_[2 + i] = w[2 + i]
      BY <1>1, <3>1
    <3> HIDE DEF b
    <3>5. a = b
      <4>1. \A i \in 1..Len(a) : a[i] = b[i]
        BY <3>2, <3>3, <3>4
      <4> QED
        BY <3>2, <3>3, <4>1, SameSequence
    <3>6. b = SubSeq(w, 3, got)
      BY <3>1 DEF b
    <3> QED
      BY <3>5, <3>6 DEF a
  <2>3. HeaderLines(buf_, h) = LinesIn(SubSeq(w, 3, got))
    <3>1. HeaderLines(buf_, h) = LinesIn(Drop(buf_, h))
      BY <1>4 DEF HeaderLines
    <3> HIDE DEF h
    <3> QED BY <2>1, <2>2, <3>1
  <2>4. parse_headers(LinesIn(SubSeq(w, 3, got))).framing = "none"
    <3>1. got \in 2..Len(w)
      BY <1>1, <2>1
    <3> QED
      BY <2>1, <3>1 DEF MayBeMisread
  <2>5. parse_headers(FieldLines(w, h)).framing = "none"
    <3> DEFINE lines == FieldLines(w, h)
    <3>1. DOMAIN lines = {}
      BY <2>1 DEF FieldLines
    <3> HIDE DEF lines
    <3>2. \A field : {i \in DOMAIN lines : Field(lines[i]) = field} = {}
      BY <3>1
    <3>3. parse_headers(lines).framing = "none"
      BY <3>2 DEF parse_headers
    <3> QED
      BY <3>3 DEF lines
  <2> HIDE DEF w, h
  <2>6. /\ parse_headers(LinesIn(SubSeq(w, 3, got)))
             = [bad |-> FALSE, framing |-> "none", length |-> 0]
        /\ parse_headers(FieldLines(w, h)) = [bad |-> FALSE, framing |-> "none", length |-> 0]
    BY <2>4, <2>5, NoFraming
  <2>7. parse_headers(HeaderLines(buf_, h)) = parse_headers(Fields(reply))
    BY <1>2, <2>3, <2>6
  <2> QED
    BY <2>7 DEF h
<1> QED
  BY <1>3, <1>4

LEMMA HeadFollows ==
  ASSUME ParserInv, MeantInv, ~MayBeMisread(reply), parse_head, UNCHANGED clientVars
  PROVE  MeantInv'
<1> DEFINE blanks == {i \in DOMAIN buf_ : buf_[i] = "BLANK"}
           end    == Min(blanks)
           fields == parse_headers(HeaderLines(buf_, end))
<1>1. /\ ParserType /\ ReplyType /\ UNCHANGED <<reply, got, eof, body, chunk_started_, chunk_remaining_>>
      /\ state_ = "StatusLine" /\ running
  BY DEF ParserInv, parse_head, clientVars
<1>2. Unread /\ InHead /\ Place = 1 /\ Len(body) = 0 /\ ~chunk_started_
  BY <1>1 DEF MeantInv, InHead
<1>3. /\ Len(buf_) \in Nat /\ got \in Nat /\ Len(buf_) = got /\ Len(reply.wire) \in Nat
      /\ got <= Len(reply.wire) /\ buf_ \in Strings /\ reply.wire \in Strings
      /\ \A i \in 1..Len(buf_) : buf_[i] = reply.wire[i]
  BY <1>2, HeadIsHeld
<1>4. HeadIsMeant(reply) /\ reply.head \in 2..Len(reply.wire)
  BY <1>2, HeadIsHeld
<1>7. CASE blanks = {}
  <2>1. UNCHANGED <<state_, buf_, status, content_length_>> /\ running' = FALSE
    BY <1>7 DEF parse_head, NeedMoreBytes
  <2>2. got < reply.head
    BY <1>2, <1>7, HeadIsFound
  <2>3. Unread' /\ InHead'
    BY <1>1, <1>2, <2>1, <2>2, StaysUnread DEF InHead
  <2> QED
    BY <1>1, <2>1, <2>3 DEF MeantInv, CutsDoNotMatter, Misjudged
<1>8. CASE blanks # {}
  <2>1. end = reply.head /\ end \in 1..Len(buf_)
    BY <1>2, <1>8, HeadIsFound
  <2>3. fields = parse_headers(Fields(reply))
    BY <1>2, <2>1, FieldsAreRead
  <2>4. \/ fields.framing = "chunked" /\ reply.framing = "chunked"
        \/ fields.framing = "content-length" /\ reply.framing = "length"
        \/ fields.framing = "none" /\ reply.framing = "eof"
    BY <1>4, <2>3, FramingIsMeant
  <2>5. CASE state_' = "Error"
    <3>1. \/ StatusCode(buf_[1]) = 0 \/ fields.bad
          \/ fields.framing = "none" /\ ~allow_eof_termination_
      BY <1>8, <2>5 DEF parse_head
    <3> HIDE DEF fields, end, blanks
    <3>2. buf_[1] = reply.wire[1]
      BY <1>3, <2>1
    <3>3. ~IsSound(reply)
      BY <1>4, <2>3, <3>1, <3>2, SoundHead
    <3> QED
      BY <1>1, <2>5, <3>3, FailsRightly
  <2>6. CASE state_' # "Error"
    <3>1. /\ ~fields.bad
          /\ content_length_' = fields.length
          /\ buf_' = Drop(buf_, end)
          /\ \/ fields.framing = "content-length" /\ state_' = "BodyContentLength"
             \/ fields.framing = "chunked" /\ state_' = "BodyChunked"
             \/ fields.framing = "none" /\ state_' = "BodyEof"
          /\ running' = TRUE
      BY <1>8, <2>4, <2>6 DEF parse_head, fail
    <3> HIDE DEF fields, end, blanks
    <3>2. Unread' /\ Place' = reply.head + 1
      <4>1. end \in 0..Len(buf_)
        BY <1>3, <2>1
      <4>2. Unread' /\ Place' = Place + end
        BY <1>1, <1>2, <3>1, <4>1, Consumed
      <4> QED
        BY <1>2, <1>4, <2>1, <4>2
    <3>3. CASE state_' = "BodyContentLength"
      <4>1. reply.framing = "length"
        BY <2>4, <3>1, <3>3
      <4>2. fields.length = Len(reply.content)
        BY <1>1, <1>3, <1>4, <2>3, <3>1, <4>1, ReplyIsMeant, LengthIsRead
      <4>3. InLength'
        BY <1>1, <3>1, <3>2, <4>1, <4>2 DEF InLength
      <4> QED
        BY <1>1, <3>2, <3>3, <4>3 DEF MeantInv, CutsDoNotMatter, Misjudged
    <3>4. CASE state_' = "BodyChunked"
      <4>1. reply.framing = "chunked"
        BY <2>4, <3>1, <3>4
      <4>2. ChunksAreMeant(reply)
        BY <1>1, <4>1, ReplyIsMeant
      <4>3. AtChunk'
        BY <1>1, <1>2, <3>1, <3>2, <4>2 DEF AtChunk, ChunksAreMeant
      <4>4. Spelled'
        <5>1. Len(reply.content) \in Nat
          BY <1>4 DEF HeadIsMeant
        <5> QED
          BY <1>1, <1>2, <5>1 DEF Spelled
      <4> QED
        BY <1>1, <3>2, <3>4, <4>1, <4>3, <4>4 DEF MeantInv, CutsDoNotMatter, Misjudged
    <3>5. CASE state_' = "BodyEof"
      <4>1. InEof'
        BY <1>1, <2>4, <3>1, <3>2, <3>5 DEF InEof
      <4> QED
        BY <1>1, <3>2, <3>5, <4>1 DEF MeantInv, CutsDoNotMatter, Misjudged
    <3> QED
      BY <3>1, <3>3, <3>4, <3>5
  <2> QED
    BY <2>5, <2>6
<1> QED
  BY <1>7, <1>8

----------------------------------------------------------------------------
(* The body *)

\* Two sequences with the same elements are the same.
LEMMA JoinedBytes ==
  ASSUME NEW s \in Strings, NEW t \in Strings
  PROVE  /\ Len(s \o t) = Len(s) + Len(t)
         /\ \A i \in 1..Len(s) : (s \o t)[i] = s[i]
         /\ \A i \in 1..Len(t) : (s \o t)[Len(s) + i] = t[i]
BY DEF Strings

LEMMA LengthBodyFollows ==
  ASSUME ParserInv, MeantInv, body_step_content_length, UNCHANGED clientVars
  PROVE  MeantInv'
<1>1. /\ ParserType /\ ReplyType /\ StateInv
      /\ UNCHANGED <<reply, got, eof, content_length_>>
      /\ state_ = "BodyContentLength" /\ running
  BY DEF ParserInv, body_step_content_length, clientVars
<1>2. /\ Unread /\ InLength /\ reply.framing = "length"
      /\ Place = reply.head + 1 /\ content_length_ = Len(reply.content)
      /\ Len(body) = 0
  BY <1>1 DEF MeantInv, InLength, StateInv
<1>3. /\ Len(buf_) \in Nat /\ got \in Nat /\ Place + Len(buf_) = got + 1
      /\ got <= Len(reply.wire) /\ buf_ \in Strings /\ content_length_ \in Nat
      /\ Len(reply.wire) \in Nat /\ Place \in Nat
  BY <1>1, <1>2, Places DEF ParserType
<1>4. /\ LengthIsMeant(reply) /\ reply.head \in Nat /\ reply.content \in Strings
  BY <1>1, <1>2, <1>3, ReplyIsMeant DEF HeadIsMeant, Strings
<1>5. CASE Len(buf_) < content_length_
  <2>1. UNCHANGED <<state_, body, buf_>> /\ running' = FALSE
    BY <1>5 DEF body_step_content_length, NeedMoreBytes
  <2>2. Unread' /\ InLength'
    BY <1>1, <1>2, <1>5, <2>1, StaysUnread DEF InLength
  <2> QED
    BY <1>1, <2>1, <2>2 DEF MeantInv, CutsDoNotMatter, Misjudged
<1>6. CASE ~(Len(buf_) < content_length_)
  <2>1. /\ body' = SubSeq(buf_, 1, content_length_)
        /\ buf_' = Drop(buf_, content_length_)
        /\ \/ buf_' = <<>> /\ state_' = "Done"
           \/ buf_' # <<>> /\ state_' = "Error"
    BY <1>6 DEF body_step_content_length, fail
  <2>2. content_length_ \in 0..Len(buf_)
    BY <1>3, <1>6
  <2>3. /\ body' \in Strings /\ Len(body') = content_length_
        /\ \A i \in 1..content_length_ : body'[i] = buf_[i]
    BY <1>3, <2>1, <2>2, Prefix
  <2>4. body' = reply.content
    <3>1. ASSUME NEW i \in 1..content_length_ PROVE body'[i] = reply.content[i]
      <4>1. i \in 1..Len(buf_) /\ i \in Nat
        BY <1>3, <2>2
      <4>2. buf_[i] = reply.wire[Place + i - 1]
        BY <1>2, <4>1 DEF Unread
      <4>3. Place + i - 1 <= Len(reply.wire)
        BY <1>3, <4>1
      <4>4. Carries(reply, Place, 0, content_length_)
        BY <1>2, <1>4 DEF LengthIsMeant
      <4>5. reply.content[0 + i] = reply.wire[Place + i - 1]
        BY <4>3, <4>4 DEF Carries
      <4>6. 0 + i = i
        BY <4>1
      <4> QED
        BY <2>3, <4>2, <4>5, <4>6
    <3> QED
      BY <1>2, <1>4, <2>3, <3>1, SameSequence
  <2>5. CASE state_' = "Done"
    BY <1>1, <1>2, <2>4, <2>5 DEF MeantInv, WholeBody, CutsDoNotMatter, Misjudged
  <2>6. CASE state_' = "Error"
    <3>1. ASSUME IsSound(reply) PROVE FALSE
      <4>1. Len(reply.wire) = reply.head + Len(reply.content)
        BY <1>2, <3>1 DEF IsSound
      <4>2. Len(buf_) = content_length_
        <5>1. /\ Len(reply.wire) = reply.head + content_length_
              /\ Place = reply.head + 1 /\ reply.head \in Nat
          BY <1>2, <1>4, <4>1
        <5> QED
          BY <1>3, <1>6, <5>1
      <4>3. Len(buf_') = 0 /\ buf_' \in Strings
        BY <1>3, <2>1, <2>2, <4>2, Dropped
      <4>4. buf_' = <<>>
        BY <4>3 DEF Strings
      <4> QED
        BY <2>1, <2>6, <4>4
    <3> QED
      BY <1>1, <2>6, <3>1, FailsRightly
  <2> QED
    BY <2>1, <2>5, <2>6
<1> QED
  BY <1>5, <1>6

\* What is known of the stream in a chunked body.
LEMMA InChunked ==
  ASSUME ParserInv, MeantInv, state_ = "BodyChunked"
  PROVE  /\ ParserType /\ ReplyType /\ Unread /\ Spelled
         /\ reply.framing = "chunked" /\ ChunksAreMeant(reply)
         /\ InData \/ AtChunk \/ AtTrailers
         /\ Len(buf_) \in Nat /\ Len(body) \in Nat /\ chunk_remaining_ \in Nat
         /\ Place \in Nat \ {0} /\ buf_ \in Strings /\ body \in Strings
         /\ reply.wire \in Strings /\ Len(reply.wire) \in Nat
         /\ reply.content \in Strings /\ Len(reply.content) \in Nat
<1>1. ParserType /\ ReplyType /\ Unread /\ reply.framing = "chunked"
      /\ Spelled /\ (InData \/ AtChunk \/ AtTrailers)
  BY DEF ParserInv, MeantInv
<1>2. ChunksAreMeant(reply) /\ HeadIsMeant(reply)
  BY <1>1, ReplyIsMeant
<1> QED
  BY <1>1, <1>2, Places, Lengths DEF ParserType, ReplyType, HeadIsMeant, Strings

\* A turn that leaves the parser in a chunked body.
LEMMA StaysChunked ==
  ASSUME MeantInv, state_ = "BodyChunked", state_' = "BodyChunked", UNCHANGED reply,
         Unread', Spelled', InData' \/ AtChunk' \/ AtTrailers'
  PROVE  MeantInv'
BY DEF MeantInv, CutsDoNotMatter, Misjudged

\* A turn that waits for more bytes: no line has ended, or no chunk.
LEMMA WaitsInChunked ==
  ASSUME MeantInv, state_ = "BodyChunked",
         UNCHANGED <<state_, buf_, body, chunk_started_, chunk_remaining_, reply, got>>,
         \/ (~chunk_started_ /\ CrLf(buf_) = {})
         \/ (chunk_started_ /\ chunk_remaining_ = 0 /\ Len(buf_) < 2)
  PROVE  MeantInv'
<1>1. Unread' /\ Place' = Place
  BY StaysUnread DEF MeantInv
<1>2. Spelled /\ (InData \/ AtChunk \/ AtTrailers)
  BY DEF MeantInv
<1>3. Spelled'
  BY <1>2 DEF Spelled
<1>4. CASE InData
  <2>1. chunk_remaining_ = 0 /\ Len(buf_) < 2
    BY <1>4 DEF InData
  <2>2. InData'
    BY <1>1, <1>4, <2>1 DEF InData
  <2> QED
    BY <1>1, <1>3, <2>2, StaysChunked
<1>5. CASE AtChunk
  <2>1. AtChunk'
    BY <1>1, <1>5 DEF AtChunk
  <2> QED
    BY <1>1, <1>3, <2>1, StaysChunked
<1>6. CASE AtTrailers
  <2>1. AtTrailers'
    BY <1>1, <1>6 DEF AtTrailers
  <2> QED
    BY <1>1, <1>3, <2>1, StaysChunked
<1> QED
  BY <1>2, <1>4, <1>5, <1>6

\* At a chunk of a sound reply, the line ahead is a sound size line.
LEMMA SoundLine ==
  ASSUME ParserInv, MeantInv, state_ = "BodyChunked", AtChunk, IsSound(reply)
  PROVE  \E e \in CrLf(reply.wire) :
           /\ ChunkIsSound(reply, Place, e)
           /\ \A f : IsLine(reply.wire, Place, f) => f = e
<1>1. reply.framing = "chunked" /\ Place \in Nat /\ reply.wire \in Strings
  BY InChunked
<1>2. PICK e \in CrLf(reply.wire) : ChunkIsSound(reply, Place, e)
  BY <1>1 DEF AtChunk, IsSound
<1>3. IsLine(reply.wire, Place, e)
  BY <1>2 DEF ChunkIsSound, IsSize
<1>4. \A f : IsLine(reply.wire, Place, f) => f = e
  BY <1>1, <1>3, OneLine
<1> QED
  BY <1>2, <1>4

\* A chunk that the content has room for is not too big.
LEMMA FitsTheBody ==
  ASSUME NEW n \in Nat, n = Len(body), NEW size \in Nat, n + size <= max_body_bytes
  PROVE  ~TooBig(size)
<1> DEFINE w == Word
           sum == n + size
<1>1. /\ max_body_bytes \in Nat /\ 2 * max_body_bytes < w /\ w \in Nat
  BY LimitsAssumption
<1> HIDE DEF w
<1>2. sum \in Nat /\ sum < w /\ w > 0 /\ ~(size > max_body_bytes) /\ sum <= max_body_bytes
  BY <1>1
<1> HIDE DEF sum
<1>3. sum % w = sum
  BY <1>1, <1>2
<1>4. ~(sum % w > max_body_bytes)
  BY <1>1, <1>2, <1>3
<1> QED
  BY <1>2, <1>4 DEF TooBig, w, sum

\* Where a chunk of a sound reply ends, its data is in the content.
LEMMA ChunkFits ==
  ASSUME ParserInv, MeantInv, state_ = "BodyChunked", AtChunk, IsSound(reply),
         NEW e, ChunkIsSound(reply, Place, e), ChunkIsMeant(reply, Place, e),
         SizeAt(reply.wire, Place, e) \in Nat \ {0}
  PROVE  ~TooBig(SizeAt(reply.wire, Place, e))
<1> DEFINE size == SizeAt(reply.wire, Place, e)
           end  == e + 2 + size
<1>1. /\ Len(body) \in Nat /\ Len(reply.wire) \in Nat /\ Len(reply.content) \in Nat
      /\ reply.chunks[Place] = Len(body) /\ Len(reply.content) <= max_body_bytes
  BY InChunked DEF AtChunk, IsSound
<1>2. size \in Nat \ {0}
  OBVIOUS
<1>3. end \in CrLf(reply.wire) /\ e \in CrLf(reply.wire)
  BY <1>2 DEF ChunkIsSound, IsSize, IsLine
<1>4. Carries(reply, e + 2, Len(body), size)
  BY <1>1 DEF ChunkIsMeant
<1> HIDE DEF size
<1>5. e \in Nat /\ end <= Len(reply.wire)
  BY <1>1, <1>2, <1>3 DEF CrLf
<1>6. size \in 1..size /\ (e + 2) + size - 1 <= Len(reply.wire)
  BY <1>1, <1>2, <1>5
<1>7. Len(body) + size <= Len(reply.content)
  BY <1>4, <1>6 DEF Carries
<1>8. Len(body) + size <= max_body_bytes
  BY <1>1, <1>2, <1>7, Limits
<1>9. ~TooBig(size)
  BY <1>1, <1>2, <1>8, FitsTheBody
<1> QED
  BY <1>9 DEF size

\* The size line of a sound reply is only rejected at the end of the content.
LEMMA SizeLineFails ==
  ASSUME ParserInv, MeantInv, chunk_size_line, UNCHANGED clientVars,
         state_' = "Error", IsSound(reply)
  PROVE  body' = reply.content
<1> DEFINE eols == CrLf(buf_)
           line == SubSeq(buf_, 1, Min(eols) - 1)
           size == HexValue(SizeDigits(line))
           e    == Place + Min(eols) - 1
<1>1. state_ = "BodyChunked" /\ ~chunk_started_ /\ UNCHANGED body
  BY DEF chunk_size_line
<1>2. /\ ParserType /\ ReplyType /\ Unread /\ Spelled
      /\ ChunksAreMeant(reply) /\ (AtChunk \/ AtTrailers)
      /\ Len(buf_) \in Nat /\ Len(body) \in Nat /\ Place \in Nat \ {0} /\ buf_ \in Strings
      /\ body \in Strings /\ reply.content \in Strings /\ Len(reply.wire) \in Nat
  BY <1>1, InChunked DEF InData
<1>3. ASSUME Len(body) = Len(reply.content) PROVE body' = reply.content
  BY <1>1, <1>2, <1>3, SameSequence DEF Spelled
<1>4. CASE AtTrailers
  BY <1>3, <1>4 DEF AtTrailers
<1>5. CASE AtChunk
  <2>1. PICK f \in CrLf(reply.wire) :
          /\ ChunkIsSound(reply, Place, f)
          /\ \A g : IsLine(reply.wire, Place, g) => g = f
    BY <1>1, <1>5, SoundLine
  <2>2. f \in Nat /\ Place <= f /\ f - Place < max_chunk_line_bytes
    BY <1>2, <2>1 DEF ChunkIsSound, IsSize, IsLine, CrLf
  <2>3. eols # {}
    <3> SUFFICES ASSUME eols = {} PROVE FALSE
      OBVIOUS
    <3>1. Len(buf_) > max_chunk_line_bytes
      BY <1>1 DEF chunk_size_line, NeedMoreBytes
    <3> DEFINE i == f - Place + 1
    <3>2. i \in Nat \ {0} /\ i < Len(buf_) /\ Place + i - 1 = f
      BY <1>2, <2>2, <3>1, Limits
    <3> HIDE DEF i
    <3>3. i \in CrLf(buf_)
      BY <1>2, <2>1, <3>2, LineEnds
    <3> QED
      BY <3>3
  <2>4. /\ Min(eols) \in 1..(Len(buf_) - 1) /\ IsLine(reply.wire, Place, e)
        /\ line = SubSeq(reply.wire, Place, e - 1)
    BY <1>2, <2>3, LineAhead
  <2>5. e = f
    BY <2>1, <2>4
  <2>6. /\ GoodSize(SizeDigits(line)) /\ IsSize(reply.wire, Place, f)
        /\ size = SizeAt(reply.wire, Place, f)
    BY <2>1, <2>4, <2>5 DEF ChunkIsSound, IsSize, SizeAt
  <2>7. size = 0 \/ TooBig(size)
    BY <1>1, <2>3, <2>6 DEF chunk_size_line
  <2>8. size \in Nat
    <3>1. Min(eols) - 1 \in 0..Len(buf_)
      BY <1>2, <2>4
    <3> HIDE DEF eols
    <3>2. line \in Strings
      BY <1>2, <3>1, Prefix
    <3> QED
      BY <2>6, <3>2, SizeIsNat
  <2> HIDE DEF size, line, e, eols
  <2>9. Place \in DOMAIN reply.chunks /\ reply.chunks[Place] = Len(body)
    BY <1>5 DEF AtChunk
  <2>12. IF SizeAt(reply.wire, Place, f) = 0 THEN LastChunkIsMeant(reply, Place, f)
                                             ELSE ChunkIsMeant(reply, Place, f)
    <3>1. f \in CrLf(reply.wire) /\ IsSize(reply.wire, Place, f)
      BY <2>1, <2>6
    <3> QED
      BY <1>2, <2>9, <3>1 DEF ChunksAreMeant
  <2>10. CASE size = 0
    <3>1. LastChunkIsMeant(reply, Place, f)
      BY <2>6, <2>10, <2>12, Zenon
    <3> QED
      BY <1>3, <2>9, <3>1 DEF LastChunkIsMeant
  <2>11. CASE size # 0
    <3>1. ChunkIsMeant(reply, Place, f)
      BY <2>6, <2>11, <2>12, Zenon
    <3>2. ~TooBig(size)
      BY <1>1, <1>5, <2>1, <2>6, <2>8, <2>11, <3>1, ChunkFits
    <3> QED
      BY <2>7, <2>11, <3>2
  <2> QED
    BY <2>10, <2>11
<1> QED
  BY <1>2, <1>4, <1>5

LEMMA SizeLineFollows ==
  ASSUME ParserInv, MeantInv, chunk_size_line, UNCHANGED clientVars
  PROVE  MeantInv'
<1> DEFINE eols == CrLf(buf_)
           line == SubSeq(buf_, 1, Min(eols) - 1)
           size == HexValue(SizeDigits(line))
           rest == Drop(buf_, Min(eols) + 1)
           e    == Place + Min(eols) - 1
<1>1. /\ state_ = "BodyChunked" /\ ~chunk_started_ /\ running
      /\ UNCHANGED <<reply, got, eof, status, body, content_length_>>
  BY DEF chunk_size_line, clientVars
<1>2. /\ ParserType /\ ReplyType /\ Unread /\ Spelled
      /\ reply.framing = "chunked" /\ ChunksAreMeant(reply)
      /\ AtChunk \/ AtTrailers
      /\ Len(buf_) \in Nat /\ Len(body) \in Nat /\ Place \in Nat \ {0} /\ buf_ \in Strings
      /\ body \in Strings /\ reply.content \in Strings
  BY <1>1, InChunked DEF InData
<1>3. CASE state_' = "Error"
  <2>1. IsSound(reply) => body' = reply.content
    BY <1>3, SizeLineFails
  <2> QED
    BY <1>1, <1>2, <1>3, <2>1, FailsRightly
<1>4. CASE state_' # "Error" /\ eols = {}
  <2>1. UNCHANGED <<state_, buf_, chunk_started_, chunk_remaining_>>
    BY <1>4 DEF chunk_size_line, fail, NeedMoreBytes
  <2> QED
    BY <1>1, <1>4, <2>1, WaitsInChunked
<1>5. CASE state_' # "Error" /\ eols # {}
  <2>1. /\ Min(eols) \in 1..(Len(buf_) - 1) /\ e \in CrLf(reply.wire)
        /\ IsLine(reply.wire, Place, e)
        /\ line = SubSeq(reply.wire, Place, e - 1)
    BY <1>2, <1>5, LineAhead
  <2>2. /\ GoodSize(SizeDigits(line))
        /\ \/ size = 0 /\ EndTrailers(rest) /\ UNCHANGED <<chunk_started_, chunk_remaining_>>
           \/ size # 0 /\ buf_' = rest /\ chunk_started_' = TRUE
              /\ chunk_remaining_' = size /\ state_' = state_ /\ running' = running
    BY <1>5 DEF chunk_size_line, fail
  <2>3. IsSize(reply.wire, Place, e) /\ SizeAt(reply.wire, Place, e) = size
    BY <2>1, <2>2 DEF IsSize, SizeAt
  <2>4. AtChunk
    BY <1>2, <2>1, <2>3 DEF AtTrailers
  <2>5. /\ Place \in DOMAIN reply.chunks /\ reply.chunks[Place] = Len(body)
        /\ size = 0 => LastChunkIsMeant(reply, Place, e)
        /\ size # 0 => ChunkIsMeant(reply, Place, e)
    BY <1>2, <2>1, <2>3, <2>4 DEF AtChunk, ChunksAreMeant
  <2> HIDE DEF size, line, e, rest, eols
  <2>6. Min(eols) + 1 \in 0..Len(buf_) /\ e + 2 = Place + (Min(eols) + 1)
    BY <1>2, <2>1 DEF e
  <2>7. buf_' = rest => Unread' /\ Place' = e + 2
    <3> SUFFICES ASSUME buf_' = rest PROVE Unread' /\ Place' = e + 2
      OBVIOUS
    <3>1. buf_' = Drop(buf_, Min(eols) + 1)
      BY DEF rest
    <3> QED
      BY <1>1, <1>2, <2>6, <3>1, Consumed
  <2>8. Spelled'
    BY <1>1, <1>2 DEF Spelled
  <2>9. CASE size = 0
    <3>1. Len(reply.content) = Len(body)
      BY <2>5, <2>9 DEF LastChunkIsMeant
    <3>2. \/ state_' = "Done"
          \/ state_' = state_ /\ buf_' = rest
      BY <1>5, <2>2, <2>9 DEF EndTrailers, fail, NeedMoreBytes
    <3>3. CASE state_' = "Done"
      <4>1. body = reply.content
        BY <1>2, <3>1, SameSequence DEF Spelled
      <4> QED
        BY <1>1, <1>2, <3>3, <4>1 DEF MeantInv, WholeBody, CutsDoNotMatter, Misjudged
    <3>4. CASE state_' = state_ /\ buf_' = rest
      <4>1. AtTrailers'
        BY <1>1, <2>2, <2>5, <2>7, <2>9, <3>1, <3>4 DEF AtTrailers, LastChunkIsMeant
      <4> QED
        BY <1>1, <2>7, <2>8, <3>4, <4>1, StaysChunked
    <3> QED
      BY <3>2, <3>3, <3>4
  <2>10. CASE size # 0
    <3>1. /\ buf_' = rest /\ chunk_started_' = TRUE /\ chunk_remaining_' = size
          /\ state_' = state_ /\ running' = TRUE
      BY <1>1, <2>2, <2>10
    <3>2. ChunkIsMeant(reply, Place, e)
      BY <2>5, <2>10
    <3>3. InData'
      <4>1. SizeAt(reply.wire, Place, e) = size /\ Place' = e + 2
        BY <2>3, <2>7, <3>1
      <4>2. IsSound(reply) => e + 2 + size \in CrLf(reply.wire)
        <5> SUFFICES ASSUME IsSound(reply) PROVE e + 2 + size \in CrLf(reply.wire)
          OBVIOUS
        <5>1. ChunkIsSound(reply, Place, e)
          BY <1>1, <2>1, <2>4, SoundLine
        <5> QED
          BY <2>10, <4>1, <5>1 DEF ChunkIsSound
      <4> QED
        BY <1>1, <2>5, <3>1, <3>2, <4>1, <4>2 DEF InData, ChunkIsMeant
    <3> QED
      BY <1>1, <2>7, <2>8, <3>1, <3>3, StaysChunked
  <2> QED
    BY <2>9, <2>10
<1> QED
  BY <1>3, <1>4, <1>5

LEMMA DataFollows ==
  ASSUME ParserInv, MeantInv, chunk_data, UNCHANGED clientVars
  PROVE  MeantInv'
<1> DEFINE take == IF chunk_remaining_ < Len(buf_) THEN chunk_remaining_ ELSE Len(buf_)
           data == SubSeq(buf_, 1, take)
<1>1. /\ state_ = "BodyChunked" /\ chunk_started_ /\ state_' = "BodyChunked"
      /\ UNCHANGED <<reply, got, eof, chunk_started_>>
      /\ body' = body \o data
      /\ buf_' = Drop(buf_, take)
      /\ chunk_remaining_' = chunk_remaining_ - take
      /\ ~running' => chunk_remaining_' # 0
  BY DEF chunk_data, clientVars
<1>2. /\ ParserType /\ ReplyType /\ Unread /\ Spelled /\ InData
      /\ Len(buf_) \in Nat /\ Len(body) \in Nat /\ chunk_remaining_ \in Nat
      /\ Place \in Nat \ {0} /\ buf_ \in Strings /\ body \in Strings
      /\ Len(reply.wire) \in Nat /\ Len(reply.content) \in Nat
  BY <1>1, InChunked DEF AtChunk, AtTrailers
<1>3. /\ take \in 0..Len(buf_) /\ take <= chunk_remaining_ /\ take \in Nat
      /\ chunk_remaining_ - take # 0 => take = Len(buf_)
  BY <1>2
<1> HIDE DEF take
<1>4. Unread' /\ Place' = Place + take
  BY <1>1, <1>2, <1>3, Consumed
<1>5. data \in Strings /\ Len(data) = take /\ \A i \in 1..take : data[i] = buf_[i]
  BY <1>2, <1>3, Prefix
<1> HIDE DEF data
<1>6. /\ Len(body') = Len(body) + take
      /\ \A i \in 1..Len(body) : body'[i] = body[i]
      /\ \A i \in 1..take : body'[Len(body) + i] = data[i]
  BY <1>1, <1>2, <1>5, JoinedBytes
<1>7. Carries(reply, Place, Len(body), chunk_remaining_)
  BY <1>2 DEF InData
<1>8. ASSUME NEW i \in 1..take
      PROVE  /\ Len(body) + i <= Len(reply.content)
             /\ body'[Len(body) + i] = reply.content[Len(body) + i]
  <2>1. i \in 1..Len(buf_) /\ i \in 1..chunk_remaining_ /\ i \in Nat
    BY <1>2, <1>3
  <2>2. buf_[i] = reply.wire[Place + i - 1]
    BY <1>2, <2>1 DEF Unread
  <2>3. Place + i - 1 <= Len(reply.wire)
    BY <1>2, <2>1, Places
  <2>4. /\ Len(body) + i <= Len(reply.content)
        /\ reply.content[Len(body) + i] = reply.wire[Place + i - 1]
    BY <1>7, <2>1, <2>3 DEF Carries
  <2> QED
    BY <1>5, <1>6, <2>2, <2>4
<1>9. Spelled'
  <2>1. Len(body') <= Len(reply.content)
    <3>1. CASE take = 0
      BY <1>2, <1>6, <3>1 DEF Spelled
    <3>2. CASE take # 0
      <4>1. take \in 1..take
        BY <1>3, <3>2
      <4> QED
        BY <1>6, <1>8, <4>1
    <3> QED
      BY <3>1, <3>2
  <2>2. ASSUME NEW i \in 1..Len(body') PROVE body'[i] = reply.content[i]
    <3>1. CASE i <= Len(body)
      <4>1. i \in 1..Len(body)
        BY <1>2, <1>3, <1>6, <3>1
      <4> QED
        BY <1>2, <1>6, <4>1 DEF Spelled
    <3>2. CASE ~(i <= Len(body))
      <4> DEFINE k == i - Len(body)
      <4>1. k \in 1..take /\ Len(body) + k = i
        BY <1>2, <1>3, <1>6, <3>2
      <4> HIDE DEF k
      <4> QED
        BY <1>8, <4>1
    <3> QED
      BY <3>1, <3>2
  <2> QED
    BY <1>1, <2>1, <2>2 DEF Spelled
<1>10. InData'
  <2> DEFINE left == chunk_remaining_ - take
             end  == Place + chunk_remaining_
  <2>1. /\ left \in Nat /\ chunk_remaining_' = left /\ Place' + left = end
        /\ Len(body') + left = Len(body) + chunk_remaining_
    <3>1. /\ left \in Nat /\ (Place + take) + left = end
          /\ (Len(body) + take) + left = Len(body) + chunk_remaining_
      BY <1>2, <1>3
    <3>2. /\ chunk_remaining_' = left /\ Place' = Place + take
          /\ Len(body') = Len(body) + take
      BY <1>1, <1>4, <1>6
    <3> HIDE DEF left, end
    <3> QED
      BY <3>1, <3>2
  <2>2. ASSUME NEW k \in 1..left, Place' + k - 1 <= Len(reply.wire)
        PROVE  /\ Len(body') + k <= Len(reply.content)
               /\ reply.content[Len(body') + k] = reply.wire[Place' + k - 1]
    <3> DEFINE j == take + k
    <3>1. /\ j \in 1..chunk_remaining_ /\ Place + j - 1 = Place' + k - 1
          /\ Len(body) + j = Len(body') + k
      BY <1>2, <1>3, <1>4, <1>6, <2>1
    <3> HIDE DEF j
    <3> QED
      BY <1>7, <2>2, <3>1 DEF Carries
  <2>3. Carries(reply', Place', Len(body'), chunk_remaining_')
    BY <1>1, <2>1, <2>2 DEF Carries
  <2>4. end \in CrLf(reply.wire) =>
          /\ end + 2 \in DOMAIN reply.chunks
          /\ reply.chunks[end + 2] = Len(body) + chunk_remaining_
    BY <1>2 DEF InData
  <2>5. IsSound(reply) => end \in CrLf(reply.wire)
    BY <1>2 DEF InData
  <2>6. ~running' => Len(buf_') = 0
    <3>1. Len(buf_') = Len(buf_) - take
      BY <1>1, <1>2, <1>3, Dropped
    <3> QED
      BY <1>1, <1>2, <1>3, <3>1
  <2> HIDE DEF end, left
  <2> QED
    BY <1>1, <2>1, <2>3, <2>4, <2>5, <2>6 DEF InData
<1> QED
  BY <1>1, <1>4, <1>9, <1>10, StaysChunked

LEMMA EndFollows ==
  ASSUME ParserInv, MeantInv, chunk_end, UNCHANGED clientVars
  PROVE  MeantInv'
<1>1. /\ state_ = "BodyChunked" /\ chunk_started_ /\ chunk_remaining_ = 0
      /\ UNCHANGED <<reply, got, eof, body, chunk_remaining_>>
  BY DEF chunk_end, clientVars
<1>2. /\ ParserType /\ ReplyType /\ Unread /\ Spelled /\ InData
      /\ Len(buf_) \in Nat /\ Len(body) \in Nat /\ Place \in Nat \ {0}
      /\ reply.framing = "chunked"
  BY <1>1, InChunked DEF AtChunk, AtTrailers
<1>3. CASE state_' = "Error"
  <2>1. 1 < Len(buf_) /\ 1 \notin CrLf(buf_)
    <3>1. state_' # state_
      BY <1>1, <1>3
    <3>2. ~(Len(buf_) < 2) /\ 1 \notin CrLf(buf_)
      BY <3>1, Zenon DEF chunk_end
    <3> QED
      BY <1>2, <3>2
  <2>2. Place + 1 - 1 \notin CrLf(reply.wire)
    BY <1>2, <2>1, LineEnds
  <2>3. Place + chunk_remaining_ = Place + 1 - 1
    BY <1>1, <1>2
  <2>4. ~IsSound(reply)
    BY <1>2, <2>2, <2>3 DEF InData
  <2> QED
    BY <1>1, <1>3, <2>4, FailsRightly
<1>4. CASE Len(buf_) < 2
  <2>1. UNCHANGED <<state_, buf_, chunk_started_>>
    BY <1>4 DEF chunk_end, NeedMoreBytes
  <2> QED
    BY <1>1, <1>4, <2>1, WaitsInChunked
<1>5. CASE state_' # "Error" /\ ~(Len(buf_) < 2)
  <2>1. /\ 1 \in CrLf(buf_) /\ buf_' = Drop(buf_, 2) /\ chunk_started_' = FALSE
        /\ state_' = state_ /\ running' = TRUE
    BY <1>5 DEF chunk_end, fail
  <2>2. Place \in CrLf(reply.wire)
    <3>1. 1 < Len(buf_)
      BY <1>2, <1>5
    <3>2. Place + 1 - 1 \in CrLf(reply.wire)
      BY <1>2, <2>1, <3>1, LineEnds
    <3> QED
      BY <1>2, <3>2
  <2>3. Unread' /\ Place' = Place + 2
    <3>1. 2 \in 0..Len(buf_)
      BY <1>2, <1>5
    <3> QED
      BY <1>1, <1>2, <2>1, <3>1, Consumed
  <2>4. AtChunk'
    <3>1. Place + chunk_remaining_ = Place /\ Len(body) + chunk_remaining_ = Len(body)
      BY <1>1, <1>2
    <3>2. Place + 2 \in DOMAIN reply.chunks /\ reply.chunks[Place + 2] = Len(body)
      BY <1>2, <2>2, <3>1 DEF InData
    <3> QED
      BY <1>1, <2>1, <2>3, <3>2 DEF AtChunk
  <2>5. Spelled'
    BY <1>1, <1>2 DEF Spelled
  <2> QED
    BY <1>1, <2>1, <2>3, <2>4, <2>5, StaysChunked
<1> QED
  BY <1>3, <1>4, <1>5

LEMMA EofBodyFollows ==
  ASSUME MeantInv, body_until_eof, UNCHANGED clientVars
  PROVE  MeantInv'
<1>1. /\ state_ = "BodyEof" /\ state_' = "BodyEof"
      /\ UNCHANGED <<reply, got, buf_>>
  BY DEF body_until_eof, clientVars
<1>2. Unread /\ InEof
  BY <1>1 DEF MeantInv
<1>3. Unread' /\ InEof'
  BY <1>1, <1>2, StaysUnread DEF InEof
<1> QED
  BY <1>1, <1>2, <1>3 DEF MeantInv, CutsDoNotMatter, Misjudged

----------------------------------------------------------------------------
(* What arrives, and the end of the connection *)

\* What arrives is buffered behind what is there.
LEMMA ReceiveExtends ==
  ASSUME HttpInv, Unread, NEW n \in 1..RecvSize, Receive(n)
  PROVE  Unread' /\ Place' = Place /\ Len(buf_') = Len(buf_) + n
<1> DEFINE piece == SubSeq(reply.wire, got + 1, got + n)
<1>1. /\ got + n <= Len(reply.wire) /\ got' = got + n /\ UNCHANGED <<reply, eof>>
      /\ ~running /\ state_ \notin {"Done", "Error"}
      /\ buf_' = buf_ \o piece
      /\ UNCHANGED <<status, body, content_length_, chunk_started_, chunk_remaining_>>
      /\ \/ TooLong(buf_') /\ state_' = "Error"
         \/ state_' = state_ /\ running' = TRUE
  BY DEF Receive, feed, fail
<1>2. /\ ParserType /\ ReplyType /\ Unread
      /\ Len(buf_) \in Nat /\ got \in Nat /\ n \in Nat \ {0} /\ n <= RecvSize
      /\ Place \in Nat \ {0} /\ Place + Len(buf_) = got + 1
      /\ Len(reply.wire) \in Nat /\ buf_ \in Strings /\ reply.wire \in Strings
  <2>1. ParserType /\ ReplyType /\ Unread
    BY <1>1 DEF HttpInv, ParserInv
  <2> QED
    BY <2>1, Places, Limits DEF ParserType, ReplyType
<1>3. piece \in Strings /\ Len(piece) = n /\ \A i \in 1..n : piece[i] = reply.wire[got + i]
  <2>1. n \in Nat /\ got \in Nat /\ got + n <= Len(reply.wire) /\ reply.wire \in Strings
    BY <1>1, <1>2
  <2> QED
    BY <2>1, Piece, PieceBytes
<1> HIDE DEF piece
<1>4. /\ Len(buf_') = Len(buf_) + n
      /\ \A i \in 1..Len(buf_) : buf_'[i] = buf_[i]
      /\ \A i \in 1..n : buf_'[Len(buf_) + i] = piece[i]
  BY <1>1, <1>2, <1>3, JoinedBytes
<1>5. Place' = Place
  BY <1>1, <1>2, <1>4 DEF Place
<1>6. Unread'
  <2>1. Len(buf_') <= got'
    BY <1>1, <1>2, <1>4
  <2>2. ASSUME NEW i \in 1..Len(buf_') PROVE buf_'[i] = reply.wire[Place + i - 1]
    <3>1. CASE i <= Len(buf_)
      <4>1. i \in 1..Len(buf_)
        BY <1>2, <1>4, <3>1
      <4> QED
        BY <1>2, <1>4, <4>1 DEF Unread
    <3>2. CASE ~(i <= Len(buf_))
      <4> DEFINE k == i - Len(buf_)
      <4>1. k \in 1..n /\ Len(buf_) + k = i /\ got + k = Place + i - 1
        BY <1>2, <1>4, <3>2
      <4> HIDE DEF k
      <4> QED
        BY <1>3, <1>4, <4>1
    <3> QED
      BY <3>1, <3>2
  <2> QED
    BY <1>1, <1>5, <2>1, <2>2 DEF Unread
<1> QED
  BY <1>4, <1>5, <1>6

LEMMA ReceiveFollows ==
  ASSUME HttpInv, MeantInv, NEW n \in 1..RecvSize, Receive(n)
  PROVE  MeantInv'
<1>1. /\ got + n <= Len(reply.wire) /\ got' = got + n /\ UNCHANGED <<reply, eof>>
      /\ ~running /\ state_ \notin {"Done", "Error"}
      /\ UNCHANGED <<status, body, content_length_, chunk_started_, chunk_remaining_>>
      /\ \/ TooLong(buf_') /\ state_' = "Error"
         \/ state_' = state_ /\ running' = TRUE
  BY DEF Receive, feed, fail
<1>2. /\ ParserType /\ ReplyType /\ Unread
      /\ Len(buf_) \in Nat /\ got \in Nat /\ n \in Nat \ {0} /\ n <= RecvSize
      /\ Place \in Nat \ {0} /\ Place + Len(buf_) = got + 1
      /\ Len(reply.wire) \in Nat /\ buf_ \in Strings /\ reply.wire \in Strings
  <2>1. ParserType /\ ReplyType /\ Unread
    BY <1>1 DEF HttpInv, ParserInv, MeantInv
  <2> QED
    BY <2>1, Places, Limits DEF ParserType, ReplyType
<1>4. Len(buf_') = Len(buf_) + n /\ Place' = Place /\ Unread'
  BY <1>2, ReceiveExtends
<1>7. /\ Len(buf_') \in Nat /\ got' \in Nat /\ Place + Len(buf_') = got' + 1
      /\ got' <= Len(reply.wire) /\ got' <= got + RecvSize
  <2>1. got' = got + n /\ got + n <= Len(reply.wire) /\ Len(buf_') = Len(buf_) + n
    BY <1>1, <1>4
  <2>2. /\ Len(buf_) \in Nat /\ got \in Nat /\ n \in Nat /\ n <= RecvSize
        /\ Place \in Nat /\ Place + Len(buf_) = got + 1
    BY <1>2
  <2>3. RecvSize \in Nat
    BY Limits
  <2> QED
    BY <2>1, <2>2, <2>3
<1>8. CASE state_' # "Error"
  <2>1. state_' = state_ /\ running' = TRUE
    BY <1>1, <1>8
  <2>2. state_ = "StatusLine" => InHead'
    BY <1>1, <1>4, <2>1 DEF MeantInv, InHead
  <2>3. state_ = "BodyContentLength" => InLength'
    BY <1>1, <1>4, <2>1 DEF MeantInv, InLength
  <2>4. state_ = "BodyEof" => InEof'
    BY <1>1, <1>4 DEF MeantInv, InEof
  <2>5. state_ = "BodyChunked" =>
          reply'.framing = "chunked" /\ Spelled' /\ (InData' \/ AtChunk' \/ AtTrailers')
    <3> SUFFICES ASSUME state_ = "BodyChunked"
                 PROVE  reply'.framing = "chunked" /\ Spelled' /\ (InData' \/ AtChunk' \/ AtTrailers')
      OBVIOUS
    <3>1. reply.framing = "chunked" /\ Spelled /\ (InData \/ AtChunk \/ AtTrailers)
      BY DEF MeantInv
    <3>2. Spelled'
      BY <1>1, <3>1 DEF Spelled
    <3>3. InData' \/ AtChunk' \/ AtTrailers'
      BY <1>1, <1>4, <2>1, <3>1 DEF InData, AtChunk, AtTrailers
    <3> QED
      BY <1>1, <3>1, <3>2, <3>3
  <2> QED
    BY <1>1, <1>4, <1>8, <2>1, <2>2, <2>3, <2>4, <2>5
       DEF MeantInv, CutsDoNotMatter, Misjudged
<1>9. CASE state_' = "Error"
  <2>1. CASE TooLong(buf_')
    <3>1. ASSUME IsSound(reply) PROVE FALSE
      <4>1. /\ reply.head \in Nat
            /\ reply.content \in Strings /\ Len(reply.content) \in Nat
        BY <1>2, <3>1, ReplyIsMeant DEF HeadIsMeant, Strings
      <4>2. CASE state_ = "StatusLine" /\ Len(buf_') > max_header_bytes
        <5>1. Place = 1 /\ got < reply.head
          BY <1>1, <4>2 DEF MeantInv, InHead
        <5>2. Len(buf_') = got' /\ Len(buf_') <= Len(reply.wire)
          BY <1>7, <5>1
        <5>3. Len(buf_') <= reply.head - 1 + RecvSize
          <6>1. got \in Nat /\ RecvSize \in Nat
            BY <1>2, Limits
          <6> QED
            BY <1>7, <4>1, <5>1, <5>2, <6>1
        <5>4. \/ Len(reply.wire) <= max_header_bytes
              \/ reply.head - 1 + RecvSize <= max_header_bytes
          BY <3>1 DEF IsSound
        <5>5. max_header_bytes \in Nat /\ RecvSize \in Nat
          BY Limits
        <5> QED
          BY <1>2, <1>7, <4>1, <4>2, <5>2, <5>3, <5>4, <5>5
      <4>3. CASE state_ = "BodyEof" /\ Len(buf_') > max_body_bytes
        <5>1. reply.framing = "eof" /\ Place = reply.head + 1
          BY <1>1, <4>3 DEF MeantInv, InEof
        <5>2. /\ Len(reply.content) <= max_body_bytes
              /\ Len(reply.wire) = reply.head + Len(reply.content)
          BY <3>1, <5>1 DEF IsSound
        <5>3. Len(buf_') <= Len(reply.content)
          <6>1. Len(buf_') = got' - reply.head
            BY <1>7, <4>1, <5>1
          <6> QED
            BY <1>7, <4>1, <5>2, <6>1
        <5> QED
          BY <1>7, <4>1, <4>3, <5>2, <5>3, Limits
      <4> QED
        BY <2>1, <4>2, <4>3 DEF TooLong
    <3> QED
      BY <1>1, <1>9, <3>1, FailsRightly
  <2> QED
    BY <1>1, <1>9, <2>1
<1> QED
  BY <1>8, <1>9

\* Between two receives, more of a sound chunked reply is to come unless all
\* of its content has been read.
LEMMA ChunksRunOut ==
  ASSUME ParserInv, MeantInv, state_ = "BodyChunked", ~running, IsSound(reply)
  PROVE  reply.framing = "chunked" /\ (got < Len(reply.wire) \/ body = reply.content)
<1>1. /\ ParserType /\ ReplyType /\ Unread /\ Spelled /\ reply.framing = "chunked"
      /\ InData \/ AtChunk \/ AtTrailers
      /\ Len(buf_) \in Nat /\ chunk_remaining_ \in Nat /\ Place \in Nat \ {0}
      /\ body \in Strings /\ reply.content \in Strings /\ Len(reply.wire) \in Nat
  BY InChunked
<1>2. Place + Len(buf_) = got + 1 /\ got \in Nat
  BY <1>1, Places
<1>3. CASE InData
  <2>1. /\ Place + chunk_remaining_ \in CrLf(reply.wire)
        /\ Len(buf_) < 2 /\ (chunk_remaining_ > 0 => Len(buf_) = 0)
    BY <1>3 DEF InData
  <2>2. Place + chunk_remaining_ <= Len(reply.wire) - 1
    BY <1>1, <2>1 DEF CrLf
  <2> QED
    BY <1>1, <1>2, <2>1, <2>2
<1>4. CASE AtChunk
  <2>1. PICK e \in CrLf(reply.wire) : ChunkIsSound(reply, Place, e)
    BY <1>4, SoundLine
  <2>2. e \in Nat /\ Place <= e /\ e <= Len(reply.wire) - 1
    BY <1>1, <2>1 DEF ChunkIsSound, IsSize, IsLine, CrLf
  <2> DEFINE i == e - Place + 1
  <2>3. i \in Nat \ {0} /\ Place + i - 1 = e
    BY <1>1, <2>2
  <2>4. CrLf(buf_) = {}
    BY <1>4 DEF AtChunk
  <2> HIDE DEF i
  <2>5. ~(i < Len(buf_))
    BY <1>1, <2>1, <2>3, <2>4, LineEnds
  <2>6. got < Len(reply.wire)
    BY <1>1, <1>2, <2>2, <2>3, <2>5
  <2> QED
    BY <1>1, <2>6
<1>5. CASE AtTrailers
  BY <1>1, <1>5, SameSequence DEF AtTrailers, Spelled
<1> QED
  BY <1>1, <1>3, <1>4, <1>5

LEMMA ReceiveEofFollows ==
  ASSUME HttpInv, MeantInv, ReceiveEof
  PROVE  MeantInv'
<1>1. /\ ~running /\ state_ \notin {"Done", "Error"}
      /\ eof' = TRUE /\ UNCHANGED <<reply, got>>
      /\ \/ /\ state_ = "BodyEof" /\ allow_eof_termination_
            /\ state_' = "Done" /\ body' = buf_
         \/ /\ ~(state_ = "BodyEof" /\ allow_eof_termination_)
            /\ state_' = "Error" /\ UNCHANGED body
  BY DEF ReceiveEof, feed_eof
<1>2. /\ ParserType /\ ReplyType /\ Unread
      /\ Len(buf_) \in Nat /\ got \in Nat
      /\ Place \in Nat \ {0} /\ Place + Len(buf_) = got + 1
      /\ Len(reply.wire) \in Nat /\ got <= Len(reply.wire)
      /\ buf_ \in Strings
      /\ state_ \in {"StatusLine", "BodyContentLength", "BodyChunked", "BodyEof"}
      /\ HeadIsMeant(reply) /\ reply.head \in Nat
      /\ reply.content \in Strings /\ Len(reply.content) \in Nat
  <2>1. ParserType /\ ReplyType /\ Unread
    BY <1>1 DEF HttpInv, ParserInv, MeantInv
  <2>2. state_ \in {"StatusLine", "BodyContentLength", "BodyChunked", "BodyEof"}
    BY <1>1, <2>1 DEF ParserType
  <2>3. /\ HeadIsMeant(reply) /\ reply.head \in Nat
        /\ reply.content \in Strings /\ Len(reply.content) \in Nat
    BY <2>1, Places, ReplyIsMeant DEF HeadIsMeant, Strings
  <2> QED
    BY <2>1, <2>2, <2>3, Places DEF ParserType
<1>3. CASE state_' = "Done"
  <2>1. state_ = "BodyEof" /\ body' = buf_
    BY <1>1, <1>3
  <2>2. reply.framing = "eof" /\ Place = reply.head + 1
    BY <2>1 DEF MeantInv, InEof
  <2>3. buf_ = SubSeq(reply.wire, reply.head + 1, got)
    <3>1. SubSeq(buf_, 1, Len(buf_)) = SubSeq(reply.wire, Place, Place + Len(buf_) - 1)
      <4>1. Len(buf_) \in 0..Len(buf_)
        BY <1>2
      <4> QED
        BY <1>2, <4>1, SameBytes
    <3>2. SubSeq(buf_, 1, Len(buf_)) = buf_
      <4>1. Len(buf_) \in 0..Len(buf_)
        BY <1>2
      <4>2. /\ SubSeq(buf_, 1, Len(buf_)) \in Strings
            /\ Len(SubSeq(buf_, 1, Len(buf_))) = Len(buf_)
            /\ \A i \in 1..Len(buf_) : SubSeq(buf_, 1, Len(buf_))[i] = buf_[i]
        BY <1>2, <4>1, Prefix
      <4> QED
        BY <1>2, <4>2, SameSequence
    <3>3. Place + Len(buf_) - 1 = got
      BY <1>2
    <3> QED
      BY <2>2, <3>1, <3>2, <3>3
  <2> QED
    BY <1>1, <1>3, <2>1, <2>2, <2>3 DEF MeantInv, WholeBody, CutsDoNotMatter, Misjudged
<1>4. CASE state_' = "Error"
  <2>0. UNCHANGED body /\ (got < Len(reply.wire) => CutShort')
    <3>1. UNCHANGED body
      BY <1>1, <1>4
    <3>2. eof' = TRUE /\ UNCHANGED <<reply, got>>
      BY <1>1
    <3> QED
      BY <3>1, <3>2 DEF CutShort
  <2>1. ASSUME IsSound(reply)
        PROVE  CutShort' \/ (reply.framing = "chunked" /\ body' = reply.content)
    <3>2. CASE state_ = "BodyChunked"
      <4>1. reply.framing = "chunked" /\ (got < Len(reply.wire) \/ body = reply.content)
        BY <1>1, <2>1, <3>2, ChunksRunOut DEF HttpInv
      <4> QED
        BY <2>0, <4>1
    <3>3. CASE state_ = "StatusLine"
      <4>1. got < reply.head /\ reply.head <= Len(reply.wire)
        BY <1>1, <1>2, <3>3 DEF MeantInv, InHead, HeadIsMeant
      <4> QED
        BY <1>2, <2>0, <4>1
    <3>4. CASE state_ = "BodyContentLength"
      <4>1. /\ reply.framing = "length" /\ Place = reply.head + 1
            /\ Len(buf_) < Len(reply.content)
        BY <1>1, <3>4 DEF MeantInv, InLength
      <4>2. Len(reply.wire) = reply.head + Len(reply.content)
        BY <2>1, <4>1 DEF IsSound
      <4>3. got < Len(reply.wire)
        BY <1>2, <4>1, <4>2
      <4> QED
        BY <2>0, <4>3
    <3>5. CASE state_ = "BodyEof"
      <4>1. reply.framing = "eof"
        BY <3>5 DEF MeantInv, InEof
      <4> QED
        BY <1>1, <1>4, <2>1, <3>5, <4>1 DEF IsSound
    <3> QED
      BY <1>2, <3>2, <3>3, <3>4, <3>5
  <2> QED
    BY <1>1, <1>4, <2>1, FailsRightly
<1> QED
  BY <1>1, <1>3, <1>4

----------------------------------------------------------------------------
(* The stream of an exchange *)

LEMMA SentIs ==
  ASSUME NEW r \in Replies
  PROVE  Sent(r) \in Seq(STRING)
<1>1. r.wire \in Seq(STRING) /\ r.content \in Seq(STRING) /\ r.head \in 2..Len(r.wire)
  BY ClientAssumption, RepliesAssumption DEF HeadIsMeant
<1>2. SubSeq(r.wire, r.head + 1, Len(r.wire)) \in Seq(STRING)
  BY <1>1
<1> QED
  BY <1>1, <1>2 DEF Sent

\* A listing begins with an array, and no array with a hex digit.
LEMMA ListingsBegin ==
  ASSUME NEW r \in Replies, IsListing(r), Len(Sent(r)) > 0
  PROVE  Sent(r)[1] \notin DOMAIN HexOf
<1> DEFINE t == Sent(r)
<1>1. t \in Seq(STRING)
  BY SentIs
<1>2. PICK v \in Meaning(t) : "arr" \in DOMAIN v
  BY Zenon DEF IsListing, Is
<1> HIDE DEF t
<1>3. PICK k : k \in Marks(t, 1, OpenBracket)
  BY <1>1, <1>2, ArrayBegins
<1>4. /\ k \in 1..(Len(t) + 1) /\ \A m \in 1..(k - 1) : t[m] \in Whitespace
      /\ t[k] = OpenBracket
  BY <1>3, Zenon DEF Marks, Gaps, InRun, Has
<1>5. t[1] = OpenBracket \/ t[1] \in Whitespace
  BY <1>1, <1>4
<1>6. OpenBracket \notin DOMAIN HexOf /\ Whitespace \cap DOMAIN HexOf = {}
  BY ListingsAssumption, Zenon DEF OpenBracket
<1> QED
  BY <1>5, <1>6 DEF t

\* A reply that may be misread is unframed and begins its body at place 3.
LEMMA MisreadReply ==
  ASSUME ReplyType, MayBeMisread(reply)
  PROVE  /\ reply.framing = "eof" /\ reply.head = 2 /\ 2 <= Len(reply.wire)
         /\ Len(reply.wire) \in Nat /\ reply.wire \in Strings
         /\ Sent(reply) = SubSeq(reply.wire, reply.head + 1, Len(reply.wire))
<1>1. HeadIsMeant(reply) /\ reply.head = 2 /\ reply.wire \in Strings
  BY ReplyIsMeant DEF MayBeMisread, ReplyType
<1>2. DOMAIN Fields(reply) = {}
  BY <1>1 DEF Fields, FieldLines
<1>3. Lines(reply, "chunked") = {} /\ Lines(reply, "content-length") = {}
  BY <1>2 DEF Lines
<1>4. reply.framing = "eof"
  BY <1>1, <1>3 DEF HeadIsMeant
<1> QED
  BY <1>1, <1>4 DEF HeadIsMeant, Sent, Strings

\* The first line of a listing's body is no chunk size.
LEMMA NoChunkBegins ==
  ASSUME ParserType, ReplyType, MayBeMisread(reply), IsListing(reply),
         Unread, Place = reply.head + 1, CrLf(buf_) # {}
  PROVE  ~GoodSize(SizeDigits(SubSeq(buf_, 1, Min(CrLf(buf_)) - 1)))
<1> DEFINE m == Min(CrLf(buf_))
           line == SubSeq(buf_, 1, m - 1)
<1>1. m \in 1..(Len(buf_) - 1) /\ buf_ \in Strings /\ Len(buf_) \in Nat
  BY FirstLine, Places DEF ParserType
<1>2. m - 1 \in 0..Len(buf_)
  BY <1>1
<1> HIDE DEF m
<1>3. line \in Strings /\ Len(line) = m - 1 /\ \A i \in 1..(m - 1) : line[i] = buf_[i]
  BY <1>1, <1>2, Prefix
<1>4. buf_[1] \notin DOMAIN HexOf
  <2>1. /\ reply.head = 2 /\ 2 <= Len(reply.wire) /\ Len(reply.wire) \in Nat
        /\ reply.wire \in Strings
        /\ Sent(reply) = SubSeq(reply.wire, 2 + 1, Len(reply.wire))
    BY MisreadReply
  <2>2. Place = 3 /\ 1 \in 1..Len(buf_) /\ Place + Len(buf_) = got + 1 /\ got <= Len(reply.wire)
        /\ got \in Nat
    BY <1>1, <2>1, Places
  <2>3. Len(reply.wire) - 2 \in Nat /\ Len(reply.wire) - 2 > 0
    BY <1>1, <2>1, <2>2
  <2> DEFINE k == Len(reply.wire) - 2
  <2>4. 2 + k = Len(reply.wire) /\ k \in Nat /\ k > 0 /\ 2 \in Nat /\ 2 + k <= Len(reply.wire)
    BY <2>1, <2>3
  <2> HIDE DEF k
  <2>5. Sent(reply) = SubSeq(reply.wire, 2 + 1, 2 + k)
    BY <2>1, <2>4
  <2>6. Len(Sent(reply)) = k /\ Sent(reply)[1] = reply.wire[2 + 1]
    BY <2>1, <2>4, <2>5, Piece
  <2>7. Sent(reply)[1] \notin DOMAIN HexOf
    BY <2>4, <2>6, ListingsBegin DEF ReplyType
  <2>8. buf_[1] = reply.wire[3]
    <3>1. buf_[1] = reply.wire[Place + 1 - 1]
      BY <2>2 DEF Unread
    <3> QED
      BY <2>2, <3>1
  <2> QED
    BY <2>6, <2>7, <2>8
<1> SUFFICES ASSUME GoodSize(SizeDigits(line)) PROVE FALSE
  BY DEF m
<1> DEFINE digits == SizeDigits(line)
           semis  == {i \in DOMAIN line : line[i] = ";"}
<1>5. Len(digits) > 0 /\ \A i \in DOMAIN digits : digits[i] \in DOMAIN HexOf
  <2>1. Len(digits) \in 1..MaxHexDigits
    BY DEF GoodSize
  <2>2. MaxHexDigits \in Nat
    BY LimitsAssumption
  <2> QED
    BY <2>1, <2>2 DEF GoodSize, IsHex
<1> HIDE DEF line
<1>6. \E n \in 0..Len(line) : digits = SubSeq(line, 1, n)
  <2>1. Len(line) \in Nat /\ DOMAIN line = 1..Len(line)
    BY <1>3 DEF Strings
  <2>2. CASE semis = {}
    <3>1. digits = line
      BY <2>2 DEF SizeDigits
    <3>2. SubSeq(line, 1, Len(line)) = line /\ Len(line) \in 0..Len(line)
      BY <1>3, <2>1 DEF Strings
    <3> HIDE DEF digits
    <3> QED
      BY <3>1, <3>2
  <2>3. CASE semis # {}
    <3>1. semis \subseteq 1..Len(line) /\ semis \subseteq Nat
      <4>1. semis \subseteq DOMAIN line
        OBVIOUS
      <4> HIDE DEF semis
      <4> QED BY <2>1, <4>1
    <3>2. Min(semis) \in semis
      <4> HIDE DEF semis
      <4> QED BY <2>3, <3>1, MinExists
    <3>3. Min(semis) - 1 \in 0..Len(line)
      <4>1. Min(semis) \in 1..Len(line)
        BY <3>1, <3>2
      <4> HIDE DEF semis
      <4> QED BY <2>1, <4>1
    <3>4. digits = SubSeq(line, 1, Min(semis) - 1)
      BY <2>3 DEF SizeDigits
    <3> QED
      BY <3>3, <3>4
  <2> QED
    BY <2>2, <2>3
<1>7. PICK n \in 0..Len(line) : digits = SubSeq(line, 1, n)
  BY <1>6
<1>8. digits \in Strings /\ Len(digits) = n /\ \A i \in 1..n : digits[i] = line[i]
  BY <1>3, <1>7, Prefix
<1> HIDE DEF digits
<1>9. Len(line) \in Nat /\ n \in Nat /\ n > 0 /\ n <= Len(line)
  BY <1>3, <1>5, <1>7, <1>8 DEF Strings
<1>10. 1 \in DOMAIN digits /\ digits[1] = line[1] /\ line[1] = buf_[1]
  <2>1. 1 \in 1..n /\ 1 \in 1..(m - 1)
    BY <1>1, <1>3, <1>9
  <2> QED
    BY <1>3, <1>8, <2>1 DEF Strings
<1> QED
  BY <1>4, <1>5, <1>10

\* What is taken from the start of the body is a beginning of it.
LEMMA TakenFromTheStart ==
  ASSUME ParserType, ReplyType, MayBeMisread(reply), Unread, Place = reply.head + 1,
         UNCHANGED reply, NEW n \in 0..Len(buf_), body' = SubSeq(buf_, 1, n)
  PROVE  /\ Len(body') <= Len(reply'.wire) - reply'.head
         /\ body' = SubSeq(reply'.wire, reply'.head + 1, reply'.head + Len(body'))
<1>1. /\ Len(buf_) \in Nat /\ got \in Nat /\ Place + Len(buf_) = got + 1
      /\ got <= Len(reply.wire) /\ Len(reply.wire) \in Nat /\ buf_ \in Strings
  BY Places DEF ParserType
<1>2. Len(body') = n
  BY <1>1, Prefix
<1>3. reply.head = 2
  BY MisreadReply
<1>4. body' = SubSeq(reply.wire, Place, Place + n - 1)
  BY SameBytes
<1>5. Place = 3 /\ Place + n - 1 = 2 + n /\ n <= Len(reply.wire) - 2
  BY <1>1, <1>3
<1> QED
  BY <1>2, <1>3, <1>4, <1>5

LEMMA MisreadTurns ==
  ASSUME ParserInv, MayBeMisread(reply), MisreadInv, ParserStep, UNCHANGED clientVars
  PROVE  MisreadInv'
<1>0. /\ ParserType /\ ReplyType /\ StateInv /\ UNCHANGED <<reply, got>>
      /\ reply.head = 2 /\ reply.framing = "eof"
      /\ Len(buf_) \in Nat
  BY MisreadReply, Lengths DEF ParserInv, clientVars
<1>1. CASE parse_head
  <2> DEFINE blanks == {i \in DOMAIN buf_ : buf_[i] = "BLANK"}
  <2>1. /\ Unread /\ InHead /\ Place = 1 /\ ~chunk_started_ /\ UNCHANGED chunk_started_
        /\ state_ = "StatusLine" /\ running /\ UNCHANGED body
    BY <1>1 DEF parse_head, MisreadInv, InHead
  <2>2. CASE blanks = {}
    <3>1. UNCHANGED <<state_, buf_>> /\ running' = FALSE
      BY <1>1, <2>2 DEF parse_head, NeedMoreBytes
    <3>2. got < reply.head
      BY <2>1, <2>2, HeadIsFound
    <3>3. Unread' /\ InHead'
      BY <1>0, <2>1, <3>1, <3>2, StaysUnread DEF InHead
    <3> QED
      BY <2>1, <3>1, <3>3 DEF MisreadInv
  <2>3. CASE blanks # {}
    <3>1. Min(blanks) = reply.head /\ reply.head \in 1..Len(buf_)
      BY <2>1, <2>3, HeadIsFound
    <3>2. CASE state_' = "Error"
      BY <3>2 DEF MisreadInv
    <3>3. CASE state_' # "Error"
      <4>1. /\ buf_' = Drop(buf_, Min(blanks))
            /\ state_' \in {"BodyContentLength", "BodyChunked", "BodyEof"}
        <5> HIDE DEF blanks
        <5> QED BY <1>1, <2>3, <3>3 DEF parse_head, fail, blanks
      <4> HIDE DEF blanks
      <4>2. reply.head \in 0..Len(buf_) /\ buf_' = Drop(buf_, reply.head)
        BY <1>0, <3>1, <4>1
      <4>3. Unread' /\ Place' = Place + reply.head
        BY <1>0, <2>1, <4>2, Consumed
      <4>4. Unread' /\ Place' = reply'.head + 1 /\ ~chunk_started_'
        BY <1>0, <2>1, <4>3
      <4>5. state_' \notin {"StatusLine", "Done"}
        BY <4>1
      <4> QED
        BY <4>4, <4>5 DEF MisreadInv
    <3> QED
      BY <3>2, <3>3
  <2> QED
    BY <2>2, <2>3
<1>2. CASE body_step_content_length
  <2>1. /\ Unread /\ Place = reply.head + 1 /\ state_ = "BodyContentLength"
        /\ content_length_ \in Nat
    BY <1>0, <1>2 DEF body_step_content_length, MisreadInv, ParserType
  <2>2. CASE Len(buf_) < content_length_
    <3>1. UNCHANGED <<state_, buf_>>
      BY <1>2, <2>2 DEF body_step_content_length, NeedMoreBytes
    <3>2. Unread' /\ Place' = Place
      BY <1>0, <2>1, <3>1, StaysUnread
    <3> QED
      BY <1>0, <2>1, <3>1, <3>2 DEF MisreadInv
  <2>3. CASE ~(Len(buf_) < content_length_)
    <3>1. body' = SubSeq(buf_, 1, content_length_) /\ state_' \in {"Done", "Error"}
      BY <1>2, <2>3 DEF body_step_content_length, fail
    <3>2. content_length_ \in 0..Len(buf_)
      BY <1>0, <2>1, <2>3
    <3>3. /\ Len(body') <= Len(reply'.wire) - reply'.head
          /\ body' = SubSeq(reply'.wire, reply'.head + 1, reply'.head + Len(body'))
      BY <1>0, <2>1, <3>1, <3>2, TakenFromTheStart
    <3> QED
      BY <3>1, <3>3 DEF MisreadInv
  <2> QED
    BY <2>2, <2>3
<1>3. CASE chunk_size_line \/ chunk_data \/ chunk_end
  <2>1. state_ = "BodyChunked" /\ state_' \in {"BodyChunked", "Done", "Error"}
    <3>1. CASE chunk_size_line
      BY <3>1 DEF chunk_size_line, EndTrailers, fail, NeedMoreBytes
    <3>2. CASE chunk_data \/ chunk_end
      BY <3>2 DEF chunk_data, chunk_end, fail, NeedMoreBytes
    <3> QED
      BY <1>3, <3>1, <3>2
  <2>2. CASE ~IsListing(reply)
    BY <1>0, <2>1, <2>2 DEF MisreadInv
  <2>3. CASE IsListing(reply)
    <3>1. Unread /\ Place = reply.head + 1 /\ ~chunk_started_
      BY <2>1, <2>3 DEF MisreadInv
    <3>2. chunk_size_line
      BY <1>3, <3>1 DEF chunk_data, chunk_end
    <3>3. CASE CrLf(buf_) = {}
      <4>1. /\ UNCHANGED <<buf_, chunk_started_>>
            /\ state_' = "Error" \/ state_' = "BodyChunked"
        BY <2>1, <3>2, <3>3 DEF chunk_size_line, fail, NeedMoreBytes
      <4>2. Unread' /\ Place' = Place
        BY <1>0, <3>1, <4>1, StaysUnread
      <4> QED
        BY <1>0, <3>1, <4>1, <4>2 DEF MisreadInv
    <3>4. CASE CrLf(buf_) # {}
      <4>1. ~GoodSize(SizeDigits(SubSeq(buf_, 1, Min(CrLf(buf_)) - 1)))
        BY <1>0, <2>3, <3>1, <3>4, NoChunkBegins
      <4>2. state_' = "Error"
        BY <3>2, <3>4, <4>1 DEF chunk_size_line, fail
      <4> QED
        BY <4>2 DEF MisreadInv
    <3> QED
      BY <3>3, <3>4
  <2> QED
    BY <2>2, <2>3
<1>4. CASE body_until_eof
  <2>1. Unread /\ Place = reply.head + 1 /\ state_ = "BodyEof" /\ UNCHANGED <<state_, buf_>>
    BY <1>4 DEF body_until_eof, MisreadInv
  <2>2. Unread' /\ Place' = Place
    BY <1>0, <2>1, StaysUnread
  <2> QED
    BY <1>0, <2>1, <2>2 DEF MisreadInv
<1> QED
  BY <1>1, <1>2, <1>3, <1>4 DEF ParserStep

LEMMA MisreadReceives ==
  ASSUME HttpInv, MayBeMisread(reply), MisreadInv, NEW n \in 1..RecvSize, Receive(n)
  PROVE  MisreadInv'
<1>1. /\ UNCHANGED <<reply, body, chunk_started_>> /\ state_ \notin {"Done", "Error"}
      /\ \/ state_' = "Error"
         \/ state_' = state_ /\ running' = TRUE
  BY DEF Receive, feed, fail
<1>2. Unread => Unread' /\ Place' = Place
  BY ReceiveExtends
<1>3. InHead /\ Place' = Place /\ running' = TRUE => InHead'
  BY <1>1 DEF InHead
<1> QED
  BY <1>1, <1>2, <1>3 DEF MisreadInv

LEMMA MisreadEnds ==
  ASSUME HttpInv, MayBeMisread(reply), MisreadInv, ReceiveEof
  PROVE  MisreadInv'
<1>1. /\ UNCHANGED reply
      /\ \/ state_ = "BodyEof" /\ state_' = "Done" /\ body' = buf_
         \/ state_' = "Error"
  BY DEF ReceiveEof, feed_eof
<1>2. CASE state_' = "Error"
  BY <1>2 DEF MisreadInv
<1>3. CASE state_ = "BodyEof" /\ state_' = "Done" /\ body' = buf_
  <2>1. ParserType /\ ReplyType /\ Unread /\ Place = reply.head + 1
    BY <1>3 DEF HttpInv, ParserInv, MisreadInv
  <2>2. Len(buf_) \in 0..Len(buf_) /\ buf_ = SubSeq(buf_, 1, Len(buf_))
    BY <2>1 DEF ParserType, Strings
  <2>3. /\ Len(body') <= Len(reply'.wire) - reply'.head
        /\ body' = SubSeq(reply'.wire, reply'.head + 1, reply'.head + Len(body'))
    BY <1>1, <1>3, <2>1, <2>2, TakenFromTheStart
  <2> QED
    BY <1>3, <2>3 DEF MisreadInv
<1> QED
  BY <1>1, <1>2, <1>3

LEMMA StreamInit == HttpInit => StreamInv
<1> SUFFICES ASSUME HttpInit PROVE StreamInv
  OBVIOUS
<1>1. /\ state_ = "StatusLine" /\ buf_ = <<>> /\ body = <<>> /\ chunk_started_ = FALSE
      /\ reply \in Replies /\ got = 0
  BY DEF HttpInit, ParserInit
<1>2. Len(buf_) = 0 /\ Len(body) = 0
  BY <1>1
<1>3. reply.head \in Nat /\ reply.head > 0
  <2>1. HeadIsMeant(reply) /\ reply.wire \in Seq(STRING)
    BY <1>1, RepliesAssumption, ClientAssumption
  <2> QED
    BY <2>1 DEF HeadIsMeant
<1>4. Unread /\ InHead
  BY <1>1, <1>2, <1>3 DEF Unread, InHead, Place
<1>5. MeantInv /\ MisreadInv
  BY <1>1, <1>4 DEF MeantInv, MisreadInv, CutsDoNotMatter, Misjudged
<1> QED
  BY <1>5 DEF StreamInv

LEMMA StreamUntouched ==
  ASSUME StreamInv, UNCHANGED <<parserVars, reply, got, eof>>
  PROVE  StreamInv'
<1>1. MeantInv => MeantInv'
  BY DEF MeantInv, parserVars, Unread, Place, Spelled, InHead, InLength, InEof,
         InData, AtChunk, AtTrailers, WholeBody, CutsDoNotMatter, Misjudged, CutShort
<1>2. MisreadInv => MisreadInv'
  BY DEF MisreadInv, parserVars, Unread, Place, InHead
<1> QED
  BY <1>1, <1>2 DEF StreamInv

LEMMA StreamStepKeeps ==
  ASSUME HttpInv, StreamInv, HttpStep
  PROVE  StreamInv'
<1>0. ParserInv
  BY DEF HttpInv
<1>1. CASE Connect \/ send_all \/ ReceiveFails \/ Malformed \/ Finish
  <2>1. UNCHANGED <<parserVars, reply, got, eof>>
    BY <1>1 DEF Connect, send_all, ReceiveFails, Malformed, Finish
  <2> QED
    BY <2>1, StreamUntouched
<1>2. CASE ~(Connect \/ send_all \/ ReceiveFails \/ Malformed \/ Finish) /\ ~MayBeMisread(reply)
  <2>1. MeantInv /\ UNCHANGED reply
    BY <1>2, HttpStepKeeps DEF StreamInv
  <2>2. MeantInv'
    <3>1. ASSUME NEW n \in 1..RecvSize, Receive(n) PROVE MeantInv'
      BY <2>1, <3>1, ReceiveFollows
    <3>2. CASE ReceiveEof
      BY <2>1, <3>2, ReceiveEofFollows
    <3>3. CASE ParserStep /\ UNCHANGED clientVars
      BY <1>0, <1>2, <2>1, <3>3, HeadFollows, LengthBodyFollows, SizeLineFollows,
         DataFollows, EndFollows, EofBodyFollows DEF ParserStep
    <3> QED
      BY <1>2, <3>1, <3>2, <3>3 DEF HttpStep
  <2> QED
    BY <1>2, <2>1, <2>2 DEF StreamInv
<1>3. CASE ~(Connect \/ send_all \/ ReceiveFails \/ Malformed \/ Finish) /\ MayBeMisread(reply)
  <2>1. MisreadInv /\ UNCHANGED reply
    BY <1>3, HttpStepKeeps DEF StreamInv
  <2>2. MisreadInv'
    <3>1. ASSUME NEW n \in 1..RecvSize, Receive(n) PROVE MisreadInv'
      BY <1>3, <2>1, <3>1, MisreadReceives
    <3>2. CASE ReceiveEof
      BY <1>3, <2>1, <3>2, MisreadEnds
    <3>3. CASE ParserStep /\ UNCHANGED clientVars
      BY <1>0, <1>3, <2>1, <3>3, MisreadTurns
    <3> QED
      BY <1>3, <3>1, <3>2, <3>3 DEF HttpStep
  <2> QED
    BY <1>3, <2>1, <2>2 DEF StreamInv
<1> QED
  BY <1>1, <1>2, <1>3

----------------------------------------------------------------------------
(* A call of the Engine client *)

DockerInv ==
  /\ HttpInv
  /\ verdict = "none" => http_status = 0
  /\ http_status # 0 => http_status = StatusCode(reply.wire[1])
  /\ verdict \in {"none", "parsing", "done", "failed"}
  /\ verdict = "parsing" => ~IsStrike

LEMMA DockerInvInit == DockerInit => DockerInv
BY HttpInvInit DEF DockerInit, DockerInv, IsStrike

\* The status of an exchange that succeeded is the one the reply starts with.
LEMMA AnsweredStatus ==
  ASSUME HttpInv, stage = "ok"
  PROVE  status # 0 /\ status = StatusCode(reply.wire[1])
BY DEF HttpInv, ParserInv, ClientInv, StateInv

LEMMA DockerStepKeeps ==
  ASSUME DockerInv, DockerStep
  PROVE  DockerInv'
<1>0. HttpInv
  BY DEF DockerInv
<1>1. CASE Exchange
  <2>1. HttpStep /\ verdict = "none" /\ UNCHANGED <<call, http_status, verdict>>
    BY <1>1 DEF Exchange, callVars
  <2>2. HttpInv' /\ UNCHANGED reply
    BY <1>0, <2>1, HttpStepKeeps
  <2> QED
    BY <2>1, <2>2 DEF DockerInv
<1>2. CASE ~Exchange
  <2>1. UNCHANGED httpVars /\ call' = call
    BY <1>2 DEF DockerStep, RejectPath, RequestFails, StrikeAnswered, PingAnswered,
                ListingArrives, ParseListing, NoListing, Listed, Judged, callVars
  <2>2. HttpInv' /\ UNCHANGED reply
    BY <1>0, <2>1, HttpStutters
  <2>3. CASE StrikeAnswered
    <3>1. http_status' = status /\ verdict' \in {"done", "failed"} /\ stage = "ok"
      BY <2>3 DEF StrikeAnswered, Judged
    <3>2. status = StatusCode(reply.wire[1])
      BY <1>0, <3>1, AnsweredStatus
    <3> QED
      BY <2>2, <3>1, <3>2 DEF DockerInv
  <2>4. CASE ListingArrives
    <3>1. http_status' = http_status /\ verdict' \in {"parsing", "failed"} /\ call.op = "list"
      BY <2>4 DEF ListingArrives
    <3> QED
      BY <2>1, <2>2, <3>1 DEF DockerInv, IsStrike
  <2>5. CASE ~StrikeAnswered /\ ~ListingArrives
    <3>1. /\ http_status' = http_status
          /\ verdict' \in {"done", "failed"} \/ (verdict' = verdict /\ verdict = "parsing")
      BY <1>2, <2>5 DEF DockerStep, RejectPath, RequestFails, PingAnswered,
                        ParseListing, NoListing, Listed, Judged, callVars
    <3> QED
      BY <2>1, <2>2, <3>1 DEF DockerInv, IsStrike
  <2> QED
    BY <2>3, <2>4, <2>5
<1> QED
  BY <1>1, <1>2

LEMMA DockerStutters ==
  ASSUME DockerInv, UNCHANGED dockerVars
  PROVE  DockerInv'
<1>1. HttpInv' /\ UNCHANGED reply
  BY HttpStutters DEF DockerInv, dockerVars
<1> QED
  BY <1>1 DEF DockerInv, dockerVars, callVars, IsStrike

----------------------------------------------------------------------------
(* The theorems *)

(* Every exchange of a call keeps the parser's state within the limits of  *)
(* the state it is in, and its status that of the reply it reads.          *)
THEOREM DockerInvariant == DockerSpec => []DockerInv
<1>1. DockerInv /\ [DockerNext]_dockerVars => DockerInv'
  BY DockerStepKeeps, DockerStutters DEF DockerNext
<1> QED
  BY DockerInvInit, <1>1, PTL DEF DockerSpec

(* The variables of an exchange have their types, for any replies: no size *)
(* or length goes negative, and what is held is never more than has come.  *)
THEOREM HttpTypeCorrect == DockerSpec => []HttpTypeOK
<1>1. DockerInv => HttpTypeOK
  <2> SUFFICES ASSUME DockerInv PROVE HttpTypeOK
    OBVIOUS
  <2>1. ParserType /\ ReplyType /\ ClientInv /\ Held <= got
    BY DEF DockerInv, HttpInv, ParserInv, HeldInv
  <2>2. Len(buf_) + Len(body) <= Len(reply.wire)
    BY <2>1, Lengths
  <2> QED
    BY <2>1, <2>2 DEF HttpTypeOK, ParserType, ReplyType, ClientInv
<1> QED
  BY <1>1, DockerInvariant, PTL

(* What a peer can make the client hold is bounded by the Limits and one   *)
(* receive buffer, for every value of the Limits: the sum of body and chunk*)
(* size is below 2^64 when the test looks at it (http_socket.cpp:384).     *)
THEOREM MemoryBounded == DockerSpec => []MemoryIsBounded
<1>1. DockerInv => MemoryIsBounded
  BY DEF DockerInv, HttpInv, ParserInv, HeldInv, Held, Room, Longest, MemoryIsBounded
<1> QED
  BY <1>1, DockerInvariant, PTL

(* Every way out of request() closes the socket (http_socket.cpp:431-477). *)
THEOREM SocketClosed == DockerSpec => []SocketIsClosed
<1>1. DockerInv => SocketIsClosed
  BY DEF DockerInv, HttpInv, ClientInv, SocketIsClosed
<1> QED
  BY <1>1, DockerInvariant, PTL

(* The parser's place in the reply, what it holds of it and the body so    *)
(* far agree in every state, in whatever framing: what the exchange's      *)
(* results rest on.  Where the bytes after a head without fields may have  *)
(* been taken for fields (http_socket.cpp:249-251), what agrees is what is *)
(* left of that: the body is one of the wire's pieces, or was taken for    *)
(* chunked, of which a listing does not survive the first size.            *)
THEOREM StreamInvariant == DockerSpec => []StreamInv
<1>1. DockerInit => StreamInv
  BY StreamInit DEF DockerInit
<1>2. DockerInv /\ StreamInv /\ [DockerNext]_dockerVars => StreamInv'
  <2> SUFFICES ASSUME DockerInv, StreamInv, [DockerNext]_dockerVars PROVE StreamInv'
    OBVIOUS
  <2>1. CASE Exchange
    BY <2>1, StreamStepKeeps DEF Exchange, DockerInv
  <2>2. CASE ~Exchange
    <3>1. UNCHANGED httpVars
      BY <2>2 DEF DockerNext, DockerStep, RejectPath, RequestFails, StrikeAnswered,
           PingAnswered, ListingArrives, ParseListing, NoListing, Listed, Judged, dockerVars
    <3>2. UNCHANGED <<parserVars, reply, got, eof>>
      BY <3>1 DEF httpVars, clientVars
    <3> QED
      BY <3>2, StreamUntouched
  <2> QED
    BY <2>1, <2>2
<1> QED
  BY <1>1, <1>2, DockerInvariant, PTL DEF DockerSpec

(* A request that succeeds returns the status and exactly the content the  *)
(* Engine meant, in any framing, however the reply is cut and wherever the *)
(* connection ends (http_socket.hpp:91-98).  The body is anything only if  *)
(* the reply has no header fields and a piece of its body, buffered with   *)
(* the head, reads like a framing field: then it may be misread.           *)
THEOREM SuccessReturnsTheReply == DockerSpec => []SuccessIsWhole
<1>1. DockerInv /\ StreamInv => SuccessIsWhole
  <2> SUFFICES ASSUME DockerInv, StreamInv, stage = "ok"
               PROVE  status = reply.status /\ (MayBeMisread(reply) \/ WholeBody)
    BY DEF SuccessIsWhole, WholeBody
  <2>1. state_ = "Done" /\ reply \in Replies
    BY DEF DockerInv, HttpInv, ParserInv, ReplyType, ClientInv
  <2>2. status = reply.status
    BY <2>1, AnsweredStatus, ClientAssumption DEF DockerInv
  <2> QED
    BY <2>1, <2>2 DEF StreamInv, MeantInv
<1> QED
  BY <1>1, DockerInvariant, StreamInvariant, PTL

(* No way of cutting a sound reply into pieces makes the parser reject it, *)
(* but for a chunked one whose content has been read (test_http.cpp:93)    *)
(* and one without header fields whose body may be taken for some.         *)
THEOREM CutsAreHarmless == DockerSpec => []CutsDoNotMatter
<1>1. StreamInv => CutsDoNotMatter
  BY DEF StreamInv, MeantInv, CutsDoNotMatter
<1> QED
  BY <1>1, StreamInvariant, PTL

----------------------------------------------------------------------------
(* The listing *)

\* The JSON parser is as it was made until a listing has arrived, and then
\* works on its body.
Arrived == stage = "ok" /\ ok /\ text = body
Accepted == Arrived /\ ctl = "ok" /\ Is("arr", out) /\ listed = Containers(out.arr)

ParseInv ==
  /\ JsonInv /\ MeansInv
  /\ verdict = "none" => ctl = "start" /\ pos_ = 1 /\ err_ = "none"
  /\ verdict \in {"none", "parsing", "failed"} => listed = <<>>
  /\ verdict = "parsing" => call.op = "list" /\ Arrived
  /\ verdict = "done" => IF call.op = "list" THEN Accepted ELSE listed = <<>>

\* No step of the JSON parser touches the text, and none starts it again.
LEMMA TextStays ==
  ASSUME JsonStep
  PROVE  text' = text /\ ~JsonDone /\ ctl' # "start"
<1>1. CASE parse \/ TooDeep \/ EndOfInput \/ parse_literal \/ parse_number \/ parse_string
  BY <1>1 DEF parse, TooDeep, EndOfInput, parse_literal, parse_number, parse_string,
              ValueAt, JsonFails, JsonReturns, JsonDone
<1>2. CASE OpenArray \/ OpenObject
  BY <1>2 DEF OpenArray, OpenObject, Open, ValueAt, JsonReturns, JsonDone
<1>3. CASE PlainCharacter \/ SimpleEscape \/ BadEscape \/ UnicodeEscape \/ Unterminated
           \/ StringEnds
  BY <1>3 DEF PlainCharacter, SimpleEscape, BadEscape, UnicodeEscape, Unterminated,
              StringEnds, InString, Reads, JsonFails, JsonReturns, JsonDone
<1>4. CASE KeyEnds
  BY <1>4 DEF KeyEnds, JsonFails, JsonDone
<1>5. CASE TakeElement
  BY <1>5 DEF TakeElement, Continue, JsonFails, JsonReturns, JsonDone
<1>6. CASE TakeMember
  BY <1>6 DEF TakeMember, Continue, JsonFails, JsonReturns, JsonDone
<1>7. CASE Finished
  BY <1>7 DEF Finished, JsonDone
<1> QED
  BY <1>1, <1>2, <1>3, <1>4, <1>5, <1>6, <1>7 DEF JsonStep

LEMMA ParseInvInit == DockerInit => ParseInv
<1> SUFFICES ASSUME DockerInit PROVE ParseInv
  OBVIOUS
<1>1. /\ text = <<>> /\ pos_ = 1 /\ err_ = "none" /\ ctl = "start" /\ stack = <<>>
      /\ verdict = "none" /\ listed = <<>>
  BY DEF DockerInit, JsonInit
<1>2. text \in Seq(STRING) /\ Len(text) = 0
  BY <1>1
<1>3. stack \in Seq({}) /\ Len(stack) = 0 /\ DOMAIN stack = {}
  BY <1>1
<1>4. IsList(stack)
  BY <1>3, SeqIsList
<1>5. JsonTypeOK
  BY <1>1, <1>2, <1>3 DEF JsonTypeOK
<1>6. RecursionIsBounded
  BY <1>3, JsonAssumption DEF RecursionIsBounded
<1>7. JsonInv
  BY <1>1, <1>4, <1>5, <1>6 DEF JsonInv
<1>8. MeansInv
  BY MeansInvStarts DEF DockerInit
<1> QED
  BY <1>1, <1>7, <1>8 DEF ParseInv

LEMMA ListingStarts ==
  ASSUME DockerInv, ParseInv, ListingArrives
  PROVE  ParseInv'
<1>1. /\ verdict = "none" /\ stage = "ok" /\ call.op = "list"
      /\ UNCHANGED <<httpVars, pos_, err_, ctl, stack, str, out, call, listed>>
      /\ \/ ok /\ verdict' = "parsing" /\ text' = body
         \/ ~ok /\ verdict' = "failed" /\ text' = text
  BY DEF ListingArrives
<1>2. JsonInv /\ ctl = "start" /\ pos_ = 1 /\ err_ = "none" /\ listed = <<>>
  BY <1>1 DEF ParseInv
<1>3. text' \in Seq(STRING) /\ Len(text') \in Nat
  <2>1. body \in Seq(STRING)
    BY DEF DockerInv, HttpInv, ParserInv, ParserType, Strings
  <2>2. text \in Seq(STRING)
    BY <1>2 DEF JsonInv, JsonTypeOK
  <2> QED
    BY <1>1, <2>1, <2>2
<1>4. JsonTypeOK'
  BY <1>1, <1>2, <1>3 DEF JsonInv, JsonTypeOK, IsArray, Top
<1>5. IsList(stack)' /\ RecursionIsBounded'
  BY <1>1, <1>2 DEF JsonInv, IsList, RecursionIsBounded
<1>6. JsonInv'
  BY <1>1, <1>2, <1>4, <1>5 DEF JsonInv
<1>7. ok' = ok /\ UNCHANGED <<stage, body>>
  BY <1>1 DEF ok, httpVars, clientVars, parserVars
<1>8. MeansInv'
  <2>1. /\ ctl' = "start" /\ pos_' = 1 /\ UNCHANGED <<stack, str, out>>
        /\ IsList(str) /\ ArraysAreLists(stack) /\ stack = <<>>
    BY <1>1, <1>2, Zenon DEF ParseInv, MeansInv
  <2>2. \A v0 : v0 \in Meaning(text') <=> Leads(text', ctl', pos_', stack', str', out', v0)
    BY <2>1, LeadsIs, Zenon
  <2> QED BY <2>1, <2>2, Zenon DEF MeansInv
<1> QED
  BY <1>1, <1>2, <1>6, <1>7, <1>8 DEF ParseInv, Arrived

LEMMA ParseStepKeeps ==
  ASSUME DockerInv, ParseInv, DockerStep
  PROVE  ParseInv'
<1>1. CASE Exchange
  <2>1. verdict = "none" /\ UNCHANGED <<jsonVars, verdict, listed>>
    BY <1>1 DEF Exchange, callVars
  <2>2. JsonInv' /\ MeansInv' /\ UNCHANGED <<ctl, pos_, err_>>
    BY <2>1, StutterKeeps, MeansInvStutters DEF ParseInv, jsonVars
  <2> QED
    BY <2>1, <2>2 DEF ParseInv
<1>2. CASE ListingArrives
  BY <1>2, ListingStarts
<1>3. CASE ~Exchange /\ ~ListingArrives
  <2>1. UNCHANGED <<httpVars, call>>
    BY <1>3 DEF DockerStep, RejectPath, RequestFails, StrikeAnswered, PingAnswered,
                ParseListing, NoListing, Listed, Judged, callVars
  <2>2. ok' = ok /\ UNCHANGED <<stage, body>>
    BY <2>1 DEF ok, httpVars, clientVars, parserVars
  <2>3. CASE ParseListing
    <3>1. /\ verdict = "parsing" /\ JsonStep /\ UNCHANGED <<verdict, listed>>
          /\ JsonInv /\ listed = <<>> /\ call.op = "list" /\ Arrived
      BY <2>3 DEF ParseListing, callVars, ParseInv
    <3>2. JsonInv' /\ MeansInv' /\ text' = text
      BY <3>1, StepKeeps, StepFaithful, FaithfulKeeps, TextStays DEF ParseInv
    <3>3. Arrived'
      BY <2>2, <3>1, <3>2 DEF Arrived
    <3> QED
      BY <2>1, <3>1, <3>2, <3>3 DEF ParseInv
  <2>4. CASE ~ParseListing
    <3>1. UNCHANGED jsonVars
      BY <1>3, <2>4 DEF DockerStep, RejectPath, RequestFails, StrikeAnswered, PingAnswered,
                        NoListing, Listed, Judged
    <3>2. JsonInv' /\ MeansInv' /\ UNCHANGED <<text, ctl, pos_, err_, out>>
      BY <3>1, StutterKeeps, MeansInvStutters DEF ParseInv, jsonVars
    <3>3. CASE Listed
      <4>1. /\ verdict = "parsing" /\ verdict' = "done" /\ ctl = "ok" /\ Is("arr", out)
            /\ listed' = Containers(out.arr)
        BY <3>3 DEF Listed
      <4>2. call.op = "list" /\ Arrived
        BY <4>1 DEF ParseInv
      <4>3. Accepted'
        BY <2>2, <3>2, <4>1, <4>2 DEF Accepted, Arrived
      <4> QED
        BY <2>1, <3>2, <4>1, <4>2, <4>3 DEF ParseInv
    <3>4. CASE ~Listed
      <4>1. /\ UNCHANGED listed /\ verdict \in {"none", "parsing"}
            /\ \/ verdict' = "failed"
               \/ verdict' = "done" /\ call.op # "list"
        BY <1>3, <2>4, <3>4 DEF DockerStep, RejectPath, RequestFails, StrikeAnswered,
                                PingAnswered, NoListing, Judged, IsStrike
      <4>2. listed = <<>>
        BY <4>1 DEF ParseInv
      <4> QED
        BY <2>1, <3>2, <4>1, <4>2 DEF ParseInv
    <3> QED
      BY <3>3, <3>4
  <2> QED
    BY <2>3, <2>4
<1> QED
  BY <1>1, <1>2, <1>3

LEMMA ParseStutters ==
  ASSUME ParseInv, UNCHANGED dockerVars
  PROVE  ParseInv'
<1>1. JsonInv' /\ MeansInv'
  BY StutterKeeps, MeansInvStutters DEF ParseInv, dockerVars
<1>2. /\ UNCHANGED <<text, pos_, err_, ctl, out, stage, body, status>>
      /\ UNCHANGED <<verdict, call, listed>>
  BY DEF dockerVars, httpVars, parserVars, clientVars, jsonVars, callVars
<1> QED
  BY <1>1, <1>2 DEF ParseInv, Arrived, Accepted, ok

LEMMA BothGoOn ==
  ASSUME NEW w \in Seq(STRING), NEW h \in 2..Len(w), NEW n \in 0..Len(w)
  PROVE  Begins(SubSeq(w, h + 1, n), SubSeq(w, h + 1, Len(w)))
<1> DEFINE s == SubSeq(w, h + 1, n)
           u == SubSeq(w, h + 1, Len(w))
<1>1. Len(u) = Len(w) - h /\ \A i \in 1..(Len(w) - h) : u[i] = w[h + i]
  OBVIOUS
<1>2. CASE n > h
  <2>1. s \in Seq(STRING) /\ Len(s) = n - h /\ \A i \in 1..(n - h) : s[i] = w[h + i]
    BY <1>2
  <2>2. DOMAIN s = 1..(n - h)
    BY <2>1
  <2> HIDE DEF s, u
  <2> QED BY <1>1, <1>2, <2>1, <2>2 DEF Begins
<1>3. CASE n <= h
  <2>1. Len(s) = 0 /\ DOMAIN s = {}
    BY <1>3
  <2> HIDE DEF s, u
  <2> QED BY <1>1, <2>1 DEF Begins
<1> QED
  BY <1>2, <1>3

\* What the parser is given is the beginning of what the Engine sent, if that may
\* not be misread or is a listing.
LEMMA BodyIsSent ==
  ASSUME DockerInv, StreamInv, SuccessIsWhole, stage = "ok",
         MayBeMisread(reply) => IsListing(reply)
  PROVE  /\ body \in Seq(STRING) /\ Begins(body, Sent(reply))
         /\ reply.framing # "eof" => body = Sent(reply) /\ body = reply.content
<1>1. /\ body \in Seq(STRING) /\ reply \in Replies /\ ReplyType /\ state_ = "Done"
      /\ got \in 0..Len(reply.wire) /\ reply.wire \in Seq(STRING)
  BY DEF DockerInv, HttpInv, ParserInv, ParserType, ReplyType, ClientInv, Strings
<1> DEFINE w == reply.wire
           h == reply.head
<1>2. CASE reply.framing = "eof"
  <2>1. h \in 2..Len(w) /\ Sent(reply) = SubSeq(w, h + 1, Len(w))
    BY <1>1, <1>2, RepliesAssumption DEF HeadIsMeant, Sent
  <2>2. \E n \in 0..Len(w) : body = SubSeq(w, h + 1, n)
    <3>1. CASE ~MayBeMisread(reply)
      BY <1>1, <1>2, <3>1 DEF SuccessIsWhole
    <3>2. CASE MayBeMisread(reply)
      <4>1. Len(body) <= Len(w) - h /\ body = SubSeq(w, h + 1, h + Len(body))
        BY <1>1, <3>2 DEF StreamInv, MisreadInv
      <4>2. h + Len(body) \in 0..Len(w)
        <5>1. Len(body) \in Nat /\ Len(w) \in Nat
          BY <1>1
        <5> QED
          BY <2>1, <4>1, <5>1
      <4> QED
        BY <4>1, <4>2
    <3> QED
      BY <3>1, <3>2
  <2>3. w \in Seq(STRING)
    BY <1>1
  <2> HIDE DEF w, h
  <2>4. PICK n \in 0..Len(w) : body = SubSeq(w, h + 1, n)
    BY <2>2
  <2>5. Begins(SubSeq(w, h + 1, n), SubSeq(w, h + 1, Len(w)))
    BY <2>1, <2>3, BothGoOn
  <2> QED BY <1>1, <1>2, <2>1, <2>4, <2>5
<1>3. CASE reply.framing # "eof"
  <2>1. ~MayBeMisread(reply)
    BY <1>1, <1>3, MisreadReply
  <2>2. body = reply.content /\ Sent(reply) = reply.content
    BY <1>3, <2>1 DEF SuccessIsWhole, Sent
  <2>3. Begins(body, body)
    BY <1>1 DEF Begins
  <2> QED BY <1>1, <2>2, <2>3
<1> QED
  BY <1>2, <1>3

(* What an accepted listing is made of: a 2xx reply whose whole content,   *)
(* or all that came if only the end of the connection ends it, the parser  *)
(* has read to its end and found to be an array.  Of a listing that may be *)
(* misread it has read at least the beginning of what the Engine sent, and *)
(* only of what is no listing something else.  Every other call leaves no  *)
(* container (docker_api.cpp:108-166).                                     *)
ListIsOfTheReply ==
  IF verdict = "done" /\ call.op = "list"
  THEN /\ reply.status \in 200..299
       /\ MayBeMisread(reply) \/ text = IF reply.framing = "eof"
            THEN SubSeq(reply.wire, reply.head + 1, got) ELSE reply.content
       /\ IsListing(reply) => Begins(text, Sent(reply))
       /\ ctl = "ok" /\ Is("arr", out) /\ listed = Containers(out.arr)
  ELSE listed = <<>>

(* A listing the client accepts is what the parser makes of the content    *)
(* the Engine sent, the whole of it, and of nothing else, unless the reply *)
(* may be misread: then of a beginning of it if it is a listing.  That it  *)
(* is the Engine's list is left to the parser (docker_api.cpp:108-166).    *)
THEOREM ListingIsTheReply == DockerSpec => []ListIsOfTheReply
<1>1. DockerInit => ParseInv
  BY ParseInvInit
<1>2. DockerInv /\ ParseInv /\ [DockerNext]_dockerVars => ParseInv'
  BY ParseStepKeeps, ParseStutters DEF DockerNext
<1>3. DockerInv /\ ParseInv /\ StreamInv /\ SuccessIsWhole => ListIsOfTheReply
  <2> SUFFICES ASSUME DockerInv, ParseInv, StreamInv, SuccessIsWhole PROVE ListIsOfTheReply
    OBVIOUS
  <2>1. CASE verdict = "done" /\ call.op = "list"
    <3>1. stage = "ok" /\ ok /\ text = body /\ Accepted
      BY <2>1 DEF ParseInv, Accepted, Arrived
    <3>2. status = reply.status /\ status \in Nat
      BY <3>1 DEF SuccessIsWhole, DockerInv, HttpInv, ParserInv, ParserType
    <3>3. reply.status \in 200..299
      BY <3>1, <3>2 DEF ok
    <3>4. MayBeMisread(reply) \/ text = IF reply.framing = "eof"
            THEN SubSeq(reply.wire, reply.head + 1, got) ELSE reply.content
      BY <3>1 DEF SuccessIsWhole
    <3>5. IsListing(reply) => Begins(text, Sent(reply))
      BY <3>1, BodyIsSent
    <3> QED
      BY <2>1, <3>1, <3>3, <3>4, <3>5 DEF ListIsOfTheReply, Accepted
  <2>2. CASE ~(verdict = "done" /\ call.op = "list")
    <3>1. listed = <<>>
      BY <2>2 DEF ParseInv, DockerInv
    <3> QED
      BY <2>2, <3>1 DEF ListIsOfTheReply
  <2> QED
    BY <2>1, <2>2
<1> QED
  BY <1>1, <1>2, <1>3, DockerInvariant, StreamInvariant, SuccessReturnsTheReply, PTL
     DEF DockerSpec

----------------------------------------------------------------------------
(* A member for each place of a list *)

LEMMA RankIs ==
  ASSUME NEW I, I \subseteq Nat, NEW k \in Nat
  PROVE  /\ Rank(I, k) \in Nat
         /\ k # 0 /\ k \in I => Rank(I, k) = Rank(I, k - 1) + 1
         /\ k # 0 /\ k \notin I => Rank(I, k) = Rank(I, k - 1)
         /\ k = 0 /\ 0 \notin I => Rank(I, k) = 0
<1> DEFINE U(m) == {j \in I : j <= m}
<1>1. \A m \in Nat : IsFiniteSet(U(m)) /\ Cardinality(U(m)) \in Nat
  <2> SUFFICES ASSUME NEW m \in Nat PROVE IsFiniteSet(U(m)) /\ Cardinality(U(m)) \in Nat
    OBVIOUS
  <2>1. U(m) \in SUBSET Nat /\ \A j \in U(m) : j <= m
    OBVIOUS
  <2> HIDE DEF U
  <2>2. IsFiniteSet(U(m))
    BY <2>1, FS_BoundedSetOfNaturals
  <2> QED BY <2>2, FS_CardinalityType
<1>2. \A m : Rank(I, m) = Cardinality(U(m))
  BY DEF Rank
<1>3. CASE k # 0
  <2>1. k - 1 \in Nat
    BY <1>3
  <2>2. CASE k \in I
    <3>1. U(k) = U(k - 1) \cup {k} /\ k \notin U(k - 1)
      <4>1. \A j \in I : j <= k <=> j <= k - 1 \/ j = k
        BY <1>3
      <4>2. ~(k <= k - 1)
        BY <1>3
      <4> QED BY <2>2, <4>1, <4>2, Zenon
    <3> HIDE DEF U
    <3>2. Cardinality(U(k)) = Cardinality(U(k - 1)) + 1
      BY <1>1, <2>1, <3>1, FS_AddElement
    <3> QED BY <1>1, <1>2, <1>3, <2>2, <3>2
  <2>3. CASE k \notin I
    <3>1. U(k) = U(k - 1)
      <4>1. \A j \in I : j <= k <=> j <= k - 1
        <5>1. \A j \in I : j \in Nat /\ j # k
          BY <2>3
        <5> QED BY <1>3, <5>1
      <4> QED BY <4>1, Zenon
    <3> HIDE DEF U
    <3> QED BY <1>1, <1>2, <1>3, <2>3, <3>1
  <2> QED BY <2>2, <2>3
<1>4. CASE k = 0
  <2>1. 0 \notin I => U(0) = {}
    <3>1. \A j \in I : j <= 0 => j = 0
      OBVIOUS
    <3> QED BY <3>1, Zenon
  <2> HIDE DEF U
  <2> QED BY <1>1, <1>2, <1>4, <2>1, FS_EmptySet
<1> QED BY <1>3, <1>4

LEMMA RankOfAll ==
  ASSUME NEW n \in Nat, NEW I, I \subseteq 1..n
  PROVE  Rank(I, n) = Cardinality(I)
<1>1. {j \in I : j <= n} = I
  <2>1. \A j \in I : j <= n
    OBVIOUS
  <2> QED BY <2>1, Zenon
<1> QED
  BY <1>1, Zenon DEF Rank

----------------------------------------------------------------------------
\* One turn of the loop.
Gather(f, s, k) == IF k \in DOMAIN f THEN Append(s, f[k]) ELSE s

LEMMA GatheringExists ==
  ASSUME NEW f, NEW m \in Nat
  PROVE  \E g : g = [k \in 0..m |-> IF k = 0 THEN <<>> ELSE Gather(f, g[k - 1], k)]
<1> DEFINE Runs(g, k) == g = [i \in 0..k |-> IF i = 0 THEN <<>> ELSE Gather(f, g[i - 1], i)]
           Odd == {k \in Nat : ~ \E g : Runs(g, k)}
<1>1. SUFFICES ASSUME Odd # {} PROVE FALSE
  OBVIOUS
<1>2. PICK k \in Odd : \A j \in Odd : k <= j
  <2>1. Odd \subseteq Nat
    OBVIOUS
  <2> HIDE DEF Odd
  <2> QED BY <2>1, <1>1, MinExists
<1>3. k # 0
  <2> DEFINE g == [i \in 0..0 |-> <<>>]
  <2>1. g = [i \in 0..0 |-> IF i = 0 THEN <<>> ELSE Gather(f, g[i - 1], i)]
    OBVIOUS
  <2>2. Runs(g, 0)
    BY <2>1
  <2>3. 0 \notin Odd
    <3> HIDE DEF g, Runs
    <3> QED BY <2>2
  <2> QED BY <2>3
<1>4. k - 1 \in Nat /\ k - 1 \notin Odd /\ k \in Nat
  <2> HIDE DEF Runs
  <2>1. k \in Nat
    OBVIOUS
  <2> HIDE DEF Odd
  <2> QED BY <1>2, <1>3, <2>1
<1>5. PICK h : Runs(h, k - 1)
  <2> HIDE DEF Runs
  <2> QED BY <1>4
<1> DEFINE g == [i \in 0..k |-> IF i = k THEN Gather(f, h[k - 1], k) ELSE h[i]]
<1>6. \A i \in 0..k : g[i] = IF i = 0 THEN <<>> ELSE Gather(f, g[i - 1], i)
  <2> SUFFICES ASSUME NEW i \in 0..k
               PROVE  g[i] = IF i = 0 THEN <<>> ELSE Gather(f, g[i - 1], i)
    OBVIOUS
  <2>1. k \in Nat \ {0} /\ i \in Nat
    BY <1>4, <1>3
  <2>2. CASE i = k
    <3>1. g[i] = Gather(f, h[k - 1], k) /\ g[k - 1] = h[k - 1]
      BY <2>1, <2>2
    <3> QED BY <3>1, <2>1, <2>2
  <2>3. CASE i # k
    <3>1. g[i] = h[i] /\ i \in 0..(k - 1)
      BY <2>1, <2>3
    <3>2. h[i] = IF i = 0 THEN <<>> ELSE Gather(f, h[i - 1], i)
      BY <1>5, <3>1
    <3>3. i # 0 => g[i - 1] = h[i - 1]
      BY <2>1, <2>3
    <3> HIDE DEF g
    <3> QED BY <3>1, <3>2, <3>3
  <2> QED BY <2>2, <2>3
<1>7. g = [i \in 0..k |-> g[i]]
  OBVIOUS
<1>8. Runs(g, k)
  <2> HIDE DEF g
  <2> QED BY <1>6, <1>7
<1> QED
  <2> HIDE DEF Runs, g
  <2> QED BY <1>8

LEMMA GatheringIs ==
  ASSUME NEW f, NEW n \in Nat
  PROVE  \E g : /\ g[0] = <<>> /\ g[n] = Gathered(f, n)
                /\ \A k \in 1..n : g[k] = Gather(f, g[k - 1], k)
<1> DEFINE Runs(g) == g = [k \in 0..n |-> IF k = 0 THEN <<>> ELSE Gather(f, g[k - 1], k)]
           g == CHOOSE h : Runs(h)
<1>1. \E h : Runs(h)
  BY GatheringExists
<1>2. Runs(g)
  <2> HIDE DEF Runs
  <2> QED BY <1>1, Zenon
<1>3. Gathered(f, n) = g[n]
  BY Zenon DEF Gathered, Gather
<1> HIDE DEF g
<1>4. \A k \in 0..n : g[k] = IF k = 0 THEN <<>> ELSE Gather(f, g[k - 1], k)
  <2> SUFFICES g = [k \in 0..n |-> IF k = 0 THEN <<>> ELSE Gather(f, g[k - 1], k)]
    BY Zenon
  <2> QED BY <1>2
<1>5. 0 \in 0..n /\ \A k \in 1..n : k \in 0..n /\ k # 0
  OBVIOUS
<1>6. g[0] = <<>> /\ \A k \in 1..n : g[k] = Gather(f, g[k - 1], k)
  BY <1>4, <1>5, Zenon
<1> QED
  BY <1>3, <1>6, Zenon

\* What has been gathered up to k: f's values, each at its rank.
Gathers(f, s, k) ==
  /\ IsList(s) /\ Len(s) = Rank(DOMAIN f, k)
  /\ \A i \in DOMAIN f : i <= k => Rank(DOMAIN f, i) \in 1..Len(s) /\ s[Rank(DOMAIN f, i)] = f[i]
  /\ \A r \in 1..Len(s) : \E i \in DOMAIN f : Rank(DOMAIN f, i) = r

LEMMA GatherKeeps ==
  ASSUME NEW f, DOMAIN f \subseteq Nat, NEW k \in Nat \ {0}, NEW s, Gathers(f, s, k - 1)
  PROVE  Gathers(f, Gather(f, s, k), k)
<1> DEFINE D == DOMAIN f
           R(i) == Rank(D, i)
<1>1. R(k) \in Nat /\ R(k - 1) \in Nat
  BY RankIs
<1>2. /\ IsList(s) /\ Len(s) = R(k - 1)
      /\ \A i \in D : i <= k - 1 => R(i) \in 1..Len(s) /\ s[R(i)] = f[i]
      /\ \A r \in 1..Len(s) : \E i \in D : R(i) = r
  BY Zenon DEF Gathers
<1>3. CASE k \in D
  <2> DEFINE u == Append(s, f[k])
  <2>1. Gather(f, s, k) = u /\ R(k) = R(k - 1) + 1
    BY <1>3, RankIs DEF Gather
  <2>2. /\ IsList(u) /\ Len(u) = R(k) /\ R(k) \in 1..Len(u) /\ u[R(k)] = f[k]
        /\ Len(s) \in Nat /\ Len(u) = Len(s) + 1 /\ \A i \in 1..Len(s) : u[i] = s[i]
    <3>1. /\ IsList(u) /\ Len(s) \in Nat /\ Len(u) = Len(s) + 1
          /\ (\A i \in 1..Len(s) : u[i] = s[i]) /\ u[Len(s) + 1] = f[k]
      BY <1>2, Pushed
    <3> HIDE DEF u, R
    <3> QED BY <1>1, <1>2, <2>1, <3>1
  <2> HIDE DEF u, R
  <2>3. \A i \in D : i <= k => R(i) \in 1..Len(u) /\ u[R(i)] = f[i]
    <3> SUFFICES ASSUME NEW i \in D, i <= k PROVE R(i) \in 1..Len(u) /\ u[R(i)] = f[i]
      OBVIOUS
    <3>1. i \in Nat
      OBVIOUS
    <3>2. CASE i = k
      BY <2>2, <3>2
    <3>3. CASE i # k
      <4>1. i <= k - 1
        BY <3>1, <3>3
      <4>2. R(i) \in 1..Len(s) /\ s[R(i)] = f[i]
        BY <1>2, <4>1
      <4> QED BY <2>2, <4>2
    <3> QED BY <3>2, <3>3
  <2>4. \A r \in 1..Len(u) : \E i \in D : R(i) = r
    <3> SUFFICES ASSUME NEW r \in 1..Len(u) PROVE \E i \in D : R(i) = r
      OBVIOUS
    <3>1. CASE r = R(k)
      BY <1>3, <3>1
    <3>2. CASE r # R(k)
      <4>1. r \in 1..Len(s)
        BY <1>1, <1>2, <2>1, <2>2, <3>2
      <4> QED BY <1>2, <4>1
    <3> QED BY <3>1, <3>2
  <2>5. Gathers(f, u, k)
    BY <2>2, <2>3, <2>4, Zenon DEF Gathers, R
  <2> QED BY <2>1, <2>5
<1>4. CASE k \notin D
  <2>1. Gather(f, s, k) = s /\ R(k) = R(k - 1)
    BY <1>4, RankIs DEF Gather
  <2> HIDE DEF R
  <2>2. \A i \in D : i <= k => R(i) \in 1..Len(s) /\ s[R(i)] = f[i]
    <3> SUFFICES ASSUME NEW i \in D, i <= k PROVE R(i) \in 1..Len(s) /\ s[R(i)] = f[i]
      OBVIOUS
    <3>1. i \in Nat /\ i # k
      BY <1>4
    <3>2. i <= k - 1
      BY <3>1
    <3> QED BY <1>2, <3>2
  <2>3. Gathers(f, s, k)
    BY <1>2, <2>1, <2>2, Zenon DEF Gathers, R
  <2> QED BY <2>1, <2>3
<1> QED
  BY <1>3, <1>4

LEMMA GatheredIs ==
  ASSUME NEW f, NEW n \in Nat, DOMAIN f \subseteq 1..n
  PROVE  Gathers(f, Gathered(f, n), n)
<1>1. PICK g : /\ g[0] = <<>> /\ g[n] = Gathered(f, n)
               /\ \A k \in 1..n : g[k] = Gather(f, g[k - 1], k)
  BY GatheringIs
<1> DEFINE Odd == {k \in 0..n : ~Gathers(f, g[k], k)}
<1>2. DOMAIN f \subseteq Nat /\ 0 \notin DOMAIN f
  OBVIOUS
<1>3. Gathers(f, g[0], 0)
  <2>1. IsList(<<>>) /\ Len(<<>>) = 0 /\ Rank(DOMAIN f, 0) = 0
    BY <1>2, Single, RankIs
  <2>2. \A i \in DOMAIN f : ~(i <= 0)
    OBVIOUS
  <2>3. \A r \in 1..0 : FALSE
    OBVIOUS
  <2> QED BY <1>1, <2>1, <2>2, <2>3, Zenon DEF Gathers
<1>4. Odd = {}
  <2> SUFFICES ASSUME Odd # {} PROVE FALSE
    OBVIOUS
  <2>1. PICK k \in Odd : \A j \in Odd : k <= j
    <3>1. Odd \subseteq Nat
      OBVIOUS
    <3> HIDE DEF Odd
    <3> QED BY <3>1, MinExists
  <2>2. k \in 0..n /\ ~Gathers(f, g[k], k)
    OBVIOUS
  <2>3. k # 0
    BY <1>3, <2>2
  <2>4. k \in Nat \ {0} /\ k - 1 \in 0..n /\ ~(k <= k - 1) /\ k \in 1..n
    BY <2>2, <2>3
  <2>5. Gathers(f, g[k - 1], k - 1)
    <3>1. k - 1 \notin Odd
      <4> HIDE DEF Odd
      <4> QED BY <2>1, <2>4
    <3> QED BY <2>4, <3>1
  <2> HIDE DEF Odd
  <2>6. g[k] = Gather(f, g[k - 1], k)
    BY <1>1, <2>4
  <2>7. Gathers(f, Gather(f, g[k - 1], k), k)
    BY <1>2, <2>4, <2>5, GatherKeeps
  <2> QED BY <2>2, <2>6, <2>7
<1>5. n \in 0..n
  OBVIOUS
<1> QED
  BY <1>1, <1>4, <1>5

LEMMA SameList ==
  ASSUME NEW a, NEW b, IsList(a), IsList(b), Len(a) = Len(b), \A i \in 1..Len(a) : a[i] = b[i]
  PROVE  a = b
<1>1. /\ DOMAIN a = 1..Len(a) /\ a = [i \in 1..Len(a) |-> a[i]]
      /\ DOMAIN b = 1..Len(b) /\ b = [i \in 1..Len(b) |-> b[i]]
  BY DEF IsList
<1> QED
  BY <1>1

\* The only list with f's values at their ranks is the one gathered.
LEMMA OnlyTheGathered ==
  ASSUME NEW f, NEW n \in Nat, DOMAIN f \subseteq 1..n,
         NEW t, IsList(t), Len(t) = Cardinality(DOMAIN f),
         \A i \in DOMAIN f : t[Rank(DOMAIN f, i)] = f[i]
  PROVE  Gathered(f, n) = t
<1> DEFINE s == Gathered(f, n)
<1>1. Gathers(f, s, n)
  BY GatheredIs
<1> HIDE DEF s
<1>2. IsList(s) /\ Len(s) = Len(t)
  BY <1>1, RankOfAll DEF Gathers
<1>3. \A r \in 1..Len(s) : s[r] = t[r]
  <2> SUFFICES ASSUME NEW r \in 1..Len(s) PROVE s[r] = t[r]
    OBVIOUS
  <2>1. PICK i \in DOMAIN f : Rank(DOMAIN f, i) = r
    BY <1>1 DEF Gathers
  <2>2. i <= n
    OBVIOUS
  <2> QED BY <1>1, <2>1, <2>2 DEF Gathers
<1>4. s = t
  BY <1>2, <1>3, SameList
<1> QED
  BY <1>4 DEF s

----------------------------------------------------------------------------
(* What a listing shows *)

LEMMA RestOfList ==
  ASSUME NEW s, IsList(s), NEW n \in Nat, n < Len(s)
  PROVE  /\ IsList(SubSeq(s, n + 1, Len(s))) /\ Len(SubSeq(s, n + 1, Len(s))) = Len(s) - n
         /\ \A i \in 1..(Len(s) - n) : SubSeq(s, n + 1, Len(s))[i] = s[n + i]
<1> DEFINE R == {s[i] : i \in DOMAIN s}
<1>1. s \in Seq(R)
  BY DEF IsList
<1> HIDE DEF R
<1>2. SubSeq(s, n + 1, Len(s)) \in Seq(R)
  BY <1>1
<1>3. IsList(SubSeq(s, n + 1, Len(s)))
  BY <1>2, SeqIsList
<1> QED
  BY <1>1, <1>3

LEMMA NormalIs ==
  ASSUME NEW raw, NEW name, Strips(raw, name)
  PROVE  normalize_container_name(raw) = name
<1>1. /\ IsList(name) /\ name # <<>> /\ name[1] # "/"
      /\ \E n \in 0..Len(raw) : raw = [i \in 1..n |-> "/"] \o name
  BY Zenon DEF Strips
<1>2. PICK n \in 0..Len(raw) : raw = [i \in 1..n |-> "/"] \o name
  BY <1>1
<1> DEFINE a == [i \in 1..n |-> "/"]
           kept == {i \in DOMAIN raw : raw[i] # "/"}
           rest == SubSeq(raw, n + 1, Len(raw))
<1>3. n \in Nat /\ IsList(a) /\ Len(a) = n /\ \A i \in 1..n : a[i] = "/"
  <2>1. n \in Nat
    BY <1>2
  <2>2. a \in Seq({"/"}) /\ Len(a) = n
    BY <2>1
  <2> HIDE DEF a
  <2>3. IsList(a)
    BY <2>2, SeqIsList
  <2> QED BY <2>1, <2>2, <2>3 DEF a
<1>4. raw = a \o name
  BY <1>2
<1> HIDE DEF a
<1>5. /\ IsList(raw) /\ Len(name) \in Nat /\ Len(raw) = n + Len(name)
      /\ \A i \in 1..n : raw[i] = "/"
      /\ \A i \in 1..Len(name) : raw[n + i] = name[i]
  <2> DEFINE both == a \o name
  <2>1. /\ IsList(both) /\ Len(name) \in Nat /\ Len(both) = Len(a) + Len(name)
        /\ \A i \in 1..Len(a) : both[i] = a[i]
        /\ \A i \in 1..Len(name) : both[Len(a) + i] = name[i]
    <3>1. IsList(a) /\ IsList(name)
      BY <1>1, <1>3
    <3>2. IsList(both) /\ Len(name) \in Nat /\ Len(both) = Len(a) + Len(name)
      BY <3>1, Concatenated, Zenon
    <3>3. \A i \in 1..Len(a) : both[i] = a[i]
      BY <3>1, Concatenated, Zenon
    <3>4. \A i \in 1..Len(name) : both[Len(a) + i] = name[i]
      BY <3>1, Concatenated
    <3> QED BY <3>2, <3>3, <3>4, Zenon
  <2>2. raw = both
    BY <1>4
  <2> HIDE DEF both
  <2> QED BY <1>3, <2>1, <2>2
<1>6. Len(name) > 0
  <2>1. name \in Seq({name[i] : i \in DOMAIN name})
    BY <1>1 DEF IsList
  <2> QED BY <1>1, <2>1
<1>7. DOMAIN raw = 1..Len(raw)
  BY <1>5 DEF IsList
<1>8. kept \subseteq (n + 1)..Len(raw) /\ n + 1 \in kept
  <2>1. \A i \in kept : i \in 1..Len(raw) /\ i \notin 1..n
    BY <1>5, <1>7
  <2>2. n + 1 \in 1..Len(raw) /\ raw[n + 1] = name[1]
    BY <1>3, <1>5, <1>6
  <2>3. n + 1 \in kept
    BY <1>1, <1>7, <2>2
  <2> HIDE DEF kept
  <2> QED BY <1>3, <1>5, <2>1, <2>3
<1>9. normalize_container_name(raw) = IF kept = {} THEN <<>> ELSE SubSeq(raw, Min(kept), Len(raw))
  BY Zenon DEF normalize_container_name
<1> HIDE DEF kept
<1>10. Min(kept) = n + 1
  <2>1. kept \subseteq Nat /\ kept # {}
    BY <1>3, <1>5, <1>8
  <2>2. Min(kept) \in kept /\ \A i \in kept : Min(kept) <= i
    BY <2>1, MinExists
  <2>3. Min(kept) <= n + 1 /\ Min(kept) \in (n + 1)..Len(raw)
    BY <1>8, <2>2
  <2> QED BY <1>3, <1>5, <2>3
<1>11. normalize_container_name(raw) = rest
  BY <1>8, <1>9, <1>10
<1>12. rest = name
  <2>1. n < Len(raw) /\ Len(raw) - n = Len(name)
    BY <1>3, <1>5, <1>6
  <2>2. IsList(rest) /\ Len(rest) = Len(name) /\ \A i \in 1..Len(name) : rest[i] = raw[n + i]
    <3>1. /\ IsList(rest) /\ Len(rest) = Len(raw) - n
          /\ \A i \in 1..(Len(raw) - n) : rest[i] = raw[n + i]
      BY <1>3, <1>5, <2>1, RestOfList
    <3> QED BY <2>1, <3>1
  <2> HIDE DEF rest
  <2> QED BY <1>1, <1>5, <2>2, SameList
<1> QED
  BY <1>11, <1>12

LEMMA NamesAre ==
  ASSUME NEW entry, NEW names, ShowsNames(entry, names)
  PROVE  NamesIn(entry) = names
<1> DEFINE value == find(entry, <<"Names">>)
           raw   == IF Is("arr", value) THEN value.arr ELSE <<>>
           named == {i \in DOMAIN raw : HasLetters(raw[i])}
<1>1. /\ OneForEach(raw, named, names)
      /\ \A i \in named : Strips(raw[i].str, names[Rank(named, i)])
  BY Zenon DEF ShowsNames
<1>2. /\ IsList(raw) /\ named \subseteq DOMAIN raw /\ IsList(names)
      /\ Len(names) = Cardinality(named)
  BY <1>1, Zenon DEF OneForEach
<1>3. DOMAIN raw = 1..Len(raw) /\ Len(raw) \in Nat
  BY <1>2 DEF IsList
<1>4. CASE Is("arr", value)
  <2> DEFINE normal(i) == normalize_container_name(value.arr[i].str)
             good == {i \in DOMAIN value.arr : Is("str", value.arr[i]) /\ normal(i) # <<>>}
             f == [i \in good |-> normal(i)]
  <2>1. raw = value.arr
    BY <1>4, Zenon
  <2>2. NamesIn(entry) = Gathered(f, Len(value.arr))
    BY <1>4, Zenon DEF NamesIn
  <2>3. \A i \in named : normal(i) = names[Rank(named, i)] /\ normal(i) # <<>> /\ Is("str", raw[i])
    <3> SUFFICES ASSUME NEW i \in named
                 PROVE normal(i) = names[Rank(named, i)] /\ normal(i) # <<>> /\ Is("str", raw[i])
      OBVIOUS
    <3>1. Strips(raw[i].str, names[Rank(named, i)]) /\ HasLetters(raw[i])
      BY <1>1, Zenon
    <3>2. normalize_container_name(raw[i].str) = names[Rank(named, i)]
      BY <3>1, NormalIs, Zenon
    <3> QED BY <2>1, <3>1, <3>2, Zenon DEF Strips, HasLetters
  <2>4. \A i : normal(i) # <<>> => \E k \in DOMAIN value.arr[i].str : value.arr[i].str[k] # "/"
    <3> SUFFICES ASSUME NEW i, normal(i) # <<>>
                 PROVE \E k \in DOMAIN value.arr[i].str : value.arr[i].str[k] # "/"
      OBVIOUS
    <3> DEFINE name == value.arr[i].str
               kept == {k \in DOMAIN name : name[k] # "/"}
    <3>1. normalize_container_name(name) = IF kept = {} THEN <<>> ELSE SubSeq(name, Min(kept), Len(name))
      BY Zenon DEF normalize_container_name
    <3>2. kept # {}
      <4> HIDE DEF kept
      <4> QED BY <3>1, Zenon
    <3> QED BY <3>2, Zenon
  <2>5. good = named
    <3>1. \A i \in good : HasLetters(value.arr[i])
      BY <2>4, Zenon DEF HasLetters
    <3>2. \A i \in named : i \in good
      BY <2>1, <2>3, Zenon
    <3> QED BY <2>1, <3>1, <3>2, Zenon
  <2>6. DOMAIN f = named /\ \A i \in named : f[i] = names[Rank(named, i)]
    <3> HIDE DEF normal, good, named
    <3> QED BY <2>3, <2>5, Zenon
  <2> HIDE DEF f, named, raw, value
  <2>7. Gathered(f, Len(raw)) = names
    <3>1. DOMAIN f \subseteq 1..Len(raw) /\ Len(names) = Cardinality(DOMAIN f)
      BY <1>2, <1>3, <2>6, Zenon
    <3>2. \A i \in DOMAIN f : names[Rank(DOMAIN f, i)] = f[i]
      BY <2>6, Zenon
    <3> QED BY <1>2, <1>3, <3>1, <3>2, OnlyTheGathered, Zenon
  <2> QED BY <2>1, <2>2, <2>7, Zenon
<1>5. CASE ~Is("arr", value)
  <2>1. raw = <<>> /\ NamesIn(entry) = <<>>
    BY <1>5, Zenon DEF NamesIn
  <2>2. DOMAIN raw = {}
    <3> HIDE DEF raw
    <3> QED BY <2>1
  <2>3. Len(names) = 0
    <3>1. named = {}
      BY <2>2, Zenon
    <3> HIDE DEF named
    <3> QED BY <1>2, <3>1, FS_EmptySet
  <2>4. names = <<>>
    <3>1. names \in Seq({names[i] : i \in DOMAIN names})
      BY <1>2 DEF IsList
    <3> QED BY <2>3, <3>1
  <2> QED BY <2>1, <2>4, Zenon
<1> QED
  BY <1>4, <1>5

LEMMA ShowsContainer ==
  ASSUME NEW entry
  PROVE  /\ IsContainer(entry) <=> Shows(entry)
         /\ Shows(entry) => find(entry, <<"Id">>) = entry.obj[<<"Id">>]
<1> DEFINE has == Is("obj", entry) /\ <<"Id">> \in DOMAIN entry.obj
<1>1. CASE has
  <2>1. find(entry, <<"Id">>) = entry.obj[<<"Id">>]
    BY <1>1, Zenon DEF find
  <2> QED BY <1>1, <2>1, Zenon DEF IsContainer, Shows, is_valid_container_id
<1>2. CASE ~has
  <2>1. find(entry, <<"Id">>) = Null
    BY <1>2, Zenon DEF find
  <2>2. ~Is("str", Null)
    BY DEF Is, Null
  <2>3. ~Shows(entry)
    BY <1>2, Zenon DEF Shows
  <2> QED BY <2>1, <2>2, <2>3, Zenon DEF IsContainer
<1> QED
  BY <1>1, <1>2

LEMMA ContainersAre ==
  ASSUME NEW entries, NEW cs, Lists(entries, cs)
  PROVE  Containers(entries) = cs
<1> DEFINE shown == {i \in DOMAIN entries : Shows(entries[i])}
           good  == {i \in DOMAIN entries : IsContainer(entries[i])}
           c(i)  == [id |-> find(entries[i], <<"Id">>).str, names |-> NamesIn(entries[i])]
           f     == [i \in good |-> c(i)]
<1>1. /\ OneForEach(entries, shown, cs)
      /\ \A i \in shown : Describes(entries[i], cs[Rank(shown, i)])
  BY Zenon DEF Lists
<1>2. /\ IsList(entries) /\ shown \subseteq DOMAIN entries /\ IsList(cs)
      /\ Len(cs) = Cardinality(shown)
  BY <1>1, Zenon DEF OneForEach
<1>3. DOMAIN entries = 1..Len(entries) /\ Len(entries) \in Nat
  BY <1>2 DEF IsList
<1>4. Containers(entries) = Gathered(f, Len(entries))
  BY Zenon DEF Containers
<1>5. good = shown
  BY ShowsContainer, Zenon
<1>6. \A i \in shown : c(i) = cs[Rank(shown, i)]
  <2> SUFFICES ASSUME NEW i \in shown PROVE c(i) = cs[Rank(shown, i)]
    OBVIOUS
  <2>1. Describes(entries[i], cs[Rank(shown, i)]) /\ Shows(entries[i])
    BY <1>1, Zenon
  <2> DEFINE d == cs[Rank(shown, i)]
  <2> HIDE DEF d
  <2>2. /\ d = [id |-> entries[i].obj[<<"Id">>].str, names |-> d.names]
        /\ ShowsNames(entries[i], d.names)
    BY <2>1, Zenon DEF Describes, d
  <2>3. NamesIn(entries[i]) = d.names
    BY <2>2, NamesAre, Zenon
  <2>4. find(entries[i], <<"Id">>) = entries[i].obj[<<"Id">>]
    BY <2>1, ShowsContainer, Zenon
  <2>5. c(i) = d
    BY <2>2, <2>3, <2>4, Zenon
  <2> QED BY <2>5 DEF d
<1>7. DOMAIN f = shown /\ \A i \in shown : f[i] = cs[Rank(shown, i)]
  <2> HIDE DEF c, good, shown
  <2> QED BY <1>5, <1>6, Zenon
<1> HIDE DEF f, shown
<1>8. DOMAIN f \subseteq 1..Len(entries) /\ Len(cs) = Cardinality(DOMAIN f)
  BY <1>2, <1>3, <1>7, Zenon
<1>9. \A i \in DOMAIN f : cs[Rank(DOMAIN f, i)] = f[i]
  BY <1>7, Zenon
<1>10. Gathered(f, Len(entries)) = cs
  BY <1>2, <1>3, <1>8, <1>9, OnlyTheGathered, Zenon
<1> QED
  BY <1>4, <1>10, Zenon

----------------------------------------------------------------------------
(* The listing *)

\* An array that is found in what came is the listing of the reply.
LEMMA ArrayIsTheListing ==
  ASSUME DockerInv, StreamInv, SuccessIsWhole, stage = "ok", reply.status \in 200..299,
         MayBeMisread(reply) => IsListing(reply), NEW v \in Meaning(body), Is("arr", v)
  PROVE  Containers(v.arr) = reply.containers
<1>1. /\ body \in Seq(STRING) /\ Sent(reply) \in Seq(STRING) /\ Begins(body, Sent(reply))
      /\ reply \in Replies /\ (reply.framing # "eof" => body = reply.content)
  BY BodyIsSent, SentIs DEF DockerInv, HttpInv, ParserInv, ReplyType
<1>2. /\ \E k : k \in Marks(body, 1, OpenBracket)
      /\ \A n : v # [num |-> n]
  BY <1>1, ArrayBegins DEF Is
<1>3. IsListing(reply) \/ IsNoListing(reply)
  BY <1>1, ListingsAssumption
<1>4. CASE IsListing(reply)
  <2>1. PICK w \in Meaning(Sent(reply)) : Is("arr", w) /\ Lists(w.arr, reply.containers)
    BY <1>4, Zenon DEF IsListing
  <2>2. v = w
    BY <1>1, <1>2, <2>1, MeaningsMeet
  <2> QED BY <2>1, <2>2, ContainersAre
<1>5. CASE IsNoListing(reply)
  <2>1. Marks(Sent(reply), 1, OpenBracket) # {}
    BY <1>1, <1>2, MarkOfMore
  <2>2. reply.framing # "eof" /\ \A w \in Meaning(reply.content) : ~Is("arr", w)
    BY <1>5, <2>1, Zenon DEF IsNoListing, OpenBracket
  <2> QED BY <1>1, <2>2
<1> QED
  BY <1>3, <1>4, <1>5

(* A listing that is accepted is the Engine's, container for container and *)
(* name for name, though the parser reads it in one pass and the client    *)
(* cannot tell a reply that the end of the connection cuts short from a    *)
(* whole one: the part of an array is no array.  That a listing without    *)
(* header fields may be misread cannot do more than have it rejected.      *)
(* Whatever is not accepted leaves no container (docker_api.cpp:84-148).   *)
THEOREM ListingsAreTheEngines == DockerSpec => []ListIsTheEngines
<1>1. DockerInit => ParseInv
  BY ParseInvInit
<1>2. DockerInv /\ ParseInv /\ [DockerNext]_dockerVars => ParseInv'
  BY ParseStepKeeps, ParseStutters DEF DockerNext
<1>3. DockerInv /\ ParseInv /\ StreamInv /\ SuccessIsWhole => ListIsTheEngines
  <2> SUFFICES ASSUME DockerInv, ParseInv, StreamInv, SuccessIsWhole PROVE ListIsTheEngines
    OBVIOUS
  <2>1. CASE verdict = "done" /\ call.op = "list"
    <3>1. /\ stage = "ok" /\ ok /\ text = body /\ ctl = "ok" /\ Is("arr", out)
          /\ listed = Containers(out.arr) /\ MeansInv
      BY <2>1 DEF ParseInv, Accepted, Arrived
    <3>2. status = reply.status /\ status \in Nat
      BY <3>1 DEF SuccessIsWhole, DockerInv, HttpInv, ParserInv, ParserType
    <3>3. reply.status \in 200..299
      BY <3>1, <3>2 DEF ok
    <3>4. out \in Meaning(body)
      BY <3>1, MeaningIsFound DEF ParsesWhatIsMeant
    <3>5. (MayBeMisread(reply) => IsListing(reply)) => Containers(out.arr) = reply.containers
      BY <3>1, <3>3, <3>4, ArrayIsTheListing
    <3> QED
      BY <2>1, <3>1, <3>5 DEF ListIsTheEngines
  <2>2. CASE ~(verdict = "done" /\ call.op = "list")
    <3>1. listed = <<>>
      BY <2>2 DEF ParseInv, DockerInv
    <3> QED
      BY <2>2, <3>1 DEF ListIsTheEngines
  <2> QED
    BY <2>1, <2>2
<1> QED
  BY <1>1, <1>2, <1>3, DockerInvariant, StreamInvariant, SuccessReturnsTheReply, PTL
     DEF DockerSpec

----------------------------------------------------------------------------
(* The end of a call *)

\* The turns of step() and the receives that an exchange still has, at most.
RunRank   == IF running THEN 1 ELSE 0
StateRank == IF state_ \in {"Done", "Error"} THEN 0 ELSE 1
StageRank == IF stage = "connect" THEN 3 ELSE IF stage = "send" THEN 2
             ELSE IF stage = "read" THEN 1 ELSE 0
ExchangeWork ==
  3 * (Len(reply.wire) - got) + Len(buf_) + RunRank + StateRank + StageRank

\* The steps that the JSON parser still has.
ParseWork == IF JsonDone THEN 0 ELSE IF ctl = "start" THEN End + 1 ELSE End - pos_ + 1

Work ==
  IF CallDone THEN 0
  ELSE IF verdict = "parsing" THEN ParseWork + 1
  ELSE ExchangeWork + Len(reply.wire) + 4

LEMMA RankIsNat ==
  /\ RunRank \in 0..1 /\ StateRank \in 0..1 /\ StageRank \in 0..3
BY DEF RunRank, StateRank, StageRank

LEMMA ExchangeWorkIsNat ==
  ASSUME ParserType, ReplyType
  PROVE  ExchangeWork \in Nat
<1> DEFINE all  == Len(reply.wire)
           held == Len(buf_)
<1>1. held \in Nat /\ all \in Nat /\ got \in Nat /\ got <= all
  BY Lengths
<1>2. ExchangeWork = 3 * (all - got) + held + RunRank + StateRank + StageRank
  BY DEF ExchangeWork
<1> HIDE DEF all, held
<1> QED
  BY <1>1, <1>2, RankIsNat

LEMMA ParseWorkIsNat ==
  ASSUME JsonInv
  PROVE  ParseWork \in Nat /\ (ctl = "start" => ParseWork = Len(text) + 2)
BY TextIsFinite DEF JsonInv, ParseWork, JsonDone, End

\* No turn of step()'s loops goes round without consuming anything.
LEMMA TrailersShrink ==
  ASSUME NEW rest \in Strings, EndTrailers(rest)
  PROVE  running' = FALSE /\ Len(buf_') <= Len(rest)
<1> DEFINE eols   == CrLf(rest)
           blanks == {i \in eols : i = 1 \/ i - 2 \in eols}
<1>1. Len(rest) \in Nat
  BY DEF Strings
<1>2. CASE buf_' = rest
  BY <1>1, <1>2 DEF EndTrailers, fail, NeedMoreBytes
<1>3. CASE buf_' # rest
  <2>1. blanks # {} /\ buf_' = Drop(rest, Min(blanks) + 1) /\ running' = FALSE
    BY <1>3 DEF EndTrailers, fail
  <2>2. blanks \subseteq 1..(Len(rest) - 1)
    BY DEF CrLf
  <2> HIDE DEF blanks
  <2>3. blanks \subseteq Nat
    BY <1>1, <2>2
  <2>4. Min(blanks) \in 1..(Len(rest) - 1)
    BY <2>1, <2>2, <2>3, MinExists
  <2>5. Min(blanks) + 1 \in 0..Len(rest)
    BY <1>1, <2>4
  <2>6. Len(buf_') = Len(rest) - (Min(blanks) + 1)
    BY <2>1, <2>5, Dropped
  <2> QED
    BY <1>1, <2>1, <2>5, <2>6
<1> QED
  BY <1>2, <1>3

LEMMA SizeLineShrinks ==
  ASSUME ParserType, ReplyType, chunk_size_line
  PROVE  \/ Len(buf_') < Len(buf_)
         \/ running' = FALSE /\ Len(buf_') <= Len(buf_)
<1> DEFINE eols == CrLf(buf_)
           rest == Drop(buf_, Min(eols) + 1)
<1>1. buf_ \in Strings /\ Len(buf_) \in Nat
  BY Lengths DEF ParserType
<1>2. CASE eols = {}
  BY <1>1, <1>2 DEF chunk_size_line, fail, NeedMoreBytes
<1>3. CASE eols # {}
  <2>1. buf_' = rest \/ EndTrailers(rest)
    BY <1>3 DEF chunk_size_line
  <2>2. Min(eols) \in 1..(Len(buf_) - 1)
    BY <1>1, <1>3, FirstLine
  <2> HIDE DEF eols
  <2>3. Min(eols) + 1 \in 0..Len(buf_) /\ Min(eols) + 1 > 0
    BY <1>1, <2>2
  <2>4. rest \in Strings /\ Len(rest) = Len(buf_) - (Min(eols) + 1)
    BY <1>1, <2>3, Dropped
  <2>5. Len(rest) < Len(buf_) /\ Len(rest) \in Nat
    BY <1>1, <2>3, <2>4 DEF Strings
  <2> HIDE DEF rest
  <2>6. CASE buf_' = rest
    BY <2>5, <2>6
  <2>7. CASE EndTrailers(rest)
    <3>1. running' = FALSE /\ Len(buf_') <= Len(rest)
      BY <2>4, <2>7, TrailersShrink
    <3>2. Len(buf_') <= Len(buf_)
      BY <1>1, <2>5, <3>1
    <3> QED
      BY <3>1, <3>2
  <2> QED
    BY <2>1, <2>6, <2>7
<1> QED
  BY <1>2, <1>3

LEMMA HeadDrops ==
  ASSUME NEW s \in Strings, DOMAIN s = 1..Len(s), Len(s) \in Nat,
         NEW b, b = {i \in DOMAIN s : s[i] = "BLANK"}, b # {}
  PROVE  Len(Drop(s, Min(b))) < Len(s)
<1>1. b \subseteq 1..Len(s) /\ b \subseteq Nat
  OBVIOUS
<1>2. Min(b) \in b
  BY <1>1, MinExists
<1>3. Min(b) \in 0..Len(s) /\ Min(b) > 0
  BY <1>1, <1>2
<1>4. Len(Drop(s, Min(b))) = Len(s) - Min(b)
  BY <1>3, Dropped
<1> QED
  BY <1>3, <1>4

LEMMA HeadShrinks ==
  ASSUME ParserType, ReplyType, parse_head
  PROVE  \/ Len(buf_') < Len(buf_)
         \/ running' = FALSE /\ Len(buf_') <= Len(buf_)
<1> DEFINE blanks == {i \in DOMAIN buf_ : buf_[i] = "BLANK"}
           end    == Min(blanks)
<1>1. buf_ \in Strings /\ Len(buf_) \in Nat /\ DOMAIN buf_ = 1..Len(buf_)
  BY Lengths DEF ParserType, Strings
<1>2. CASE UNCHANGED buf_
  <2>1. CASE running' = FALSE
    BY <1>1, <1>2, <2>1
  <2>2. CASE running' # FALSE
    <3>1. blanks # {} /\ buf_' = Drop(buf_, end)
      BY <2>2 DEF parse_head, NeedMoreBytes, fail
    <3> QED
      BY <1>1, <3>1, HeadDrops
  <2> QED
    BY <2>1, <2>2
<1>3. CASE ~UNCHANGED buf_
  <2>1. blanks # {} /\ buf_' = Drop(buf_, end)
    BY <1>3 DEF parse_head, NeedMoreBytes, fail
  <2> QED
    BY <1>1, <2>1, HeadDrops
<1> QED
  BY <1>2, <1>3

LEMMA TurnConsumes ==
  ASSUME ParserInv, ParserStep, UNCHANGED clientVars
  PROVE  /\ running = TRUE /\ state_ \notin {"Done", "Error"}
         /\ \/ Len(buf_') < Len(buf_)
            \/ running' = FALSE /\ Len(buf_') <= Len(buf_)
<1>1. /\ ParserType /\ ReplyType /\ buf_ \in Strings /\ Len(buf_) \in Nat
      /\ content_length_ \in Nat /\ chunk_remaining_ \in Nat
  BY Lengths DEF ParserInv, ParserType
<1>2. running = TRUE /\ state_ \notin {"Done", "Error"}
  BY <1>1 DEF ParserType, ParserStep, parse_head, body_step_content_length, chunk_size_line,
              chunk_data, chunk_end, body_until_eof
<1> SUFFICES \/ Len(buf_') < Len(buf_)
             \/ running' = FALSE /\ Len(buf_') <= Len(buf_)
  BY <1>2
<1>3. CASE body_step_content_length
  <2>1. CASE Len(buf_) < content_length_
    BY <1>1, <1>3, <2>1 DEF body_step_content_length, NeedMoreBytes
  <2>2. CASE ~(Len(buf_) < content_length_)
    <3>1. buf_' = Drop(buf_, content_length_) /\ running' = FALSE
      BY <1>3, <2>2 DEF body_step_content_length, fail
    <3>2. content_length_ \in 0..Len(buf_)
      BY <1>1, <2>2
    <3>3. Len(buf_') = Len(buf_) - content_length_
      BY <1>1, <3>1, <3>2, Dropped
    <3> QED
      BY <1>1, <3>1, <3>3
  <2> QED
    BY <2>1, <2>2
<1>4. CASE chunk_data
  <2> DEFINE take == IF chunk_remaining_ < Len(buf_) THEN chunk_remaining_ ELSE Len(buf_)
  <2>1. /\ chunk_remaining_ > 0 /\ buf_' = Drop(buf_, take)
        /\ chunk_remaining_' = chunk_remaining_ - take
        /\ running' = (chunk_remaining_' = 0)
    BY <1>4 DEF chunk_data
  <2>2. take \in 0..Len(buf_) /\ (take = 0 => chunk_remaining_ - take # 0)
    BY <1>1, <2>1
  <2> HIDE DEF take
  <2>3. Len(buf_') = Len(buf_) - take
    BY <1>1, <2>1, <2>2, Dropped
  <2>4. CASE take = 0
    <3>1. running' = FALSE
      BY <2>1, <2>2, <2>4
    <3> QED
      BY <1>1, <2>3, <2>4, <3>1
  <2>5. CASE take # 0
    BY <1>1, <2>2, <2>3, <2>5
  <2> QED
    BY <2>4, <2>5
<1>5. CASE chunk_end
  <2>1. CASE running' = FALSE /\ UNCHANGED buf_
    BY <1>1, <2>1
  <2>2. CASE ~(running' = FALSE /\ UNCHANGED buf_)
    <3>0. ~(Len(buf_) < 2) /\ buf_' = Drop(buf_, 2)
      BY <1>5, <2>2, Zenon DEF chunk_end, NeedMoreBytes, fail
    <3>1. buf_' = Drop(buf_, 2) /\ 2 \in 0..Len(buf_)
      BY <1>1, <3>0
    <3>2. Len(buf_') = Len(buf_) - 2
      BY <1>1, <3>1, Dropped
    <3> QED
      BY <1>1, <3>2
  <2> QED
    BY <2>1, <2>2
<1>6. CASE body_until_eof
  BY <1>1, <1>6 DEF body_until_eof, NeedMoreBytes
<1> QED
  BY <1>1, <1>2, <1>3, <1>4, <1>5, <1>6, HeadShrinks, SizeLineShrinks DEF ParserStep

\* A turn, a receive or a step of request() leaves less to do.
LEMMA ExchangeMoves ==
  ASSUME HttpInv, HttpStep
  PROVE  ExchangeWork' \in Int /\ ExchangeWork' < ExchangeWork
<1> DEFINE all == Len(reply.wire)
<1>1. /\ ParserType /\ ReplyType
      /\ Len(buf_) \in Nat /\ got \in Nat /\ all \in Nat /\ RecvSize \in Nat
  BY Lengths, Limits DEF HttpInv, ParserInv
<1>2. Len(buf_') \in Nat /\ got' \in Int /\ UNCHANGED reply
  <2>1. ParserType' /\ ReplyType' /\ UNCHANGED reply
    BY HttpStepKeeps DEF HttpInv, ParserInv
  <2> QED
    BY <1>1, <2>1 DEF ParserType, ReplyType, Strings
<1>3. /\ RunRank \in 0..1 /\ RunRank' \in 0..1 /\ StateRank \in 0..1 /\ StateRank' \in 0..1
      /\ StageRank \in 0..3 /\ StageRank' \in 0..3
  BY DEF RunRank, StateRank, StageRank
<1>4. /\ ExchangeWork = 3 * (all - got) + Len(buf_) + RunRank + StateRank + StageRank
      /\ ExchangeWork' = 3 * (all - got') + Len(buf_') + RunRank' + StateRank' + StageRank'
  BY <1>2 DEF ExchangeWork
<1> HIDE DEF all
<1>5. ExchangeWork' \in Int
  BY <1>1, <1>2, <1>3, <1>4
<1>6. CASE Connect \/ send_all \/ ReceiveFails \/ Malformed \/ Finish
  <2>1. UNCHANGED <<buf_, got, running, state_>>
    BY <1>6 DEF Connect, send_all, ReceiveFails, Malformed, Finish, parserVars
  <2>2. RunRank' = RunRank /\ StateRank' = StateRank
    BY <2>1 DEF RunRank, StateRank
  <2>3. StageRank' < StageRank
    BY <1>6 DEF Connect, send_all, ReceiveFails, Malformed, Finish, Reading, StageRank
  <2> QED
    BY <1>1, <1>3, <1>4, <1>5, <2>1, <2>2, <2>3
<1>7. ASSUME NEW n \in 1..RecvSize, Receive(n) PROVE ExchangeWork' < ExchangeWork
  <2> DEFINE piece == SubSeq(reply.wire, got + 1, got + n)
  <2>1. /\ got + n <= all /\ got' = got + n /\ UNCHANGED stage
        /\ ~running /\ state_ \notin {"Done", "Error"}
        /\ buf_' = buf_ \o piece
    BY <1>7 DEF Receive, feed, all
  <2>2. Len(buf_') = Len(buf_) + n /\ n \in Nat /\ n > 0
    <3>1. n \in Nat /\ n > 0
      BY <1>1
    <3>2. piece \in Strings /\ Len(piece) = n
      BY <1>1, <2>1, <3>1, Piece DEF ReplyType, all
    <3> HIDE DEF piece
    <3> QED
      BY <1>1, <2>1, <3>1, <3>2, JoinedBytes DEF ParserType
  <2>3. StageRank' = StageRank /\ RunRank = 0 /\ StateRank = 1
    BY <2>1 DEF StageRank, RunRank, StateRank
  <2> QED
    BY <1>1, <1>3, <1>4, <2>1, <2>2, <2>3
<1>8. CASE ReceiveEof
  <2>1. /\ state_ \notin {"Done", "Error"} /\ state_' \in {"Done", "Error"}
        /\ UNCHANGED <<got, stage, running>>
        /\ buf_' = buf_ \/ buf_' = <<>>
    BY <1>8 DEF ReceiveEof, feed_eof
  <2>2. /\ StateRank' = 0 /\ StateRank = 1 /\ RunRank' = RunRank /\ StageRank' = StageRank
    BY <2>1 DEF StageRank, RunRank, StateRank
  <2>3. Len(buf_') <= Len(buf_)
    BY <1>1, <2>1
  <2> QED
    BY <1>1, <1>2, <1>3, <1>4, <2>1, <2>2, <2>3
<1>9. CASE ParserStep /\ UNCHANGED clientVars
  <2>1. /\ running = TRUE /\ state_ \notin {"Done", "Error"}
        /\ \/ Len(buf_') < Len(buf_)
           \/ running' = FALSE /\ Len(buf_') <= Len(buf_)
    BY <1>9, TurnConsumes DEF HttpInv
  <2>2. UNCHANGED <<got, stage>>
    BY <1>9 DEF clientVars
  <2>3. /\ RunRank = 1 /\ StateRank = 1 /\ StageRank' = StageRank
        /\ running' = FALSE => RunRank' = 0
    BY <2>1, <2>2 DEF StageRank, RunRank, StateRank
  <2> QED
    BY <1>1, <1>2, <1>3, <1>4, <2>1, <2>2, <2>3
<1> QED
  BY <1>5, <1>6, <1>7, <1>8, <1>9 DEF HttpStep

\* And so does a step of the JSON parser.
LEMMA Nearer ==
  ASSUME NEW e \in Nat, NEW p \in 1..e, NEW q \in 1..e
  PROVE  /\ e - q + 1 \in Int
         /\ e - q + 1 < e + 1
         /\ q > p => e - q + 1 < e - p + 1
OBVIOUS

LEMMA OneMore ==
  ASSUME NEW a \in Int, NEW b \in Int, a < b
  PROVE  a + 1 < b + 1
OBVIOUS

LEMMA ParseMoves ==
  ASSUME JsonInv, JsonStep
  PROVE  ParseWork' \in Int /\ ParseWork' < ParseWork
<1>1. /\ text' = text /\ ~JsonDone /\ ctl' # "start" /\ JsonInv' /\ Consumes
  BY TextStays, StepKeeps
<1>2. End' = End /\ End \in Nat /\ pos_ \in 1..End /\ pos_' \in 1..End
  <2>1. pos_' \in 1..(Len(text') + 1)
    BY <1>1 DEF JsonInv, JsonTypeOK
  <2> QED
    BY <1>1, <2>1, TextIsFinite DEF JsonInv, End
<1>3. ParseWork = IF ctl = "start" THEN End + 1 ELSE End - pos_ + 1
  BY <1>1 DEF ParseWork
<1>4. CASE ctl' \in {"ok", "failed"}
  <2>1. ParseWork' = 0
    BY <1>4 DEF ParseWork, JsonDone
  <2> QED
    BY <1>2, <1>3, <2>1
<1>5. CASE ctl' \notin {"ok", "failed"}
  <2>1. ParseWork' = End - pos_' + 1
    BY <1>1, <1>2, <1>5 DEF ParseWork, JsonDone
  <2>2. /\ End - pos_' + 1 \in Int
        /\ End - pos_' + 1 < End + 1
        /\ pos_' > pos_ => End - pos_' + 1 < End - pos_ + 1
    BY <1>2, Nearer
  <2>3. pos_' > pos_ \/ ctl = "start"
    BY <1>1, <1>5 DEF Consumes
  <2>4. CASE ctl = "start"
    <3>1. ParseWork = End + 1
      BY <1>3, <2>4
    <3>2. ParseWork' \in Int /\ End - pos_' + 1 < End + 1
      BY <2>1, <2>2
    <3> QED
      BY <2>1, <3>1, <3>2
  <2>5. CASE ctl # "start"
    <3>1. ParseWork = End - pos_ + 1 /\ pos_' > pos_
      BY <1>3, <2>3, <2>5
    <3>2. ParseWork' \in Int /\ End - pos_' + 1 < End - pos_ + 1
      BY <2>1, <2>2, <3>1
    <3> QED
      BY <2>1, <3>1, <3>2
  <2> QED
    BY <2>4, <2>5
<1> QED
  BY <1>4, <1>5

LEMMA WorkIsNat ==
  ASSUME DockerInv, ParseInv
  PROVE  Work \in Nat
<1>1. ExchangeWork \in Nat /\ Len(reply.wire) \in Nat /\ ParseWork \in Nat
  BY ExchangeWorkIsNat, ParseWorkIsNat, Lengths DEF DockerInv, HttpInv, ParserInv, ParseInv
<1> QED
  BY <1>1 DEF Work

LEMMA StepsLeadOn ==
  ASSUME DockerInv, ParseInv, DockerStep
  PROVE  Work' < Work
<1>1. /\ ExchangeWork \in Nat /\ Len(reply.wire) \in Nat /\ ParseWork \in Nat
      /\ Len(body) \in Nat /\ Len(body) <= Len(reply.wire) /\ Work \in Nat
  <2>1. ParserType /\ ReplyType /\ JsonInv /\ Held <= got
    BY DEF DockerInv, HttpInv, ParserInv, HeldInv, ParseInv
  <2> QED
    BY <2>1, ExchangeWorkIsNat, ParseWorkIsNat, Lengths, WorkIsNat
<1>2. /\ verdict = "none" => Work = ExchangeWork + Len(reply.wire) + 4
      /\ verdict = "parsing" => Work = ParseWork + 1
  BY DEF Work, CallDone
<1>3. CASE Exchange
  <2>1. /\ verdict = "none" /\ HttpStep /\ UNCHANGED verdict
    BY <1>3 DEF Exchange, callVars
  <2>2. ExchangeWork' \in Int /\ ExchangeWork' < ExchangeWork
    BY <2>1, ExchangeMoves DEF DockerInv
  <2>3. reply' = reply
    BY <2>1, HttpStepKeeps DEF DockerInv
  <2>4. Work' = ExchangeWork' + Len(reply.wire) + 4
    BY <2>1, <2>3 DEF Work, CallDone
  <2> QED
    BY <1>1, <1>2, <2>1, <2>2, <2>4
<1>4. CASE ParseListing
  <2>1. verdict = "parsing" /\ JsonStep /\ UNCHANGED verdict
    BY <1>4 DEF ParseListing, callVars
  <2>2. ParseWork' \in Int /\ ParseWork' < ParseWork
    BY <2>1, ParseMoves DEF ParseInv
  <2>3. Work' = ParseWork' + 1 /\ Work = ParseWork + 1
    BY <1>2, <2>1 DEF Work, CallDone
  <2>4. ParseWork' + 1 < ParseWork + 1
    <3>1. ParseWork \in Int
      BY <1>1
    <3>2. \A a, b \in Int : a < b => a + 1 < b + 1
      BY OneMore
    <3> QED
      BY <2>2, <3>1, <3>2, Zenon
  <2> QED
    BY <2>3, <2>4
<1>5. CASE ListingArrives /\ verdict' = "parsing"
  <2>1. verdict = "none" /\ ctl = "start" /\ text' = body /\ UNCHANGED ctl
    BY <1>5 DEF ListingArrives, ParseInv
  <2>2. ParseWork' = Len(body) + 2
    BY <1>1, <2>1 DEF ParseWork, JsonDone, End
  <2>3. Work' = Len(body) + 3
    BY <1>1, <1>5, <2>2 DEF Work, CallDone
  <2> QED
    BY <1>1, <1>2, <2>1, <2>3
<1>6. CASE ~Exchange /\ ~ParseListing /\ ~(ListingArrives /\ verdict' = "parsing")
  <2>1. verdict \in {"none", "parsing"} /\ verdict' \in {"done", "failed"}
    BY <1>6 DEF DockerStep, RejectPath, RequestFails, StrikeAnswered, PingAnswered,
                ListingArrives, NoListing, Listed, Judged
  <2>2. Work' = 0
    BY <2>1 DEF Work, CallDone
  <2> QED
    BY <1>1, <1>2, <2>1, <2>2
<1> QED
  BY <1>3, <1>4, <1>5, <1>6

(* Every step of a call leaves less to do, by a measure that is never      *)
(* negative and starts at four times the length of the reply and eight: no *)
(* reply, however it is cut, and no text keep the client busy for longer,  *)
(* and its loops never go round without consuming anything                 *)
(* (http_socket.cpp:175-427, json.cpp:44-260).                             *)
THEOREM CallsComeToAnEnd ==
  DockerSpec => /\ Work = 4 * Len(reply.wire) + 8
                /\ [](Work \in Nat) /\ [][Work' < Work]_dockerVars
<1>1. DockerInit => ParseInv
  BY ParseInvInit
<1>2. DockerInv /\ ParseInv /\ [DockerNext]_dockerVars => ParseInv'
  BY ParseStepKeeps, ParseStutters DEF DockerNext
<1>3. DockerInv /\ ParseInv => Work \in Nat
  BY WorkIsNat
<1>4. DockerInv /\ ParseInv /\ [DockerNext]_dockerVars => [Work' < Work]_dockerVars
  BY StepsLeadOn DEF DockerNext
<1>5. DockerInit => Work = 4 * Len(reply.wire) + 8
  <2> SUFFICES ASSUME DockerInit PROVE Work = 4 * Len(reply.wire) + 8
    OBVIOUS
  <2>1. /\ verdict = "none" /\ ~running /\ state_ = "StatusLine" /\ stage = "connect"
        /\ got = 0 /\ buf_ = <<>> /\ reply \in Replies
    BY DEF DockerInit, HttpInit, ParserInit
  <2>2. Work = ExchangeWork + Len(reply.wire) + 4
    BY <2>1 DEF Work, CallDone
  <2>3. RunRank = 0 /\ StateRank = 1 /\ StageRank = 3
    BY <2>1 DEF RunRank, StateRank, StageRank
  <2>4. ExchangeWork = 3 * (Len(reply.wire) - 0) + 0 + 0 + 1 + 3
    BY <2>1, <2>3 DEF ExchangeWork
  <2>5. Len(reply.wire) \in Nat
    BY <2>1, ClientAssumption
  <2> QED
    BY <2>2, <2>4, <2>5
<1> QED
  BY <1>1, <1>2, <1>3, <1>4, <1>5, DockerInvariant, PTL DEF DockerSpec

LEMMA FateInit == DockerInit => Strike!StrikeInit
BY DEF DockerInit, Strike!StrikeInit, Outcome, Fate, CallDone

\* A step of a call that is judged gives the strike the fate answered.
LEMMA FateOfAnswer ==
  ASSUME DockerInv, StrikeAnswered
  PROVE  Fate = "pending" /\ Fate' = Outcome(reply.status)
<1>1. /\ verdict = "none" /\ stage = "ok" /\ IsStrike
      /\ http_status' = status /\ call' = call
      /\ verdict' = IF ok THEN "done" ELSE "failed"
  BY DEF StrikeAnswered, Judged
<1>2. status # 0 /\ status = StatusCode(reply.wire[1])
  BY <1>1, AnsweredStatus DEF DockerInv
<1>3. reply.status = status
  BY <1>2, ClientAssumption DEF DockerInv, HttpInv, ParserInv, ReplyType
<1>4. Fate = "pending"
  BY <1>1 DEF Fate, CallDone
<1>5. IsStrike'
  BY <1>1 DEF IsStrike
<1>6. CASE ok
  BY <1>1, <1>3, <1>5, <1>6 DEF Fate, CallDone, Outcome, ok
<1>7. CASE ~ok
  BY <1>1, <1>2, <1>3, <1>4, <1>5, <1>7 DEF Fate, CallDone, Outcome, ok
<1> QED
  BY <1>4, <1>6, <1>7

LEMMA FateStep ==
  ASSUME DockerInv, DockerInv', [DockerNext]_dockerVars
  PROVE  [Strike!Returns]_(Strike!strikeVars)
<1>1. CASE UNCHANGED dockerVars
  BY <1>1 DEF dockerVars, httpVars, clientVars, callVars, Strike!strikeVars,
              Outcome, Fate, IsStrike, CallDone
<1>2. CASE DockerStep /\ ~StrikeAnswered
  <2>1. reply' = reply /\ call' = call
    <3>1. CASE Exchange
      BY <3>1, HttpStepKeeps DEF Exchange, callVars, DockerInv
    <3>2. CASE ~Exchange
      BY <1>2, <3>2 DEF DockerStep, RejectPath, RequestFails, PingAnswered,
           ListingArrives, ParseListing, NoListing, Listed, Judged, callVars,
           httpVars, clientVars
    <3> QED
      BY <3>1, <3>2
  <2>2. Outcome(reply.status)' = Outcome(reply.status) /\ IsStrike' = IsStrike
    BY <2>1 DEF Outcome, IsStrike
  <2>3. CASE ~IsStrike
    BY <2>2, <2>3 DEF Fate, Strike!strikeVars
  <2>4. CASE IsStrike /\ (RejectPath \/ RequestFails)
    <3>1. verdict = "none" /\ verdict' = "failed" /\ http_status' = http_status
      BY <2>4 DEF RejectPath, RequestFails, Judged
    <3>2. http_status = 0
      BY <3>1 DEF DockerInv
    <3>3. Fate = "pending" /\ Fate' = "unanswered"
      BY <2>2, <2>4, <3>1, <3>2 DEF Fate, CallDone
    <3> QED
      BY <2>2, <3>3 DEF Strike!Returns, Strike!strikeVars
  <2>5. CASE IsStrike /\ Exchange
    <3>1. UNCHANGED <<verdict, http_status>>
      BY <2>5 DEF Exchange, callVars
    <3> QED
      BY <2>2, <3>1 DEF Fate, CallDone, Strike!strikeVars
  <2>6. CASE IsStrike /\ ~Exchange /\ ~RejectPath /\ ~RequestFails
    <3>1. PingAnswered \/ ListingArrives \/ verdict = "parsing"
      BY <1>2, <2>6 DEF DockerStep, ParseListing, NoListing, Listed
    <3>2. FALSE
      BY <2>6, <3>1 DEF DockerInv, PingAnswered, ListingArrives, IsStrike
    <3> QED
      BY <3>2
  <2> QED
    BY <2>3, <2>4, <2>5, <2>6
<1>3. CASE StrikeAnswered
  <2>1. reply' = reply
    BY <1>3 DEF StrikeAnswered, Judged, httpVars, clientVars
  <2>2. Outcome(reply.status)' = Outcome(reply.status)
    BY <2>1 DEF Outcome
  <2> QED
    BY <1>3, <2>2, FateOfAnswer DEF Strike!Returns, Strike!strikeVars
<1> QED
  BY <1>1, <1>2, <1>3 DEF DockerNext

(* Wherever an exchange breaks, the call implements the abstract strike:   *)
(* what the engine counts is what the reply says or "unanswered"           *)
(* (docker_api.hpp:89-91, engine.cpp:171-187).                             *)
THEOREM ClientImplementsStrikeCall == DockerSpec => ImplementsStrikeCall
<1>1. DockerInv /\ DockerInv' /\ [DockerNext]_dockerVars
      => [Strike!Returns]_(Strike!strikeVars)
  BY FateStep
<1> QED
  BY FateInit, <1>1, DockerInvariant, PTL
     DEF DockerSpec, ImplementsStrikeCall, Strike!StrikeCallSpec
=============================================================================
