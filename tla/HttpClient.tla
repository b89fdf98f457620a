------------------------------ MODULE HttpClient ------------------------------
(***************************************************************************)
(* One request of the HTTP client over the Unix socket transport           *)
(* (src/http_socket.cpp): connect, send, then read and feed the parser     *)
(* until it is done.  The Engine's reply arrives in pieces of any size;    *)
(* the Engine may fall silent or go away after any byte of it.             *)
(***************************************************************************)
EXTENDS HttpResponseParser

CONSTANTS
  Replies,  \* what the Engine may answer: records of its wire image and of
            \* what it means by it (head, status, framing, content, chunks)
  RecvSize  \* the client's receive buffer, 8192 bytes

ASSUME ClientAssumption ==
  /\ RecvSize \in Nat \ {0}
  /\ \A r \in Replies : r.wire \in Seq(STRING) /\ r.status = StatusCode(r.wire[1])

(* What a reply means.  Its wire image is a head of head lines, the last of*)
(* them blank, and then its content in the framing the header fields name. *)
(* chunks[p] is how much of the content comes before the chunk that begins *)
(* at p of the wire.  The content of a reply that is cut short, or breaks  *)
(* off in a malformed chunk, begins like its wire image does.              *)
Fields(r) == FieldLines(r.wire, r.head)
Lines(r, field) == {i \in DOMAIN Fields(r) : Field(Fields(r)[i]) = field}

HeadIsMeant(r) ==
  /\ r.content \in Seq(STRING) /\ r.head \in 2..Len(r.wire)
  /\ r.wire[r.head] = "BLANK" /\ \A i \in 1..(r.head - 1) : r.wire[i] # "BLANK"
  /\ r.framing = IF Lines(r, "chunked") # {} THEN "chunked"
                 ELSE IF Lines(r, "content-length") # {} THEN "length" ELSE "eof"

\* The wire has n bytes of the content, after o of it, at p, if it goes so far.
Carries(r, p, o, n) ==
  \A k \in 1..n : p + k - 1 <= Len(r.wire) =>
    o + k <= Len(r.content) /\ r.content[o + k] = r.wire[p + k - 1]

LengthIsMeant(r) ==
  /\ \A i \in Lines(r, "content-length") :
       FieldLength(Fields(r)[i]) \in {-1, Len(r.content)}
  /\ Carries(r, r.head + 1, 0, Len(r.content))

\* The line that begins at p ends at e.
IsLine(wire, p, e) == e \in CrLf(wire) /\ p <= e /\ CrLf(wire) \cap p..(e - 1) = {}
\* A good chunk size stands there.
IsSize(wire, p, e) == IsLine(wire, p, e) /\ GoodSize(SizeDigits(SubSeq(wire, p, e - 1)))
SizeAt(wire, p, e) == HexValue(SizeDigits(SubSeq(wire, p, e - 1)))

\* The content is whole after the last chunk.  What follows is a header field
\* or a blank line, and no header field reads like a chunk size.
LastChunkIsMeant(r, p, e) ==
  /\ Len(r.content) = r.chunks[p]
  /\ \A f \in CrLf(r.wire) : ~IsSize(r.wire, e + 2, f)

\* A chunk's data is part of the content, and another chunk follows it.
ChunkIsMeant(r, p, e) ==
  LET size == SizeAt(r.wire, p, e)
      end  == e + 2 + size
  IN  /\ Carries(r, e + 2, r.chunks[p], size)
      /\ end \in CrLf(r.wire) =>
           end + 2 \in DOMAIN r.chunks /\ r.chunks[end + 2] = r.chunks[p] + size

ChunksAreMeant(r) ==
  /\ r.head + 1 \in DOMAIN r.chunks /\ r.chunks[r.head + 1] = 0
  /\ \A p \in DOMAIN r.chunks, e \in CrLf(r.wire) : IsSize(r.wire, p, e) =>
       IF SizeAt(r.wire, p, e) = 0 THEN LastChunkIsMeant(r, p, e)
                                   ELSE ChunkIsMeant(r, p, e)

\* A size line within its limit, and after the last one no more than the limit,
\* up to a blank line that ends the reply.
ChunkIsSound(r, p, e) ==
  LET size == SizeAt(r.wire, p, e)
      end  == IF size = 0 THEN Len(r.wire) - 1 ELSE e + 2 + size
  IN  /\ IsSize(r.wire, p, e) /\ e - p < max_chunk_line_bytes
      /\ end \in CrLf(r.wire)
      /\ size = 0 => /\ end - e <= max_chunk_line_bytes
                     /\ end = e + 2 \/ end - 2 \in CrLf(r.wire)

(* A sound reply is well-formed and fits the limits.  The one on the head  *)
(* is on what has come with it, too, which may be all but one byte of a    *)
(* receive.                                                                *)
IsSound(r) ==
  /\ StatusCode(r.wire[1]) # 0
  /\ Len(r.wire) <= max_header_bytes \/ r.head - 1 + RecvSize <= max_header_bytes
  /\ Len(r.content) <= max_body_bytes
  /\ \A i \in Lines(r, "content-length") :
       (\A j \in Lines(r, "chunked") : i < j) => ~BadLength(Fields(r)[i])
  /\ r.framing = "chunked" =>
       \A p \in DOMAIN r.chunks : \E e \in CrLf(r.wire) : ChunkIsSound(r, p, e)
  /\ r.framing # "chunked" => Len(r.wire) = r.head + Len(r.content)
  /\ r.framing = "eof" => allow_eof_termination_

(* A head without fields says nothing of the body's framing.  The bytes of *)
(* the body that are buffered together with it are taken for fields        *)
(* nevertheless, and if some receive can end so that one of their lines    *)
(* reads like a Content-Length or a chunked Transfer-Encoding, then the    *)
(* body may be read as what it is not.                                     *)
MayBeMisread(r) ==
  /\ r.head = 2
  /\ \E n \in 2..Len(r.wire) :
       parse_headers(LinesIn(SubSeq(r.wire, 3, n))).framing # "none"

ASSUME RepliesAssumption ==
  \A r \in Replies :
    /\ HeadIsMeant(r)
    /\ r.framing = "length" => LengthIsMeant(r)
    /\ r.framing = "chunked" => ChunksAreMeant(r)

VARIABLES
  reply,    \* the Engine's answer to this request
  got,      \* how much of it recv() has returned
  eof,      \* recv() has returned 0
  fd_,      \* the socket is open
  stage     \* where request() is; "ok" and "err" once it has returned

clientVars == <<reply, got, eof, fd_, stage>>
httpVars == <<parserVars, clientVars>>

HttpInit ==
  /\ ParserInit
  /\ reply \in Replies
  /\ got = 0 /\ eof = FALSE
  /\ fd_ = FALSE
  /\ stage = "connect"

Connect ==
  /\ stage = "connect"
  /\ \/ stage' = "send" /\ fd_' = TRUE
     \/ stage' = "err" /\ fd_' = FALSE  \* closed again when connect() fails
  /\ UNCHANGED <<parserVars, reply, got, eof>>

send_all ==
  /\ stage = "send"
  /\ \/ stage' = "read" /\ fd_' = fd_
     \/ stage' = "err" /\ fd_' = FALSE
  /\ UNCHANGED <<parserVars, reply, got, eof>>

Reading == stage = "read" /\ ~running /\ state_ \notin {"Done", "Error"}

\* recv() returns the next n bytes, as many as the kernel has and the buffer
\* takes.
Receive(n) ==
  /\ Reading
  /\ n <= RecvSize /\ got + n <= Len(reply.wire)
  /\ feed(SubSeq(reply.wire, got + 1, got + n))
  /\ got' = got + n
  /\ UNCHANGED <<reply, eof, fd_, stage>>

\* recv() returns 0: the Engine closed, having sent its reply or not.
ReceiveEof ==
  /\ Reading
  /\ feed_eof
  /\ eof' = TRUE
  /\ UNCHANGED <<reply, got, fd_, stage>>

\* Mutant: the error path forgets the socket.
ReceiveFails_Leaks ==
  /\ Reading
  /\ stage' = "err"
  /\ UNCHANGED <<parserVars, reply, got, eof, fd_>>

\* recv() timed out or failed.
ReceiveFails ==
  /\ Reading
  /\ stage' = "err" /\ fd_' = FALSE
  /\ UNCHANGED <<parserVars, reply, got, eof>>

\* feed() returned false: the response is malformed.
Malformed ==
  /\ stage = "read" /\ state_ = "Error"
  /\ stage' = "err" /\ fd_' = FALSE
  /\ UNCHANGED <<parserVars, reply, got, eof>>

Finish ==
  /\ stage = "read" /\ state_ = "Done"
  /\ stage' = "ok" /\ fd_' = FALSE
  /\ UNCHANGED <<parserVars, reply, got, eof>>

Returned == stage \in {"ok", "err"} /\ UNCHANGED httpVars

HttpStep ==
  \/ Connect \/ send_all
  \/ \E n \in 1..RecvSize : Receive(n)
  \/ ReceiveEof \/ ReceiveFails \/ Malformed \/ Finish
  \/ ParserStep /\ UNCHANGED clientVars

HttpNext == HttpStep \/ Returned
HttpSpec == HttpInit /\ [][HttpNext]_httpVars
----------------------------------------------------------------------------
(* Properties *)

HttpTypeOK ==
  /\ reply \in Replies /\ got \in 0..Len(reply.wire)
  /\ fd_ \in BOOLEAN /\ eof \in BOOLEAN
  /\ stage \in {"connect", "send", "read", "ok", "err"}
  /\ state_ \in {"StatusLine", "BodyContentLength", "BodyChunked", "BodyEof",
                 "Done", "Error"}
  /\ status \in Nat /\ content_length_ \in Nat /\ chunk_remaining_ \in Nat
  /\ chunk_started_ \in BOOLEAN /\ running \in BOOLEAN
  /\ Len(buf_) + Len(body) <= Len(reply.wire)

(* However the reply is cut into pieces and wherever the connection breaks,*)
(* a request that succeeds returns exactly what the Engine meant: a framed *)
(* body is never cut short, run together or mixed with framing bytes, and  *)
(* an unframed one is all that came (http_socket.hpp:91-98).  Of the body  *)
(* of a reply that may be misread nothing is said.                         *)
SuccessIsWhole ==
  stage = "ok" =>
    /\ status = reply.status
    /\ \/ MayBeMisread(reply)
       \/ IF reply.framing = "eof"
          THEN body = SubSeq(reply.wire, reply.head + 1, got)
          ELSE body = reply.content

(* What a peer can make the client hold is bounded by the limits and one   *)
(* receive buffer, in every state of the parser (http_socket.hpp:103-107). *)
MemoryIsBounded ==
  Len(buf_) + Len(body) <=
    max_body_bytes + Max({max_header_bytes, max_chunk_line_bytes}) + RecvSize

\* The parser gives up on a sound reply, though it is all there or to come.
CutShort == eof /\ got < Len(reply.wire)
Misjudged == state_ = "Error" /\ ~CutShort /\ IsSound(reply)

(* A sound reply is never rejected, however it is cut: only the end of the *)
(* connection before the end of the reply is an error (test_http.cpp:93,   *)
(* byte-by-byte feeding).  The exceptions are chunked replies, rejected    *)
(* only once the whole content has been read, and replies without header   *)
(* fields that may be misread.                                             *)
CutsDoNotMatter ==
  Misjudged => \/ reply.framing = "chunked" /\ body = reply.content
               \/ MayBeMisread(reply)

(* Every way out of request() leaves the socket closed, whichever step of  *)
(* it failed (http_socket.cpp:431-477).                                    *)
SocketIsClosed == stage \in {"ok", "err"} => ~fd_

(* test_http.cpp:6-7 names "Content-Length / chunked / EOF framing, byte-  *)
(* by-byte feeding" as one contract: a sound chunked reply is accepted     *)
(* however it is cut.  Not when its last size line and the blank line      *)
(* after it are received apart: the size line has been dropped by then.    *)
ChunkedCutsDoNotMatter == reply.framing = "chunked" => ~Misjudged

(* http_socket.cpp:246-248 says that headers are "never body bytes", since *)
(* "Parsing beyond header_end would let a body starting with "Field:       *)
(* value" hijack the framing": a reply without framing fields is read as   *)
(* one.  Not when it has no fields at all and such a body begins to arrive *)
(* together with the head.                                                 *)
BodySetsNoFraming ==
  state_ \in {"BodyContentLength", "BodyChunked"} => reply.framing # "eof"
=============================================================================
