--------------------------- MODULE MCDockerClient ---------------------------
(* Replies of every framing, sound and not, to every call.  A line of the  *)
(* head is one string; "cl2" is a Content-Length of 2, "te" a chunked      *)
(* encoding, in a body too, where "cl:" is a Content-Length before its     *)
(* digits.  In a listing "Id" and "Names" are one character each.          *)
EXTENDS DockerClient, TLC

MCStatusOf == "200" :> 200 @@ "204" :> 204 @@ "304" :> 304 @@ "404" :> 404
              @@ "409" :> 409 @@ "junk" :> 0
MCLengthOf == <<"cl0">> :> 0 @@ <<"cl2">> :> 2 @@ <<"cl23">> :> 23 @@ <<"cl99">> :> 99
              @@ <<"clx">> :> -1
              @@ <<"cl:">> :> -1 @@ <<"cl:", "1">> :> 1 @@ <<"cl:", "1", "2">> :> 12
MCChunked  == {<<"te">>, <<"te", "CR">>}
MCFieldOf  == [line \in DOMAIN MCLengthOf \cup MCChunked |->
                 IF line \in MCChunked THEN "chunked" ELSE "content-length"]
MCHexOf    == "0" :> 0 @@ "1" :> 1 @@ "2" :> 2 @@ "7" :> 7 @@ "f" :> 15
MCBytes    == [c \in {"x", "/", "0", "1", "2", "f", "Id", "Names",
                      "CR", "LF", "cl:", "te"} |-> <<c>>]
MCEscapes  == "/" :> <<"/">>
MCUnit     == "0078" :> 120
MCUtf8     == <<120>> :> <<120>>

MCCalls == { [op |-> "list"], [op |-> "ping"],
             [op |-> "kill", id |-> <<"1", "f">>],
             [op |-> "kill", id |-> <<"1", "x">>], [op |-> "kill", id |-> <<"1">>],
             [op |-> "stop", id |-> <<"1", "f">>, seconds |-> 600],
             [op |-> "stop", id |-> <<"1", "f">>, seconds |-> 601],
             [op |-> "stop", id |-> <<"1", "f">>, seconds |-> 0] }

NL == <<"CR", "LF">>
Many(n) == [i \in 1..n |-> "x"]

ReplyTo(line, fields, wire, framing, content, chunks, containers) ==
  [wire |-> <<line>> \o fields \o <<"BLANK">> \o wire, head |-> Len(fields) + 2,
   status |-> MCStatusOf[line], framing |-> framing, content |-> content,
   chunks |-> chunks, containers |-> containers]
Reply(line, fields, wire, framing, content) ==
  ReplyTo(line, fields, wire, framing, content, <<>>, "no listing")

LastChunk == <<"0">> \o NL \o NL
Chunk(size, data) == size \o NL \o data \o NL

\* A chunked reply: pairs of a size line and its data, then other bytes, which
\* begin a chunk with the data begun if they are not the last chunk.
ChunkedReply(fields, pairs, rest, begun, containers) ==
  LET Joined(s)  == FoldLeft(LAMBDA all, t : all \o t, <<>>, s)
      Wire(n)    == Joined([i \in 1..n |-> Chunk(pairs[i][1], pairs[i][2])])
      Content(n) == Joined([i \in 1..n |-> pairs[i][2]])
      place      == [n \in 0..Len(pairs) |-> Len(fields) + 3 + Len(Wire(n))]
      chunks     == [p \in {place[n] : n \in DOMAIN place} |->
                       Len(Content(CHOOSE n \in DOMAIN place : place[n] = p))]
  IN  ReplyTo("200", fields, Wire(Len(pairs)) \o rest, "chunked",
              Content(Len(pairs)) \o begun, chunks, containers)
Chunked(fields, pairs, rest) == ChunkedReply(fields, pairs, rest, <<>>, "no listing")
BadChunks(pairs, rest, begun) ==
  ChunkedReply(<<"te">>, pairs, rest, begun, "no listing")

Quoted(s) == <<"\"">> \o s \o <<"\"">>
Pair(key, value) == Quoted(<<key>>) \o <<":">> \o value
Named(id) == [id |-> id, names |-> <<>>]

\* Two containers.
TwoListed ==
  <<"[", "{">> \o Pair("Id", Quoted(<<"1", "f">>)) \o <<"}", ",", "{">>
    \o Pair("Id", Quoted(<<"2", "f">>)) \o <<"}", "]">>
TheTwo == <<Named(<<"1", "f">>), Named(<<"2", "f">>)>>
\* A container with names to normalize, and two entries that are none.
Mixed ==
  <<"[", "1", ",", "{">> \o Pair("Id", <<"1">>) \o <<"}", ",", "{">>
    \o Pair("Names", <<"[">> \o Quoted(<<"/", "/", "x">>) \o <<",">> \o Quoted(<<"/">>)
                       \o <<",", "2", "]">>)
    \o <<",">> \o Pair("Id", Quoted(<<"1", "f">>)) \o <<"}", "]">>
BadId == <<"[", "{">> \o Pair("Names", <<"1">>) \o <<",">>
         \o Pair("Id", Quoted(<<"1", "x">>)) \o <<"}", "]">>
NoNames == <<"[", "{">> \o Pair("Names", <<"1">>) \o <<",">>
           \o Pair("Id", Quoted(<<"1", "f">>)) \o <<"}", "]">>

Listing(fields, json, framing, containers) ==
  ReplyTo("200", fields, json, framing, json, <<>>, containers)
Listings ==
  { Listing(<<>>, TwoListed, "eof", TheTwo),
    Listing(<<"cl23">>, TwoListed, "length", TheTwo),
    ChunkedReply(<<"te">>,
                 << <<<<"f">>, SubSeq(TwoListed, 1, 15)>>, <<<<"2">>, SubSeq(TwoListed, 16, 17)>>,
                    <<<<"2">>, SubSeq(TwoListed, 18, 19)>>, <<<<"2">>, SubSeq(TwoListed, 20, 21)>>,
                    <<<<"2">>, SubSeq(TwoListed, 22, 23)>> >>,
                 LastChunk, <<>>, TheTwo),
    Listing(<<>>, Mixed, "eof", <<[id |-> <<"1", "f">>, names |-> <<<<"x">>>>]>>),
    Listing(<<>>, BadId, "eof", <<>>),
    Listing(<<>>, NoNames, "eof", <<Named(<<"1", "f">>)>>),
    Listing(<<"cl2">>, <<"[", "]">>, "length", <<>>),
    Reply("404", <<"cl2">>, <<"[", "]">>, "length", <<"[", "]">>),
    Reply("200", <<"cl2">>, <<"{", "}">>, "length", <<"{", "}">>),
    Reply("200", <<"cl2">>, <<"[", "1">>, "length", <<"[", "1">>) }

\* Replies that may be misread: a body line reads like a header field.  The first
\* two are accepted or not by the cut, the next may come back as its chunk and
\* one as a listing; the last two are listings, of no container.
Unframed(wire, containers) == ReplyTo("200", <<>>, wire, "eof", wire, <<>>, containers)
Misread ==
  { Unframed(<<"cl:", "1">> \o NL, "no listing"),
    Unframed(<<"cl:", "1", "2">>, "no listing"),
    Unframed(Chunk(<<"1">>, <<"te">>) \o LastChunk, "no listing"),
    Unframed(Chunk(<<"7">>, <<"[">> \o Quoted(NL \o <<"te">>) \o <<"]">>) \o LastChunk,
             "no listing"),
    Unframed(<<"[">> \o Quoted(NL \o <<"cl:", "1">>) \o <<"]">>, <<>>),
    Unframed(<<"[">> \o Quoted(NL \o <<"te">>) \o <<"]">>, <<>>) }

Statuses == {Reply(line, <<"cl2">>, <<"x", "x">>, "length", <<"x", "x">>) :
               line \in {"200", "304", "404", "409"}}

MCReplies == UNION { Listings, Misread, Statuses,
  { Reply("204", <<>>, <<>>, "eof", <<>>),
    Reply("200", <<"server">>, <<"x", "CR", "LF">>, "eof", <<"x", "CR", "LF">>),
    \* Two chunks, the first one's data looking like framing.
    Chunked(<<"cl0", "te">>, << <<<<"2">>, NL>>, <<<<"1", ";", "e">>, <<"x">>>> >>, LastChunk),
    Chunked(<<"te", "clx">>, << <<<<"0", "1">>, <<"x">>>> >>,
            <<"0">> \o NL \o <<"t">> \o NL \o NL),
    \* Unsound: surplus bytes, a bad head, bad chunks, too much of everything.
    Reply("200", <<"cl2">>, <<"x", "y", "z">>, "length", <<"x", "y">>),
    Reply("junk", <<"cl0">>, <<>>, "length", <<>>),
    Reply("200", <<"clx">>, <<"x">>, "length", <<"x">>),
    Reply("200", <<"cl99">>, Many(9), "length", Many(99)),
    Reply("200", [i \in 1..max_header_bytes |-> "server"], <<>>, "eof", <<>>),
    Reply("200", <<>>, Many(50), "eof", <<>>),
    BadChunks(<<>>, [i \in 1..20 |-> "1"], <<>>),
    BadChunks(<<>>, <<"1">> \o NL \o <<"x", "y">> \o LastChunk, <<"x">>),
    BadChunks(<<>>, <<"2", "2", "2">> \o NL \o <<"x">> \o LastChunk, <<>>),
    BadChunks(<<>>, <<"0">> \o NL \o <<"t", "t", "t">> \o NL \o NL, <<>>),
    \* The second size is too much together with the first, or wraps around.
    BadChunks(<< <<<<"2", "0">>, Many(32)>>, <<<<"2", "0">>, Many(32)>> >>, LastChunk, <<>>),
    BadChunks(<< <<<<"1">>, <<"x">>>> >>, Chunk(<<"f", "f">>, Many(80)), Many(80) \o NL) } }
=============================================================================
