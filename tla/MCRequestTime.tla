---------------------------- MODULE MCRequestTime ----------------------------
(* The shortest replies of each framing, which take up to six receives.    *)
EXTENDS RequestTime, TLC

MCStatusOf == "204" :> 204 @@ "200" :> 200
MCFieldOf  == <<"cl2">> :> "content-length" @@ <<"te">> :> "chunked"
MCLengthOf == <<"cl2">> :> 2
MCHexOf    == "0" :> 0 @@ "1" :> 1

Reply(wire, head, framing, content, chunks) ==
  [wire |-> wire, head |-> head, status |-> 200, framing |-> framing,
   content |-> content, chunks |-> chunks]

MCReplies ==
  { Reply(<<"200", "cl2", "BLANK", "x", "x">>, 3, "length", <<"x", "x">>, <<>>),
    Reply(<<"200", "BLANK", "x", "x">>, 2, "eof", <<"x", "x">>, <<>>),
    Reply(<<"200", "te", "BLANK", "0", "CR", "LF", "CR", "LF">>, 3, "chunked", <<>>,
          4 :> 0) }
=============================================================================
