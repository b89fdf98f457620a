------------------------------- MODULE MCJson -------------------------------
(* All short texts over small alphabets, one alphabet for each part of the *)
(* grammar, and every pair of units at the boundaries of UTF-8 and of the  *)
(* surrogates.                                                             *)
EXTENDS JsonGrammar, SequencesExt, TLC

MCUnit ==
  "0041" :> 65 @@ "007f" :> 127 @@ "0080" :> 128 @@ "07ff" :> 2047
  @@ "0800" :> 2048 @@ "20ac" :> 8364 @@ "d7ff" :> 55295 @@ "d800" :> 55296
  @@ "d83d" :> 55357 @@ "dbff" :> 56319 @@ "dc00" :> 56320 @@ "de00" :> 56832
  @@ "dfff" :> 57343 @@ "e000" :> 57344 @@ "ffff" :> 65535

\* Four hex digits without their \u are four bytes, here one number for them.
MCBytes ==
  [x |-> <<120>>, a |-> <<97>>, b |-> <<98>>, n |-> <<110>>, u |-> <<117>>]
  @@ "," :> <<44>> @@ " " :> <<32>> @@ ":" :> <<58>>
  @@ [q \in DOMAIN MCUnit |-> <<1000 + MCUnit[q]>>]
MCEscapes ==
  [b |-> <<8>>, f |-> <<12>>, n |-> <<10>>, r |-> <<13>>, t |-> <<9>>]
  @@ "\"" :> <<34>> @@ "\\" :> <<92>> @@ "/" :> <<47>>

\* The Unicode tables; half a pair alone is encoded like any other unit.
MCUtf8 ==
  <<65>> :> <<65>> @@ <<127>> :> <<127>>
  @@ <<128>> :> <<194, 128>> @@ <<2047>> :> <<223, 191>>
  @@ <<2048>> :> <<224, 160, 128>> @@ <<8364>> :> <<226, 130, 172>>
  @@ <<55295>> :> <<237, 159, 191>> @@ <<55296>> :> <<237, 160, 128>>
  @@ <<55357>> :> <<237, 160, 189>> @@ <<56319>> :> <<237, 175, 191>>
  @@ <<56320>> :> <<237, 176, 128>> @@ <<56832>> :> <<237, 184, 128>>
  @@ <<57343>> :> <<237, 191, 191>> @@ <<57344>> :> <<238, 128, 128>>
  @@ <<65535>> :> <<239, 191, 191>>
  @@ <<55296, 56320>> :> <<240, 144, 128, 128>>  \* U+10000
  @@ <<55296, 56832>> :> <<240, 144, 136, 128>>  \* U+10200
  @@ <<55296, 57343>> :> <<240, 144, 143, 191>>  \* U+103FF
  @@ <<55357, 56320>> :> <<240, 159, 144, 128>>  \* U+1F400
  @@ <<55357, 56832>> :> <<240, 159, 152, 128>>  \* U+1F600
  @@ <<55357, 57343>> :> <<240, 159, 159, 191>>  \* U+1F7FF
  @@ <<56319, 56320>> :> <<244, 143, 176, 128>>  \* U+10FC00
  @@ <<56319, 56832>> :> <<244, 143, 184, 128>>  \* U+10FE00
  @@ <<56319, 57343>> :> <<244, 143, 191, 191>>  \* U+10FFFF

Quoted(s) == <<"\"">> \o s \o <<"\"">>
Escaped(q) == <<"\\", "u", q>>
Name(c) == Quoted(<<c>>)

\* The texts made of at most n of the pieces.
Made(n, pieces) ==
  {FlattenSeq(parts) : parts \in SeqOf(pieces, n)}
Singly(chars) == {<<c>> : c \in chars}

Brackets == Made(5, Singly({"[", "]", "{", "}", ",", "1", " "}))
Numerals == Made(4, Singly({"-", "+", "0", "1", ".", "e", "999"}))
            \cup {<<"-", "1", ".", "0", "e", "+", "999">>}
Literal  == {<<"[", c, d, "]">> :
               c \in {"true", "false", "null", "trap"}, d \in {",", " ", "true", "]"}}
\* Members, whole and in parts, of an object.
ObjectTexts ==
  {<<"{">> \o t \o <<"}">> :
     t \in Made(4, { Name("a") \o <<":", "1">>, Name("a") \o <<" ", ":", "[", "]">>,
                     Name("b") \o <<":", "{", "}">>, Name("a"), <<":">>, <<",">>,
                     <<" ", "true">> })}
StringTexts ==
  {Quoted(t) : t \in Made(3, { <<"x">>, <<",">>, <<"\\", "n">>, <<"\\", "x">>, <<"\\">>,
                               <<"\"">>, <<"\\", "u">>, Escaped("20ac"),
                               Escaped("d83d"), Escaped("de00") })}
  \cup {Quoted(t) : t \in Made(4, { <<"x">>, Escaped("d83d"), Escaped("de00"),
                                    <<"\\", "u">> })}
  \cup {Quoted(t) : t \in Made(2, {Escaped(q) : q \in DOMAIN MCUnit})}
  \cup {<<"{">> \o Quoted(Escaped("d83d") \o Escaped(q)) \o <<":", "1", "}">> :
          q \in {"de00", "d83d", "none"}}
\* Open-ended texts, and nesting beyond the cap in every kind of container.
Others ==
  { <<"\"", "x">>, <<"\"", "\\">>, <<"\"", "\\", "u">>, <<"{", "\"", "a">>,
    <<"\"">> \o Escaped("d83d") \o <<"\\", "u">>,
    <<"[", "[", "[", "[", "]", "]", "]", "]">>,
    <<"{">> \o Name("a") \o <<":", "[">> \o Name("b") \o <<"]", "}">>,
    <<"{">> \o Name("a") \o <<":", "[", "{", "}", "]", "}">>,
    <<"[", "{">> \o Name("a") \o <<":", "1", "}", ",", "[", "]", "]">> }

MCTexts == UNION {Brackets, Numerals, Literal, ObjectTexts, StringTexts, Others}
=============================================================================
