-------------------------------- MODULE Json --------------------------------
(***************************************************************************)
(* The recursive-descent JSON parser (src/json.cpp) as a machine with a    *)
(* stack: a frame for each parse_array or parse_object that is under way,  *)
(* so that the depth argument of parse_value is the height of the stack.   *)
(*                                                                         *)
(* The text is a sequence of strings, one for each character outside the   *)
(* literals true, false, null and the four digits of a \u escape, which    *)
(* are one string each.  A value is a record whose one field names its     *)
(* type; a string value is the sequence of its bytes.                      *)
(***************************************************************************)
EXTENDS Integers, Sequences, FiniteSets, FiniteSetsExt

CONSTANTS
  Texts,        \* what the parser is given
  kMaxDepth,    \* 64
  Whitespace, Digit, Plus,  \* blanks, decimal digits, the two signs
  Huge,         \* the digits that, in an exponent, take a number out of range
  BadLiteral,   \* what starts like a literal and is none
  Bytes,        \* Bytes[c]: what c is inside a string, as bytes
  Escapes,      \* Escapes[c]: the bytes that \c stands for
  Unit          \* Unit[q]: the value of four hex digits

IsList(s) == s \in Seq({s[i] : i \in DOMAIN s})

Syntax == {"[", "]", "{", "}", ",", ":", "\"", "\\", ".", "e", "true", "false", "null", "end"}
\* No character is in two of these.
Alphabets == <<Whitespace, Digit, Plus, BadLiteral, Syntax>>

ASSUME JsonAssumption ==
  /\ kMaxDepth \in Nat
  /\ \A c \in DOMAIN Bytes : IsList(Bytes[c])
  /\ \A c \in DOMAIN Escapes : IsList(Escapes[c])
  /\ \A q \in DOMAIN Unit : Unit[q] \in Nat /\ Unit[q] < 65536
  /\ \A t \in Texts : t \in Seq(STRING)
  /\ "end" \notin UNION {Plus, DOMAIN Unit, DOMAIN Bytes, DOMAIN Escapes}
  /\ "u" \notin DOMAIN Escapes

ASSUME AlphabetAssumption ==
  \A i, j \in DOMAIN Alphabets : i # j => Alphabets[i] \cap Alphabets[j] = {}

VARIABLES
  text, pos_,
  err_,         \* the error message, "none" while there is none
  ctl,          \* the function that runs: "value", "key", "keystring",
                \* "string", "returned" from a value; "ok", "failed"
  stack,        \* [arr] or [obj, key]: the containers under construction
  str,          \* the string being read
  out           \* the value parse_value has returned

jsonVars == <<text, pos_, err_, ctl, stack, str, out>>

Null == [null |-> TRUE]

JsonInit(given) ==
  /\ text = given
  /\ pos_ = 1 /\ err_ = "none" /\ ctl = "start"
  /\ stack = <<>> /\ str = <<>> /\ out = Null

\* The character at i, "end" past the end.
At(i) == IF i <= Len(text) THEN text[i] ELSE "end"

\* The first place from i on that is not in S.
Past(i, S) ==
  Min({j \in i..(Len(text) + 1) : j = Len(text) + 1 \/ text[j] \notin S})
skip_ws(i) == Past(i, Whitespace)

\* fail(): the first message stays.
JsonFails(msg) ==
  /\ ctl' = "failed"
  /\ err_' = IF err_ = "none" THEN msg ELSE err_
  /\ UNCHANGED <<text, pos_, stack, str, out>>

\* parse_value returns v, the text being read up to i.
JsonReturns(v, i) ==
  /\ ctl' = "returned" /\ out' = v /\ pos_' = i
  /\ UNCHANGED <<text, err_, str>>

parse ==
  /\ ctl = "start"
  /\ ctl' = "value" /\ pos_' = skip_ws(pos_)
  /\ UNCHANGED <<text, err_, stack, str, out>>

----------------------------------------------------------------------------
(* parse_value(out, depth) *)

\* Mutant: parse_array hands its own depth on.
Depth_ObjectsOnly == Cardinality({i \in DOMAIN stack : "obj" \in DOMAIN stack[i]})

Depth == Len(stack)

TooDeep ==
  /\ ctl = "value" /\ Depth > kMaxDepth
  /\ JsonFails("JSON nesting too deep")

ValueAt(c) == ctl = "value" /\ Depth <= kMaxDepth /\ At(pos_) = c

EndOfInput ==
  /\ ValueAt("end")
  /\ JsonFails("unexpected end of input")

\* An opening bracket: an empty container, or a frame for one that is not.
Open(opening, closing, empty, frame, next) ==
  /\ ValueAt(opening)
  /\ LET i == skip_ws(pos_ + 1)
     IN  IF At(i) = closing
         THEN JsonReturns(empty, i + 1) /\ UNCHANGED stack
         ELSE /\ stack' = Append(stack, frame)
              /\ pos_' = i /\ ctl' = next
              /\ UNCHANGED <<text, err_, str, out>>

OpenArray  == Open("[", "]", [arr |-> <<>>], [arr |-> <<>>], "value")
OpenObject == Open("{", "}", [obj |-> <<>>], [obj |-> <<>>, key |-> <<>>], "key")

parse_literal ==
  \/ \E lit \in {"true", "false", "null"} :
       /\ ValueAt(lit)
       /\ JsonReturns(IF lit = "null" THEN Null ELSE [bool |-> lit = "true"], pos_ + 1)
       /\ UNCHANGED stack
  \/ \E c \in BadLiteral : ValueAt(c) /\ JsonFails("invalid literal")

\* What parse_number takes, from left to right.
Signed(i)   == IF At(i) \in Plus THEN i + 1 ELSE i
Whole(i)    == Past(Signed(i), Digit)
Fraction(i) == IF At(i) = "." THEN Past(i + 1, Digit) ELSE i
Exponent(i) == IF At(i) = "e" THEN Past(Signed(i + 1), Digit) ELSE i

\* std::stod gives up on a number, not 0, with an exponent out of range.
OutOfRange(number) ==
  \E i, e, j \in DOMAIN number :
    /\ i < e /\ e < j /\ number[e] = "e" /\ number[j] \in Huge
    /\ number[i] \in Digit \ {"0"}

parse_number ==
  /\ ctl = "value" /\ Depth <= kMaxDepth
  /\ At(pos_) \notin {"end", "[", "{", "\"", "true", "false", "null"} \cup BadLiteral
  /\ LET end    == Exponent(Fraction(Whole(pos_)))
         number == SubSeq(text, pos_, end - 1)
     IN  IF Whole(pos_) = Signed(pos_) THEN JsonFails("invalid number")
         ELSE IF OutOfRange(number) THEN JsonFails("number out of range")
         ELSE JsonReturns([num |-> number], end) /\ UNCHANGED stack

----------------------------------------------------------------------------
(* parse_string(out), of a value or of a key *)

InString == ctl \in {"string", "keystring"}

parse_string ==
  \/ /\ ValueAt("\"") \/ (ctl = "key" /\ At(pos_) = "\"")
     /\ ctl' = IF ctl = "key" THEN "keystring" ELSE "string"
     /\ str' = <<>> /\ pos_' = pos_ + 1
     /\ UNCHANGED <<text, err_, stack, out>>
  \/ ctl = "key" /\ At(pos_) # "\"" /\ JsonFails("expected string")

Reads(bytes, i) ==
  /\ str' = str \o bytes /\ pos_' = i
  /\ UNCHANGED <<text, ctl, stack, out>>

PlainCharacter ==
  /\ InString /\ At(pos_) \in DOMAIN Bytes \ {"\"", "\\"}
  /\ Reads(Bytes[At(pos_)], pos_ + 1) /\ UNCHANGED err_

SimpleEscape ==
  /\ InString /\ At(pos_) = "\\" /\ At(pos_ + 1) \in DOMAIN Escapes
  /\ Reads(Escapes[At(pos_ + 1)], pos_ + 2) /\ UNCHANGED err_

BadEscape ==
  /\ InString /\ At(pos_) = "\\"
  /\ At(pos_ + 1) \notin DOMAIN Escapes \cup {"end", "u"}
  /\ JsonFails("invalid escape sequence")

Tail6(n) == 128 + (n % 64)
append_utf8(cp) ==
  IF cp < 128 THEN <<cp>>
  ELSE IF cp < 2048 THEN <<192 + (cp \div 64), Tail6(cp)>>
  ELSE IF cp < 65536
  THEN <<224 + (cp \div 4096), Tail6(cp \div 64), Tail6(cp)>>
  ELSE <<240 + (cp \div 262144), Tail6(cp \div 4096), Tail6(cp \div 64), Tail6(cp)>>

IsHigh(u) == u \in 55296..56319
IsLow(u)  == u \in 56320..57343
Combined(high, low) == 65536 + (high - 55296) * 1024 + (low - 56320)

\* Mutants: a failed low half is not read again; the whole pair is.
Resume_Skips(i) == i + 3
Resume_Back(i)  == i - 3

\* Where reading goes on after a high half that no low half follows.
Resume(i) == i

IsHex4(q) == q \in DOMAIN Unit

\* \u: a high half takes the low half after it along.  If there is none the
\* parser goes back, but keeps the message of a malformed one.
UnicodeEscape ==
  /\ InString /\ At(pos_) = "\\" /\ At(pos_ + 1) = "u"
  /\ LET q    == At(pos_ + 2)
         next == pos_ + 3
         low  == At(next + 2)
     IN  IF ~IsHex4(q) THEN JsonFails("invalid \\u escape")
         ELSE IF ~(IsHigh(Unit[q]) /\ At(next) = "\\" /\ At(next + 1) = "u")
         THEN Reads(append_utf8(Unit[q]), next) /\ UNCHANGED err_
         ELSE IF ~IsHex4(low)
         THEN Reads(append_utf8(Unit[q]), Resume(next)) /\ err_' = "invalid \\u escape"
         ELSE IF IsLow(Unit[low])
         THEN Reads(append_utf8(Combined(Unit[q], Unit[low])), next + 3) /\ UNCHANGED err_
         ELSE Reads(append_utf8(Unit[q]), Resume(next)) /\ UNCHANGED err_

Unterminated ==
  /\ InString
  /\ At(pos_) = "end" \/ (At(pos_) = "\\" /\ At(pos_ + 1) = "end")
  /\ JsonFails("unterminated string")

StringEnds ==
  /\ ctl = "string" /\ At(pos_) = "\""
  /\ JsonReturns([str |-> str], pos_ + 1) /\ UNCHANGED stack

----------------------------------------------------------------------------
(* The loops of parse_array and parse_object *)

Top == stack[Len(stack)]
Popped == SubSeq(stack, 1, Len(stack) - 1)
IsArray == "arr" \in DOMAIN Top

KeyEnds ==
  /\ ctl = "keystring" /\ At(pos_) = "\""
  /\ LET i == skip_ws(pos_ + 1)
     IN  IF At(i) # ":" THEN JsonFails("expected ':' after object key")
         ELSE /\ stack' = Append(Popped, [obj |-> Top.obj, key |-> str])
              /\ ctl' = "value" /\ pos_' = skip_ws(i + 1)
              /\ UNCHANGED <<text, err_, str, out>>

\* Mutant: the first of two equal keys is kept.
WithMember_First(obj, key, val) ==
  [k \in DOMAIN obj \cup {key} |-> IF k \in DOMAIN obj THEN obj[k] ELSE val]

\* obj[key] = val: the last of two equal keys is kept.
WithMember(obj, key, val) ==
  [k \in DOMAIN obj \cup {key} |-> IF k = key THEN val ELSE obj[k]]

\* A value has come back to the loop of its container, which is now filled.
Continue(filled, frame, next, closing) ==
  LET i == skip_ws(pos_)
  IN  IF At(i) = ","
      THEN /\ stack' = Append(Popped, frame)
           /\ ctl' = next /\ pos_' = skip_ws(i + 1)
           /\ UNCHANGED <<text, err_, str, out>>
      ELSE IF At(i) = closing
      THEN JsonReturns(filled, i + 1) /\ stack' = Popped
      ELSE JsonFails("expected ',' or the end of the container")

TakeElement ==
  /\ ctl = "returned" /\ stack # <<>> /\ IsArray
  /\ LET filled == [arr |-> Append(Top.arr, out)]
     IN  Continue(filled, filled, "value", "]")

TakeMember ==
  /\ ctl = "returned" /\ stack # <<>> /\ ~IsArray
  /\ LET obj == WithMember(Top.obj, Top.key, out)
     IN  Continue([obj |-> obj], [obj |-> obj, key |-> <<>>], "key", "}")

\* parse() itself: the value has to be all there is.
Finished ==
  /\ ctl = "returned" /\ stack = <<>>
  /\ pos_' = skip_ws(pos_)
  /\ IF pos_' = Len(text) + 1 THEN ctl' = "ok" /\ UNCHANGED err_
     ELSE ctl' = "failed" /\ err_' = "trailing characters after JSON value"
  /\ UNCHANGED <<text, stack, str, out>>

JsonStep ==
  \/ parse \/ TooDeep \/ EndOfInput \/ OpenArray \/ OpenObject
  \/ parse_literal \/ parse_number \/ parse_string
  \/ PlainCharacter \/ SimpleEscape \/ BadEscape \/ UnicodeEscape
  \/ Unterminated \/ StringEnds \/ KeyEnds
  \/ TakeElement \/ TakeMember \/ Finished

JsonDone == ctl \in {"ok", "failed"}
JsonNext == JsonStep \/ (JsonDone /\ UNCHANGED jsonVars)
JsonSpec == (\E t \in Texts : JsonInit(t)) /\ [][JsonNext]_jsonVars

----------------------------------------------------------------------------
(* Properties *)

JsonTypeOK ==
  /\ text \in Seq(STRING)
  /\ pos_ \in 1..(Len(text) + 1)
  /\ ctl \in {"start", "value", "key", "keystring", "string", "returned", "ok", "failed"}
  /\ \A i \in DOMAIN stack : DOMAIN stack[i] \in {{"arr"}, {"obj", "key"}}
  /\ ctl \in {"key", "keystring"} => stack # <<>> /\ ~IsArray

(* However deep a text is nested, the recursion is not: no parse_value is  *)
(* entered more than one level beyond kMaxDepth (README:36-37).            *)
RecursionIsBounded == Len(stack) <= kMaxDepth + 1

(* Every turn of every loop and every call consumes some of the text or    *)
(* gives up, also where parse_string goes back over half a surrogate pair: *)
(* no text keeps the parser busy for more steps than it has characters     *)
(* (json.cpp:159-166).                                                     *)
Consumes == pos_' > pos_ \/ ctl' \in {"ok", "failed"} \/ ctl = "start"
EveryStepConsumes == [][Consumes]_jsonVars

(* json.hpp:53-54: err "is set on failure and left empty on success".  One *)
(* path records an error and reads on, over a malformed low half; it never *)
(* ends in a success.                                                      *)
ErrTellsTheOutcome == JsonDone => (ctl = "failed" <=> err_ # "none")
=============================================================================
