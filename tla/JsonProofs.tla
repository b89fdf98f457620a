----------------------------- MODULE JsonProofs -----------------------------
(* Proofs about the JSON parser, for any texts, alphabets and depth cap.   *)
EXTENDS JsonGrammar, LeastNumbers, SequenceTheorems, TLAPS

----------------------------------------------------------------------------
(* Sequences of anything *)

LEMMA SeqIsList ==
  ASSUME NEW S, NEW s \in Seq(S)
  PROVE  IsList(s)
<1> DEFINE R == {s[i] : i \in DOMAIN s}
<1>1. Len(s) \in Nat /\ DOMAIN s = 1..Len(s) /\ \A i \in 1..Len(s) : s[i] \in R
  OBVIOUS
<1>2. s = [i \in 1..Len(s) |-> s[i]]
  OBVIOUS
<1>3. s \in Seq(R)
  <2> HIDE DEF R
  <2> QED BY <1>1, <1>2, SeqDef
<1> QED
  BY <1>3 DEF IsList

LEMMA Pushed ==
  ASSUME NEW s, IsList(s), NEW f
  PROVE  /\ IsList(Append(s, f))
         /\ Len(s) \in Nat /\ DOMAIN s = 1..Len(s)
         /\ Len(Append(s, f)) = Len(s) + 1
         /\ DOMAIN Append(s, f) = 1..(Len(s) + 1)
         /\ \A i \in 1..Len(s) : Append(s, f)[i] = s[i]
         /\ Append(s, f)[Len(s) + 1] = f
<1> DEFINE R == {s[i] : i \in DOMAIN s} \cup {f}
<1>1. s \in Seq(R)
  <2>1. s \in Seq({s[i] : i \in DOMAIN s})
    BY DEF IsList
  <2> QED BY <2>1
<1>2. f \in R
  OBVIOUS
<1> HIDE DEF R
<1>3. Append(s, f) \in Seq(R)
  BY <1>1, <1>2
<1>4. IsList(Append(s, f))
  BY <1>3, SeqIsList
<1> QED
  BY <1>1, <1>2, <1>3, <1>4

LEMMA Popping ==
  ASSUME NEW s, IsList(s), s # <<>>, NEW p, p = SubSeq(s, 1, Len(s) - 1)
  PROVE  /\ IsList(p)
         /\ Len(s) \in Nat \ {0} /\ DOMAIN s = 1..Len(s)
         /\ Len(p) = Len(s) - 1
         /\ DOMAIN p = 1..(Len(s) - 1)
         /\ \A i \in 1..(Len(s) - 1) : p[i] = s[i]
<1> DEFINE R == {s[i] : i \in DOMAIN s}
<1>1. s \in Seq(R)
  BY DEF IsList
<1> HIDE DEF R
<1>2. Len(s) \in Nat \ {0} /\ DOMAIN s = 1..Len(s)
  BY <1>1
<1>3. p \in Seq(R) /\ Len(p) = Len(s) - 1 /\ \A i \in 1..(Len(s) - 1) : p[i] = s[i]
  BY <1>1, <1>2
<1>4. IsList(p)
  BY <1>3, SeqIsList
<1> QED
  BY <1>2, <1>3, <1>4

----------------------------------------------------------------------------
(* The text *)

End == Len(text) + 1

LEMMA TextIsFinite ==
  ASSUME JsonTypeOK
  PROVE  /\ Len(text) \in Nat /\ End \in Nat \ {0}
         /\ pos_ \in 1..End
         /\ \A i \in Int : At(i) # "end" => i < End
<1>1. text \in Seq(STRING) /\ pos_ \in 1..(Len(text) + 1)
  BY DEF JsonTypeOK
<1> QED
  BY <1>1 DEF At, End

LEMMA PastBounds ==
  ASSUME JsonTypeOK, NEW i \in 1..End, NEW S
  PROVE  Past(i, S) \in i..End
<1> DEFINE T == {j \in i..End : j = End \/ text[j] \notin S}
<1>1. End \in Nat \ {0}
  BY TextIsFinite
<1>2. T \subseteq Nat /\ End \in T
  BY <1>1
<1>3. Past(i, S) = Min(T)
  BY DEF Past, End
<1>4. Min(T) \in T
  <2> HIDE DEF T
  <2> QED BY <1>2, MinExists
<1> QED
  BY <1>3, <1>4

LEMMA SkipBounds ==
  ASSUME JsonTypeOK, NEW i \in 1..End
  PROVE  skip_ws(i) \in i..End
BY PastBounds DEF skip_ws

----------------------------------------------------------------------------
(* A low half that is malformed: the escape the parser has gone back to    *)
(* fails when it is read again, so the message it has left is the right    *)
(* one.                                                                    *)
Doomed ==
  /\ InString /\ At(pos_) = "\\" /\ At(pos_ + 1) = "u"
  /\ ~IsHex4(At(pos_ + 2))

JsonInv ==
  /\ JsonTypeOK
  /\ IsList(stack)
  /\ RecursionIsBounded
  /\ ctl = "failed" => err_ # "none"
  /\ err_ # "none" => ctl = "failed" \/ Doomed

JsonStart == \E t \in Texts : JsonInit(t)

LEMMA JsonInvInit == JsonStart => JsonInv
<1> SUFFICES ASSUME NEW t \in Texts, JsonInit(t) PROVE JsonInv
  BY DEF JsonStart
<1>1. text \in Seq(STRING) /\ stack = <<>> /\ pos_ = 1 /\ err_ = "none" /\ ctl = "start"
  BY JsonAssumption DEF JsonInit
<1>2. Len(text) \in Nat
  BY <1>1
<1>3. stack \in Seq({}) /\ Len(stack) = 0 /\ DOMAIN stack = {}
  BY <1>1
<1>4. IsList(stack)
  BY <1>3, SeqIsList
<1>5. JsonTypeOK
  BY <1>1, <1>2, <1>3 DEF JsonTypeOK
<1>6. RecursionIsBounded
  BY <1>3, JsonAssumption DEF RecursionIsBounded
<1> QED
  BY <1>1, <1>4, <1>5, <1>6 DEF JsonInv

----------------------------------------------------------------------------
(* What the ways of going on preserve *)

LEMMA FailsKeeps ==
  ASSUME JsonInv, NEW msg, msg # "none", JsonFails(msg)
  PROVE  JsonInv' /\ Consumes
<1>1. JsonTypeOK'
  BY DEF JsonInv, JsonTypeOK, JsonFails
<1>2. IsList(stack)' /\ RecursionIsBounded'
  BY DEF JsonInv, JsonFails, IsList, RecursionIsBounded
<1>3. err_' # "none" /\ ctl' = "failed"
  BY DEF JsonFails
<1> QED
  BY <1>1, <1>2, <1>3 DEF JsonInv, Consumes

\* Only reading the escape again leads on from a doomed state.
LEMMA Clean ==
  ASSUME JsonInv, ctl # "failed", ~Doomed
  PROVE  err_ = "none"
BY DEF JsonInv

LEMMA ReturnsKeeps ==
  ASSUME JsonInv, err_ = "none", NEW v, NEW i \in (pos_ + 1)..End,
         JsonReturns(v, i), UNCHANGED stack
  PROVE  JsonInv' /\ Consumes
<1>1. /\ pos_ \in 1..End /\ End \in Nat
  BY TextIsFinite DEF JsonInv
<1>2. JsonTypeOK'
  BY <1>1 DEF JsonInv, JsonTypeOK, JsonReturns, End
<1>3. IsList(stack)' /\ RecursionIsBounded'
  BY DEF JsonInv, JsonReturns, IsList, RecursionIsBounded
<1>4. Consumes
  BY <1>1 DEF JsonReturns, Consumes
<1> QED
  BY <1>2, <1>3, <1>4 DEF JsonInv, JsonReturns

LEMMA ReadsKeeps ==
  ASSUME JsonInv, InString, NEW bytes, NEW i \in (pos_ + 1)..End,
         Reads(bytes, i), err_' = "none" \/ Doomed'
  PROVE  JsonInv' /\ Consumes
<1>1. /\ pos_ \in 1..End /\ End \in Nat
  BY TextIsFinite DEF JsonInv
<1>2. JsonTypeOK'
  BY <1>1 DEF JsonInv, JsonTypeOK, Reads, End, InString, IsArray, Top
<1>3. IsList(stack)' /\ RecursionIsBounded'
  BY DEF JsonInv, Reads, IsList, RecursionIsBounded
<1>4. Consumes
  BY <1>1 DEF Reads, Consumes
<1> QED
  BY <1>2, <1>3, <1>4 DEF JsonInv, Reads, InString

\* A frame comes on top of s: of the stack, or of what is below its top.
LEMMA PushKeeps ==
  ASSUME JsonInv, err_ = "none",
         NEW s, IsList(s), Len(s) <= kMaxDepth,
         \A i \in DOMAIN s : DOMAIN s[i] \in {{"arr"}, {"obj", "key"}},
         NEW f, DOMAIN f \in {{"arr"}, {"obj", "key"}},
         stack' = Append(s, f),
         pos_' \in (pos_ + 1)..End, UNCHANGED <<text, err_>>,
         ctl' \in {"value", "key"}, ctl' = "key" => "arr" \notin DOMAIN f
  PROVE  JsonInv' /\ Consumes
<1>1. pos_ \in 1..End /\ End \in Nat /\ text \in Seq(STRING)
  BY TextIsFinite DEF JsonInv, JsonTypeOK
<1>2. /\ IsList(stack')
      /\ Len(s) \in Nat /\ DOMAIN s = 1..Len(s)
      /\ Len(stack') = Len(s) + 1
      /\ DOMAIN stack' = 1..(Len(s) + 1)
      /\ \A i \in 1..Len(s) : stack'[i] = s[i]
      /\ stack'[Len(s) + 1] = f
  BY Pushed
<1>3. \A i \in DOMAIN stack' : DOMAIN stack'[i] \in {{"arr"}, {"obj", "key"}}
  BY <1>2
<1>4. ctl' \in {"key", "keystring"} => stack' # <<>> /\ "arr" \notin DOMAIN stack'[Len(stack')]
  <2>1. stack' # <<>>
    BY <1>2
  <2> QED BY <2>1, <1>2
<1>5. JsonTypeOK'
  BY <1>1, <1>3, <1>4 DEF JsonTypeOK, End, IsArray, Top
<1>6. Len(stack') <= kMaxDepth + 1
  BY <1>2, JsonAssumption
<1>7. IsList(stack)'
  BY <1>2 DEF IsList
<1>8. RecursionIsBounded'
  BY <1>6 DEF RecursionIsBounded
<1> QED
  BY <1>1, <1>5, <1>7, <1>8 DEF JsonInv, Consumes

LEMMA PoppedBelow ==
  ASSUME JsonInv, stack # <<>>
  PROVE  /\ IsList(Popped) /\ Len(Popped) <= kMaxDepth
         /\ \A i \in DOMAIN Popped : DOMAIN Popped[i] \in {{"arr"}, {"obj", "key"}}
<1>1. /\ IsList(Popped)
      /\ Len(stack) \in Nat \ {0} /\ DOMAIN stack = 1..Len(stack)
      /\ Len(Popped) = Len(stack) - 1
      /\ DOMAIN Popped = 1..(Len(stack) - 1)
      /\ \A i \in 1..(Len(stack) - 1) : Popped[i] = stack[i]
  BY Popping DEF Popped, JsonInv
<1>2. Len(stack) <= kMaxDepth + 1
  BY DEF JsonInv, RecursionIsBounded
<1>3. \A i \in DOMAIN stack : DOMAIN stack[i] \in {{"arr"}, {"obj", "key"}}
  BY DEF JsonInv, JsonTypeOK
<1> QED
  BY <1>1, <1>2, <1>3, JsonAssumption

\* The loop of an array goes on with a value, that of an object with a key.
FrameFor(next, frame) ==
  \/ next = "value" /\ DOMAIN frame = {"arr"}
  \/ next = "key" /\ DOMAIN frame = {"obj", "key"}

LEMMA FrameFits ==
  ASSUME NEW next, NEW frame, FrameFor(next, frame)
  PROVE  /\ next \in {"value", "key"} /\ (next = "key" => "arr" \notin DOMAIN frame)
         /\ DOMAIN frame \in {{"arr"}, {"obj", "key"}}
BY DEF FrameFor

LEMMA OpenKeeps ==
  ASSUME JsonInv, NEW opening, opening # "end", NEW closing, closing # "end",
         NEW empty, NEW frame, NEW next, FrameFor(next, frame),
         Open(opening, closing, empty, frame, next)
  PROVE  JsonInv' /\ Consumes
<1> DEFINE i == skip_ws(pos_ + 1)
<1>1. pos_ \in 1..End /\ End \in Nat /\ \A j \in Int : At(j) # "end" => j < End
  BY TextIsFinite DEF JsonInv
<1>2. ctl = "value" /\ Depth <= kMaxDepth /\ pos_ + 1 \in 1..End
  BY <1>1 DEF Open, ValueAt
<1>3. i \in (pos_ + 1)..End
  BY <1>2, SkipBounds DEF JsonInv
<1>4. err_ = "none"
  BY <1>2, Clean DEF Doomed, InString
<1> HIDE DEF i
<1>5. CASE At(i) = closing
  <2>1. i + 1 \in (pos_ + 1)..End
    BY <1>1, <1>3, <1>5
  <2>2. JsonReturns(empty, i + 1) /\ UNCHANGED stack
    BY <1>5 DEF Open, i
  <2> QED
    BY <2>1, <2>2, <1>4, ReturnsKeeps
<1>6. CASE At(i) # closing
  <2>1. /\ stack' = Append(stack, frame) /\ pos_' = i /\ ctl' = next
        /\ UNCHANGED <<text, err_>>
    BY <1>6 DEF Open, i
  <2>2. /\ IsList(stack) /\ Len(stack) <= kMaxDepth
        /\ \A j \in DOMAIN stack : DOMAIN stack[j] \in {{"arr"}, {"obj", "key"}}
    BY <1>2 DEF JsonInv, JsonTypeOK, Depth
  <2> QED
    BY <2>1, <2>2, <1>3, <1>4, FrameFits, PushKeeps
<1> QED
  BY <1>5, <1>6

LEMMA ContinueKeeps ==
  ASSUME JsonInv, ctl = "returned", stack # <<>>,
         NEW filled, NEW closing, closing # "end",
         NEW frame, NEW next, FrameFor(next, frame),
         Continue(filled, frame, next, closing)
  PROVE  JsonInv' /\ Consumes
<1> DEFINE i == skip_ws(pos_)
<1>1. pos_ \in 1..End /\ End \in Nat /\ \A j \in Int : At(j) # "end" => j < End
  BY TextIsFinite DEF JsonInv
<1>2. i \in pos_..End
  BY <1>1, SkipBounds DEF JsonInv
<1>3. err_ = "none"
  BY Clean DEF Doomed, InString
<1> HIDE DEF i
<1>0. i \in Int /\ (At(i) # "end" => i < End)
  BY <1>1, <1>2
<1>4. CASE At(i) = ","
  <2>0. i < End
    BY <1>0, <1>4
  <2>1. i + 1 \in 1..End
    BY <2>0, <1>0, <1>1, <1>2
  <2>2. skip_ws(i + 1) \in (i + 1)..End
    BY <2>1, SkipBounds DEF JsonInv
  <2>3. /\ stack' = Append(Popped, frame) /\ pos_' = skip_ws(i + 1) /\ ctl' = next
        /\ UNCHANGED <<text, err_>>
    BY <1>4 DEF Continue, i
  <2>4. pos_' \in (pos_ + 1)..End
    BY <2>2, <2>3, <1>1, <1>2
  <2> QED
    BY <2>3, <2>4, <1>3, FrameFits, PoppedBelow, PushKeeps
<1>5. CASE At(i) = closing /\ At(i) # ","
  <2>0. i < End
    BY <1>0, <1>5
  <2>1. i + 1 \in (pos_ + 1)..End
    BY <2>0, <1>0, <1>1, <1>2
  <2>2. JsonReturns(filled, i + 1) /\ stack' = Popped
    BY <1>5 DEF Continue, i
  <2>3. JsonTypeOK'
    BY <2>1, <2>2, <1>1, PoppedBelow DEF JsonInv, JsonTypeOK, JsonReturns, End
  <2>4. IsList(stack)' /\ RecursionIsBounded'
    <3>1. IsList(stack') /\ Len(stack') <= kMaxDepth
      BY <2>2, PoppedBelow
    <3>2. Len(stack') \in Nat
      BY <2>2, Popping DEF Popped, JsonInv
    <3> QED
      BY <3>1, <3>2, JsonAssumption DEF IsList, RecursionIsBounded
  <2>5. err_' = "none" /\ ctl' = "returned" /\ pos_' > pos_
    BY <2>1, <2>2, <1>1, <1>3 DEF JsonReturns
  <2> QED
    BY <2>3, <2>4, <2>5 DEF JsonInv, Consumes
<1>6. CASE At(i) # closing /\ At(i) # ","
  <2>1. JsonFails("expected ',' or the end of the container")
    BY <1>6 DEF Continue, i
  <2> QED
    BY <2>1, FailsKeeps
<1> QED
  BY <1>4, <1>5, <1>6

----------------------------------------------------------------------------
(* Step by step *)

LEMMA NumberBounds ==
  ASSUME JsonTypeOK, NEW i \in 1..End
  PROVE  /\ Signed(i) \in i..End
         /\ Whole(i) \in Signed(i)..End
         /\ Fraction(i) \in i..End
         /\ Exponent(i) \in i..End
<1>1. End \in Nat /\ \A j \in Int : At(j) # "end" => j < End
  BY TextIsFinite
<1>2. \A j \in 1..End : At(j) # "end" => j + 1 \in 1..End
  BY <1>1
<1>3. "end" \notin Plus
  BY JsonAssumption
<1>4. \A j \in 1..End : Signed(j) \in j..End
  BY <1>1, <1>2, <1>3 DEF Signed
<1>5. \A j \in 1..End : Past(j, Digit) \in j..End
  BY PastBounds
<1>6. Signed(i) \in i..End /\ Signed(i) \in 1..End
  BY <1>1, <1>4
<1>7. Whole(i) \in Signed(i)..End
  BY <1>5, <1>6 DEF Whole
<1>8. Fraction(i) \in i..End
  BY <1>1, <1>2, <1>5 DEF Fraction
<1>9. Exponent(i) \in i..End
  <2>1. CASE At(i) = "e"
    <3>1. i + 1 \in 1..End
      BY <1>2, <2>1
    <3>2. Signed(i + 1) \in (i + 1)..End /\ Signed(i + 1) \in 1..End
      BY <1>1, <1>4, <3>1
    <3>3. Past(Signed(i + 1), Digit) \in Signed(i + 1)..End
      BY <1>5, <3>2
    <3> QED
      BY <1>1, <3>2, <3>3, <2>1 DEF Exponent
  <2>2. CASE At(i) # "e"
    BY <1>1, <2>2 DEF Exponent
  <2> QED
    BY <2>1, <2>2
<1> QED
  BY <1>6, <1>7, <1>8, <1>9

LEMMA NumberKeeps == JsonInv /\ parse_number => JsonInv' /\ Consumes
<1> SUFFICES ASSUME JsonInv, parse_number PROVE JsonInv' /\ Consumes
  OBVIOUS
<1> DEFINE end    == Exponent(Fraction(Whole(pos_)))
           number == SubSeq(text, pos_, end - 1)
<1>1. JsonTypeOK /\ pos_ \in 1..End /\ End \in Nat
  BY TextIsFinite DEF JsonInv
<1>2. err_ = "none"
  BY Clean DEF parse_number, Doomed, InString
<1>3. CASE Whole(pos_) = Signed(pos_)
  <2>1. JsonFails("invalid number")
    BY <1>3 DEF parse_number
  <2> QED
    BY <2>1, FailsKeeps
<1>4. CASE Whole(pos_) # Signed(pos_) /\ OutOfRange(number)
  <2>1. JsonFails("number out of range")
    BY <1>4 DEF parse_number
  <2> QED
    BY <2>1, FailsKeeps
<1>5. CASE Whole(pos_) # Signed(pos_) /\ ~OutOfRange(number)
  <2>1. JsonReturns([num |-> number], end) /\ UNCHANGED stack
    BY <1>5 DEF parse_number
  <2>2. Whole(pos_) \in (pos_ + 1)..End
    <3>1. Signed(pos_) \in pos_..End /\ Whole(pos_) \in Signed(pos_)..End
      BY <1>1, NumberBounds
    <3>2. Signed(pos_) \in Int /\ Whole(pos_) \in Int /\ pos_ \in Int
      BY <1>1, <3>1
    <3> QED
      BY <1>1, <1>5, <3>1, <3>2
  <2>3. Fraction(Whole(pos_)) \in Whole(pos_)..End
    BY <1>1, <2>2, NumberBounds
  <2>4. end \in Fraction(Whole(pos_))..End
    BY <1>1, <2>2, <2>3, NumberBounds
  <2>5. end \in (pos_ + 1)..End
    BY <1>1, <2>2, <2>3, <2>4
  <2> HIDE DEF end, number
  <2> QED
    BY <2>1, <2>5, <1>2, ReturnsKeeps
<1> QED
  BY <1>3, <1>4, <1>5

\* Every \u escape, with the low half after it or not.
LEMMA UnicodeKeeps == JsonInv /\ UnicodeEscape => JsonInv' /\ Consumes
<1> SUFFICES ASSUME JsonInv, UnicodeEscape PROVE JsonInv' /\ Consumes
  OBVIOUS
<1> DEFINE q    == At(pos_ + 2)
           next == pos_ + 3
           low  == At(next + 2)
<1>1. JsonTypeOK /\ pos_ \in 1..End /\ End \in Nat
      /\ \A j \in Int : At(j) # "end" => j < End
  BY TextIsFinite DEF JsonInv
<1>2. InString /\ At(pos_) = "\\" /\ At(pos_ + 1) = "u"
  BY DEF UnicodeEscape
<1>3. ~IsHex4("end")
  BY JsonAssumption DEF IsHex4
<1>4. CASE ~IsHex4(q)
  <2>1. JsonFails("invalid \\u escape")
    BY <1>4 DEF UnicodeEscape
  <2> QED
    BY <2>1, FailsKeeps
<1>5. ASSUME IsHex4(q)
      PROVE  err_ = "none" /\ next \in (pos_ + 1)..End
  <2>1. q # "end" /\ pos_ + 2 \in Int
    BY <1>1, <1>3, <1>5
  <2>2. pos_ + 2 < End
    BY <2>1, <1>1
  <2>3. ~Doomed /\ ctl # "failed"
    BY <1>2, <1>5 DEF Doomed, InString
  <2> QED
    BY <2>2, <2>3, <1>1, Clean
<1> DEFINE Twice == IsHigh(Unit[q]) /\ At(next) = "\\" /\ At(next + 1) = "u"
<1>6. CASE IsHex4(q) /\ ~Twice
  <2>1. Reads(append_utf8(Unit[q]), next) /\ UNCHANGED err_
    BY <1>6 DEF UnicodeEscape
  <2> HIDE DEF q, next
  <2> QED
    BY <2>1, <1>2, <1>5, <1>6, ReadsKeeps
<1>7. CASE IsHex4(q) /\ Twice /\ ~IsHex4(low)
  <2>1. Reads(append_utf8(Unit[q]), next) /\ err_' = "invalid \\u escape"
    BY <1>7 DEF UnicodeEscape, Resume
  <2>2. Doomed'
    <3>1. ctl' = ctl /\ text' = text /\ pos_' = next
      BY <2>1 DEF Reads
    <3>2. InString'
      BY <3>1, <1>2 DEF InString
    <3>3. At(pos_)' = At(next) /\ At(pos_ + 1)' = At(next + 1) /\ At(pos_ + 2)' = low
      BY <3>1 DEF At
    <3> QED
      BY <3>2, <3>3, <1>7 DEF Doomed, IsHex4
  <2> HIDE DEF q, next
  <2> QED
    BY <2>1, <2>2, <1>2, <1>5, <1>7, ReadsKeeps
<1>8. CASE IsHex4(q) /\ Twice /\ IsHex4(low) /\ IsLow(Unit[low])
  <2>1. Reads(append_utf8(Combined(Unit[q], Unit[low])), next + 3) /\ UNCHANGED err_
    BY <1>8 DEF UnicodeEscape
  <2>2. low # "end" /\ next + 2 \in Int
    BY <1>1, <1>3, <1>8
  <2>3. next + 2 < End
    BY <2>2, <1>1
  <2>4. next + 3 \in (pos_ + 1)..End
    BY <2>3, <1>1
  <2> HIDE DEF q, next, low
  <2> QED
    BY <2>1, <2>4, <1>2, <1>5, <1>8, ReadsKeeps
<1>9. CASE IsHex4(q) /\ Twice /\ IsHex4(low) /\ ~IsLow(Unit[low])
  <2>1. Reads(append_utf8(Unit[q]), next) /\ UNCHANGED err_
    BY <1>9 DEF UnicodeEscape, Resume
  <2> HIDE DEF q, next
  <2> QED
    BY <2>1, <1>2, <1>5, <1>9, ReadsKeeps
<1> QED
  BY <1>4, <1>6, <1>7, <1>8, <1>9

\* An opening quote, of a value or of a key.
LEMMA StringKeeps == JsonInv /\ parse_string => JsonInv' /\ Consumes
<1> SUFFICES ASSUME JsonInv, parse_string PROVE JsonInv' /\ Consumes
  OBVIOUS
<1>1. CASE ctl = "key" /\ At(pos_) # "\"" /\ JsonFails("expected string")
  BY <1>1, FailsKeeps
<1>2. CASE ~(ctl = "key" /\ At(pos_) # "\"" /\ JsonFails("expected string"))
  <2>1. /\ ctl \in {"value", "key"} /\ At(pos_) = "\""
        /\ ctl' = IF ctl = "key" THEN "keystring" ELSE "string"
        /\ pos_' = pos_ + 1 /\ UNCHANGED <<text, err_, stack>>
    BY <1>2 DEF parse_string, ValueAt
  <2>0. /\ pos_ \in Int /\ End \in Int /\ 1 <= pos_
        /\ (At(pos_) # "end" => pos_ < End)
    BY TextIsFinite DEF JsonInv
  <2>2. pos_ < End
    BY <2>0, <2>1
  <2>3. err_ = "none"
    BY <2>1, Clean DEF Doomed, InString
  <2>4. JsonTypeOK'
    <3>1. /\ text' = text /\ stack' = stack
          /\ ctl' \in {"string", "keystring"}
          /\ ctl' = "keystring" => ctl = "key"
      BY <2>1
    <3>2. pos_' \in 1..End
      <4>1. pos_' = pos_ + 1
        BY <2>1
      <4> QED
        BY <4>1, <2>0, <2>2
    <3> QED
      BY <3>1, <3>2 DEF JsonInv, JsonTypeOK, End, IsArray, Top
  <2>5. IsList(stack)' /\ RecursionIsBounded'
    BY <2>1 DEF JsonInv, IsList, RecursionIsBounded
  <2>6. Consumes
    <3>1. pos_' = pos_ + 1
      BY <2>1
    <3> QED
      BY <3>1, <2>0 DEF Consumes
  <2> QED
    BY <2>1, <2>3, <2>4, <2>5, <2>6 DEF JsonInv
<1> QED
  BY <1>1, <1>2

LEMMA KeyKeeps == JsonInv /\ KeyEnds => JsonInv' /\ Consumes
<1> SUFFICES ASSUME JsonInv, KeyEnds PROVE JsonInv' /\ Consumes
  OBVIOUS
<1> DEFINE i == skip_ws(pos_ + 1)
           frame == [obj |-> Top.obj, key |-> str]
<1>1. /\ pos_ \in 1..End /\ End \in Nat
      /\ \A j \in Int : At(j) # "end" => j < End
  BY TextIsFinite DEF JsonInv
<1>2. ctl = "keystring" /\ At(pos_) = "\"" /\ stack # <<>>
  BY DEF KeyEnds, JsonInv, JsonTypeOK
<1>3. pos_ < End /\ err_ = "none"
  <2>1. pos_ \in Int
    BY <1>1
  <2>2. ~Doomed /\ ctl # "failed"
    BY <1>2 DEF Doomed
  <2> QED
    BY <2>1, <2>2, <1>1, <1>2, Clean
<1>4. i \in (pos_ + 1)..End
  <2>1. pos_ + 1 \in 1..End
    BY <1>1, <1>3
  <2> QED
    BY <2>1, SkipBounds DEF JsonInv
<1> HIDE DEF i
<1>5. CASE At(i) # ":"
  <2>1. JsonFails("expected ':' after object key")
    BY <1>5 DEF KeyEnds, i
  <2> QED
    BY <2>1, FailsKeeps
<1>6. CASE At(i) = ":"
  <2>1. /\ stack' = Append(Popped, frame)
        /\ ctl' = "value" /\ pos_' = skip_ws(i + 1)
        /\ UNCHANGED <<text, err_>>
    BY <1>6 DEF KeyEnds, i
  <2>2. i \in Int /\ pos_ \in Int
    BY <1>1, <1>4
  <2>3. i < End
    BY <1>1, <1>6, <2>2
  <2>4. i + 1 \in 1..End
    BY <1>1, <1>4, <2>2, <2>3
  <2>5. skip_ws(i + 1) \in (i + 1)..End
    BY <2>4, SkipBounds DEF JsonInv
  <2>6. pos_' \in (pos_ + 1)..End
    BY <1>1, <1>4, <2>1, <2>2, <2>5
  <2>7. DOMAIN frame \in {{"arr"}, {"obj", "key"}}
    OBVIOUS
  <2>8. /\ IsList(Popped) /\ Len(Popped) <= kMaxDepth
        /\ \A j \in DOMAIN Popped : DOMAIN Popped[j] \in {{"arr"}, {"obj", "key"}}
    BY <1>2, PoppedBelow
  <2>9. ctl' \in {"value", "key"} /\ (ctl' = "key" => "arr" \notin DOMAIN frame)
    BY <2>1
  <2> HIDE DEF frame
  <2> QED
    BY <2>1, <2>6, <2>7, <2>8, <2>9, <1>3, PushKeeps
<1> QED
  BY <1>5, <1>6

LEMMA FinishKeeps == JsonInv /\ Finished => JsonInv' /\ Consumes
<1> SUFFICES ASSUME JsonInv, Finished PROVE JsonInv' /\ Consumes
  OBVIOUS
<1>1. pos_ \in 1..End
  BY TextIsFinite DEF JsonInv
<1>2. ctl = "returned" /\ err_ = "none"
  BY Clean DEF Finished, Doomed, InString
<1>3. pos_' \in 1..End
  <2>1. pos_' = skip_ws(pos_) /\ skip_ws(pos_) \in pos_..End
    BY <1>1, SkipBounds DEF Finished, JsonInv
  <2> QED
    BY <2>1, <1>1, TextIsFinite DEF JsonInv
<1>4. /\ UNCHANGED <<text, stack>>
      /\ \/ ctl' = "ok" /\ err_' = "none"
         \/ ctl' = "failed" /\ err_' # "none"
  BY <1>2 DEF Finished
<1>5. JsonTypeOK'
  BY <1>3, <1>4 DEF JsonInv, JsonTypeOK, End
<1>6. IsList(stack)' /\ RecursionIsBounded'
  BY <1>4 DEF JsonInv, IsList, RecursionIsBounded
<1> QED
  BY <1>4, <1>5, <1>6 DEF JsonInv, Consumes

LEMMA StepKeeps == JsonInv /\ JsonStep => JsonInv' /\ Consumes
<1> SUFFICES ASSUME JsonInv, JsonStep PROVE JsonInv' /\ Consumes
  OBVIOUS
<1>1. /\ pos_ \in 1..End /\ End \in Nat
      /\ \A j \in Int : At(j) # "end" => j < End
  BY TextIsFinite DEF JsonInv
<1>2. ~InString /\ ctl # "failed" => err_ = "none"
  BY Clean DEF Doomed
<1>3. ASSUME At(pos_) # "end" PROVE pos_ + 1 \in (pos_ + 1)..End
  BY <1>1, <1>3
<1>4. CASE parse
  <2>1. /\ ctl = "start" /\ ctl' = "value" /\ pos_' = skip_ws(pos_)
        /\ UNCHANGED <<text, err_, stack>>
    BY <1>4 DEF parse
  <2>2. pos_' \in 1..End
    <3>1. skip_ws(pos_) \in pos_..End
      BY <1>1, SkipBounds DEF JsonInv
    <3> QED
      BY <3>1, <2>1, <1>1
  <2>3. JsonTypeOK'
    BY <2>1, <2>2 DEF JsonInv, JsonTypeOK, End
  <2>4. IsList(stack)' /\ RecursionIsBounded'
    BY <2>1 DEF JsonInv, IsList, RecursionIsBounded
  <2>5. err_' = "none"
    BY <2>1, <1>2 DEF InString
  <2> QED
    BY <2>1, <2>3, <2>4, <2>5 DEF JsonInv, Consumes
<1>5. CASE TooDeep
  BY <1>5, FailsKeeps DEF TooDeep
<1>6. CASE EndOfInput
  BY <1>6, FailsKeeps DEF EndOfInput
<1>7. CASE OpenArray
  <2> DEFINE frame == [arr |-> <<>>]
  <2>1. Open("[", "]", frame, frame, "value") /\ FrameFor("value", frame)
    BY <1>7 DEF OpenArray, FrameFor
  <2>2. "[" # "end" /\ "]" # "end"
    OBVIOUS
  <2> HIDE DEF frame
  <2> QED
    BY <2>1, <2>2, OpenKeeps
<1>8. CASE OpenObject
  <2> DEFINE empty == [obj |-> <<>>]
             frame == [obj |-> <<>>, key |-> <<>>]
  <2>1. Open("{", "}", empty, frame, "key") /\ FrameFor("key", frame)
    BY <1>8 DEF OpenObject, FrameFor
  <2>2. "{" # "end" /\ "}" # "end"
    OBVIOUS
  <2> HIDE DEF empty, frame
  <2> QED
    BY <2>1, <2>2, OpenKeeps
<1>9. CASE parse_literal
  <2>1. CASE \E c \in BadLiteral : ValueAt(c) /\ JsonFails("invalid literal")
    BY <2>1, FailsKeeps
  <2>2. ASSUME NEW lit \in {"true", "false", "null"}, ValueAt(lit), NEW v,
               JsonReturns(v, pos_ + 1), UNCHANGED stack
        PROVE  JsonInv' /\ Consumes
    <3>1. err_ = "none" /\ pos_ + 1 \in (pos_ + 1)..End
      BY <2>2, <1>2, <1>3 DEF ValueAt, InString
    <3> QED
      BY <2>2, <3>1, ReturnsKeeps
  <2> QED
    BY <1>9, <2>1, <2>2, Zenon DEF parse_literal
<1>10. CASE parse_number
  BY <1>10, NumberKeeps
<1>11. CASE parse_string
  BY <1>11, StringKeeps
<1>12. CASE PlainCharacter
  <2>1. /\ InString /\ Reads(Bytes[At(pos_)], pos_ + 1) /\ UNCHANGED err_
        /\ At(pos_) \in DOMAIN Bytes \ {"\"", "\\"}
    BY <1>12 DEF PlainCharacter
  <2>2. "end" \notin DOMAIN Bytes
    BY JsonAssumption
  <2>3. At(pos_) # "end"
    BY <2>1, <2>2, Zenon
  <2>4. At(pos_) # "\\"
    BY <2>1, Zenon
  <2>5. At(pos_) # "end" /\ ~Doomed
    BY <2>3, <2>4, Zenon DEF Doomed
  <2>6. err_' = "none" /\ pos_ + 1 \in (pos_ + 1)..End
    BY <2>1, <2>5, <1>3, Clean DEF InString
  <2> QED
    BY <2>1, <2>6, ReadsKeeps
<1>13. CASE SimpleEscape
  <2>1. /\ InString /\ Reads(Escapes[At(pos_ + 1)], pos_ + 2) /\ UNCHANGED err_
        /\ At(pos_ + 1) \in DOMAIN Escapes
    BY <1>13 DEF SimpleEscape
  <2>2. At(pos_ + 1) # "end" /\ ~Doomed
    BY <2>1, JsonAssumption DEF Doomed
  <2>3. pos_ + 1 \in Int
    BY <1>1
  <2>4. pos_ + 1 < End
    BY <2>2, <2>3, <1>1
  <2>5. err_' = "none" /\ pos_ + 2 \in (pos_ + 1)..End
    BY <2>1, <2>2, <2>4, <1>1, Clean DEF InString
  <2> QED
    BY <2>1, <2>5, ReadsKeeps
<1>14. CASE BadEscape
  BY <1>14, FailsKeeps DEF BadEscape
<1>15. CASE UnicodeEscape
  BY <1>15, UnicodeKeeps
<1>16. CASE Unterminated
  BY <1>16, FailsKeeps DEF Unterminated
<1>17. CASE StringEnds
  <2>1. /\ ctl = "string" /\ At(pos_) = "\""
        /\ JsonReturns([str |-> str], pos_ + 1) /\ UNCHANGED stack
    BY <1>17 DEF StringEnds
  <2>2. err_ = "none" /\ pos_ + 1 \in (pos_ + 1)..End
    BY <2>1, <1>3, Clean DEF Doomed
  <2> QED
    BY <2>1, <2>2, ReturnsKeeps
<1>18. CASE KeyEnds
  BY <1>18, KeyKeeps
<1>19. CASE TakeElement
  <2> DEFINE filled == [arr |-> Append(Top.arr, out)]
  <2>1. /\ ctl = "returned" /\ stack # <<>>
        /\ Continue(filled, filled, "value", "]")
        /\ FrameFor("value", filled) /\ "]" # "end"
    BY <1>19 DEF TakeElement, FrameFor
  <2> HIDE DEF filled
  <2> QED
    BY <2>1, ContinueKeeps
<1>20. CASE TakeMember
  <2> DEFINE members == WithMember(Top.obj, Top.key, out)
             filled == [obj |-> members]
             frame  == [obj |-> members, key |-> <<>>]
  <2>1. /\ ctl = "returned" /\ stack # <<>>
        /\ Continue(filled, frame, "key", "}")
        /\ FrameFor("key", frame) /\ "}" # "end"
    BY <1>20 DEF TakeMember, FrameFor
  <2> HIDE DEF filled, frame, members
  <2> QED
    BY <2>1, ContinueKeeps
<1>21. CASE Finished
  BY <1>21, FinishKeeps
<1> QED
  BY <1>4, <1>5, <1>6, <1>7, <1>8, <1>9, <1>10, <1>11, <1>12, <1>13, <1>14,
     <1>15, <1>16, <1>17, <1>18, <1>19, <1>20, <1>21 DEF JsonStep

LEMMA StutterKeeps == JsonInv /\ UNCHANGED jsonVars => JsonInv'
BY DEF JsonInv, jsonVars, JsonTypeOK, IsList, RecursionIsBounded, Doomed,
       InString, At, IsArray, Top

----------------------------------------------------------------------------
(* The theorems *)

(* The parser stays within its text and its stack well-formed, and carries *)
(* an error on only over a malformed low half it is about to meet again    *)
(* (json.cpp:159-166).                                                     *)
THEOREM JsonInvariant == JsonSpec => []JsonInv
<1>1. JsonStart => JsonInv
  BY JsonInvInit
<1>2. JsonInv /\ [JsonNext]_jsonVars => JsonInv'
  BY StepKeeps, StutterKeeps DEF JsonNext
<1> QED
  BY <1>1, <1>2, PTL DEF JsonSpec, JsonStart

(* No read of the text is out of its bounds, and every frame of the stack  *)
(* is that of an array or an object, a key being read only in an object.   *)
THEOREM JsonTypeCorrect == JsonSpec => []JsonTypeOK
<1>1. JsonInv => JsonTypeOK
  BY DEF JsonInv
<1> QED
  BY <1>1, JsonInvariant, PTL

(* Whatever the text, parse_value recurses at most one level deeper than   *)
(* kMaxDepth (json.cpp:64), for every kMaxDepth.                           *)
THEOREM RecursionBounded == JsonSpec => []RecursionIsBounded
<1>1. JsonInv => RecursionIsBounded
  BY DEF JsonInv
<1> QED
  BY <1>1, JsonInvariant, PTL

(* Every step but the first consumes text or ends the parse, so that no    *)
(* text can keep the parser busy for ever (json.cpp:19-31, 136-178).       *)
THEOREM StepsConsume == JsonSpec => EveryStepConsumes
<1>1. JsonInv /\ [JsonNext]_jsonVars => [Consumes]_jsonVars
  BY StepKeeps DEF JsonNext
<1> QED
  BY <1>1, JsonInvariant, PTL DEF JsonSpec, EveryStepConsumes

(* err is set on a failure and empty on a success, though a malformed low  *)
(* half leaves a message behind and the parser goes on (json.hpp:53-54).   *)
THEOREM ErrIsRight == JsonSpec => []ErrTellsTheOutcome
<1>1. JsonInv => ErrTellsTheOutcome
  BY DEF JsonInv, ErrTellsTheOutcome, JsonDone, Doomed, InString
<1> QED
  BY <1>1, JsonInvariant, PTL

----------------------------------------------------------------------------
(* The table of the grammar *)

Bottom(t) == [p \in 1..(Len(t) + 1) |-> NoPhrases]

LEMMA TablesExist ==
  ASSUME NEW t, NEW m \in Nat
  PROVE  \E f : f = [n \in 0..m |-> IF n = 0 THEN Bottom(t)
                                    ELSE Filled(t, f[n - 1], Len(t) + 2 - n)]
<1> DEFINE Is(f, k) ==
             f = [n \in 0..k |-> IF n = 0 THEN Bottom(t)
                                 ELSE Filled(t, f[n - 1], Len(t) + 2 - n)]
           Odd == {k \in Nat : ~ \E f : Is(f, k)}
<1>1. SUFFICES ASSUME Odd # {} PROVE FALSE
  OBVIOUS
<1>2. PICK k \in Odd : \A j \in Odd : k <= j
  <2>1. Odd \subseteq Nat
    OBVIOUS
  <2> HIDE DEF Odd
  <2> QED BY <2>1, <1>1, MinExists
<1>3. k # 0
  <2> DEFINE g == [n \in 0..0 |-> Bottom(t)]
  <2>1. g = [n \in 0..0 |-> IF n = 0 THEN Bottom(t)
                            ELSE Filled(t, g[n - 1], Len(t) + 2 - n)]
    OBVIOUS
  <2>2. Is(g, 0)
    BY <2>1
  <2>3. 0 \notin Odd
    <3> HIDE DEF g, Is
    <3> QED BY <2>2
  <2> QED BY <2>3
<1>4. k - 1 \in Nat /\ k - 1 \notin Odd /\ k \in Nat
  <2> HIDE DEF Is
  <2>1. k \in Nat
    OBVIOUS
  <2> HIDE DEF Odd
  <2> QED BY <1>2, <1>3, <2>1
<1>5. PICK f : Is(f, k - 1)
  <2> HIDE DEF Is
  <2> QED BY <1>4
<1> DEFINE g == [n \in 0..k |-> IF n = k THEN Filled(t, f[k - 1], Len(t) + 2 - k) ELSE f[n]]
<1>6. \A n \in 0..k : g[n] = IF n = 0 THEN Bottom(t) ELSE Filled(t, g[n - 1], Len(t) + 2 - n)
  <2> SUFFICES ASSUME NEW n \in 0..k
               PROVE  g[n] = IF n = 0 THEN Bottom(t) ELSE Filled(t, g[n - 1], Len(t) + 2 - n)
    OBVIOUS
  <2>1. k \in Nat \ {0} /\ n \in Nat
    BY <1>4, <1>3
  <2>2. CASE n = k
    <3>1. g[n] = Filled(t, f[k - 1], Len(t) + 2 - k) /\ g[k - 1] = f[k - 1]
      BY <2>1, <2>2
    <3> QED BY <3>1, <2>1, <2>2
  <2>3. CASE n # k
    <3>1. g[n] = f[n] /\ n \in 0..(k - 1)
      BY <2>1, <2>3
    <3>2. f[n] = IF n = 0 THEN Bottom(t) ELSE Filled(t, f[n - 1], Len(t) + 2 - n)
      BY <1>5, <3>1
    <3>3. n # 0 => g[n - 1] = f[n - 1]
      BY <2>1, <2>3
    <3> HIDE DEF g
    <3> QED BY <3>1, <3>2, <3>3
  <2> QED BY <2>2, <2>3
<1>7. g = [n \in 0..k |-> g[n]]
  OBVIOUS
<1>8. Is(g, k)
  <2> HIDE DEF g
  <2> QED BY <1>6, <1>7
<1> QED
  <2> HIDE DEF Is, g
  <2> QED BY <1>8

LEMMA TablesAre ==
  ASSUME NEW t \in Seq(STRING)
  PROVE  /\ Tables(t)[0] = Bottom(t)
         /\ \A n \in 1..(Len(t) + 1) :
              Tables(t)[n] = Filled(t, Tables(t)[n - 1], Len(t) + 2 - n)
<1> DEFINE m == Len(t) + 1
           Is(f) == f = [n \in 0..m |-> IF n = 0 THEN Bottom(t)
                                        ELSE Filled(t, f[n - 1], Len(t) + 2 - n)]
<1>1. m \in Nat
  OBVIOUS
<1>2. \E f : Is(f)
  BY <1>1, TablesExist
<1>3. Tables(t) = CHOOSE f : Is(f)
  BY DEF Tables, Bottom
<1>4. Is(Tables(t))
  <2> HIDE DEF Is
  <2> QED BY <1>2, <1>3, Zenon
<1> DEFINE T == Tables(t)
<1>5. \A n \in 0..m : T[n] = IF n = 0 THEN Bottom(t) ELSE Filled(t, T[n - 1], Len(t) + 2 - n)
  <2> HIDE DEF T
  <2> SUFFICES T = [n \in 0..m |-> IF n = 0 THEN Bottom(t) ELSE Filled(t, T[n - 1], Len(t) + 2 - n)]
    BY Zenon
  <2> QED BY <1>4 DEF T
<1> HIDE DEF T
<1>6. T[0] = Bottom(t)
  BY <1>1, <1>5
<1>7. \A n \in 1..m : n \in 0..m /\ n # 0
  BY <1>1
<1>8. \A n \in 1..m : T[n] = Filled(t, T[n - 1], Len(t) + 2 - n)
  BY <1>5, <1>7
<1> QED
  BY <1>6, <1>8 DEF T

----------------------------------------------------------------------------
(* Lists put together *)

LEMMA Concatenated ==
  ASSUME NEW a, IsList(a), NEW b, IsList(b)
  PROVE  /\ IsList(a \o b)
         /\ Len(a) \in Nat /\ Len(b) \in Nat /\ Len(a \o b) = Len(a) + Len(b)
         /\ \A i \in 1..Len(a) : (a \o b)[i] = a[i]
         /\ \A i \in 1..Len(b) : (a \o b)[Len(a) + i] = b[i]
         /\ a \o <<>> = a /\ <<>> \o a = a
<1> DEFINE S == {a[i] : i \in DOMAIN a} \cup {b[i] : i \in DOMAIN b}
<1>1. a \in Seq(S) /\ b \in Seq(S)
  <2>1. a \in Seq({a[i] : i \in DOMAIN a}) /\ b \in Seq({b[i] : i \in DOMAIN b})
    BY DEF IsList
  <2> QED BY <2>1
<1> HIDE DEF S
<1>2. a \o b \in Seq(S)
  BY <1>1
<1>3. IsList(a \o b)
  BY <1>2, SeqIsList
<1>4. a \o <<>> = a /\ <<>> \o a = a
  BY <1>1, ConcatEmptySeq
<1> QED
  BY <1>1, <1>2, <1>3, <1>4

LEMMA Regrouped ==
  ASSUME NEW a, IsList(a), NEW b, IsList(b), NEW c, IsList(c)
  PROVE  (a \o b) \o c = a \o (b \o c)
<1> DEFINE S == {a[i] : i \in DOMAIN a} \cup {b[i] : i \in DOMAIN b} \cup {c[i] : i \in DOMAIN c}
<1>1. a \in Seq(S) /\ b \in Seq(S) /\ c \in Seq(S)
  <2>1. /\ a \in Seq({a[i] : i \in DOMAIN a}) /\ b \in Seq({b[i] : i \in DOMAIN b})
        /\ c \in Seq({c[i] : i \in DOMAIN c})
    BY DEF IsList
  <2> QED BY <2>1
<1> HIDE DEF S
<1> QED
  BY <1>1, ConcatAssociative

LEMMA Single ==
  ASSUME NEW v
  PROVE  IsList(<<v>>) /\ IsList(<<>>) /\ Len(<<v>>) = 1 /\ <<v>>[1] = v
<1>1. <<v>> \in Seq({v}) /\ <<>> \in Seq({v})
  OBVIOUS
<1>2. IsList(<<v>>) /\ IsList(<<>>)
  BY <1>1, SeqIsList
<1> QED
  BY <1>2

LEMMA Appended ==
  ASSUME NEW a, IsList(a), NEW v
  PROVE  IsList(Append(a, v)) /\ Append(a, v) = a \o <<v>>
<1> DEFINE S == {a[i] : i \in DOMAIN a} \cup {v}
<1>1. a \in Seq(S) /\ v \in S
  <2>1. a \in Seq({a[i] : i \in DOMAIN a})
    BY DEF IsList
  <2> QED BY <2>1
<1> HIDE DEF S
<1>2. Append(a, v) = a \o <<v>>
  BY <1>1, AppendIsConcat
<1> QED
  BY <1>2, Concatenated, Single

----------------------------------------------------------------------------
(* The characters of the grammar, and what each of its rules says *)

OpenBracket  == "["
CloseBracket == "]"
OpenBrace    == "{"
CloseBrace   == "}"
Comma        == ","
Colon        == ":"
Quote        == "\""
Backslash    == "\\"


LEMMA InChars ==
  ASSUME NEW t, NEW T, NEW p, NEW x
  PROVE  x \in Chars(t, T, p) <=>
           \/ Has(t, p, Quote) /\ x = <<p + 1, <<>>>>
           \/ \E c \in Characters(t, p) : \E r \in T[c[1]].chars : x = ListThen(c, r)
<1> DEFINE F(c) == {ListThen(c, r) : r \in T[c[1]].chars}
           A == {<<p + 1, <<>>>> : q \in {q \in {p} : Has(t, p, Quote)}}
           B == UNION {F(c) : c \in Characters(t, p)}
<1>1. Chars(t, T, p) = A \cup B
  BY Zenon DEF Chars, Quote
<1>2. x \in A <=> Has(t, p, Quote) /\ x = <<p + 1, <<>>>>
  BY Zenon
<1>3. \A c : x \in F(c) <=> \E r \in T[c[1]].chars : x = ListThen(c, r)
  BY Zenon
<1>4. x \in B <=> \E c \in Characters(t, p) : x \in F(c)
  <2> HIDE DEF F
  <2> QED OBVIOUS
<1> HIDE DEF A, B, F
<1> QED
  BY <1>1, <1>2, <1>3, <1>4, Zenon

LEMMA InArrays ==
  ASSUME NEW t, NEW T, NEW p, NEW d, NEW x
  PROVE  x \in Arrays(t, T, p, d) <=>
           \/ \E k \in Marks(t, p + 1, CloseBracket) : x = <<k + 1, [arr |-> <<>>]>>
           \/ \E k \in Gaps(t, p + 1) : \E e \in T[k].elements[d + 1] : x = <<e[1], [arr |-> e[2]]>>
<1> DEFINE F(k) == {<<e[1], [arr |-> e[2]]>> : e \in T[k].elements[d + 1]}
           A == {<<k + 1, [arr |-> <<>>]>> : k \in Marks(t, p + 1, CloseBracket)}
           B == UNION {F(k) : k \in Gaps(t, p + 1)}
<1>1. Arrays(t, T, p, d) = A \cup B
  BY Zenon DEF Arrays, CloseBracket
<1>2. x \in A <=> \E k \in Marks(t, p + 1, CloseBracket) : x = <<k + 1, [arr |-> <<>>]>>
  BY Zenon
<1>3. \A k : x \in F(k) <=> \E e \in T[k].elements[d + 1] : x = <<e[1], [arr |-> e[2]]>>
  BY Zenon
<1>4. x \in B <=> \E k \in Gaps(t, p + 1) : x \in F(k)
  <2> HIDE DEF F
  <2> QED OBVIOUS
<1> HIDE DEF A, B, F
<1> QED
  BY <1>1, <1>2, <1>3, <1>4, Zenon

LEMMA InObjects ==
  ASSUME NEW t, NEW T, NEW p, NEW d, NEW x
  PROVE  x \in Objects(t, T, p, d) <=>
           \/ \E k \in Marks(t, p + 1, CloseBrace) : x = <<k + 1, [obj |-> <<>>]>>
           \/ \E k \in Gaps(t, p + 1) : \E m \in T[k].members[d + 1] : x = <<m[1], [obj |-> Object(m[2])]>>
<1> DEFINE F(k) == {<<m[1], [obj |-> Object(m[2])]>> : m \in T[k].members[d + 1]}
           A == {<<k + 1, [obj |-> <<>>]>> : k \in Marks(t, p + 1, CloseBrace)}
           B == UNION {F(k) : k \in Gaps(t, p + 1)}
<1>1. Objects(t, T, p, d) = A \cup B
  BY Zenon DEF Objects, CloseBrace
<1>2. x \in A <=> \E k \in Marks(t, p + 1, CloseBrace) : x = <<k + 1, [obj |-> <<>>]>>
  BY Zenon
<1>3. \A k : x \in F(k) <=> \E m \in T[k].members[d + 1] : x = <<m[1], [obj |-> Object(m[2])]>>
  BY Zenon
<1>4. x \in B <=> \E k \in Gaps(t, p + 1) : x \in F(k)
  <2> HIDE DEF F
  <2> QED OBVIOUS
<1> HIDE DEF A, B, F
<1> QED
  BY <1>1, <1>2, <1>3, <1>4, Zenon

LEMMA InValues ==
  ASSUME NEW t, NEW T, NEW p, NEW d, NEW x
  PROVE  x \in Values(t, T, p, d) <=>
           /\ ~(d > kMaxDepth) /\ ~(p > Len(t))
           /\ \/ x \in Literals(t, p)
              \/ x \in Numbers(t, p)
              \/ \E s \in StringAt(t, T, p) : x = <<s[1], [str |-> s[2]]>>
              \/ t[p] = OpenBracket /\ x \in Arrays(t, T, p, d)
              \/ t[p] = OpenBrace /\ x \in Objects(t, T, p, d)
<1>1. CASE d > kMaxDepth \/ p > Len(t)
  BY <1>1, Zenon DEF Values
<1>2. CASE ~(d > kMaxDepth) /\ ~(p > Len(t))
  <2> DEFINE Q == {<<s[1], [str |-> s[2]]>> : s \in StringAt(t, T, p)}
             A == IF t[p] = OpenBracket THEN Arrays(t, T, p, d) ELSE {}
             B == IF t[p] = OpenBrace THEN Objects(t, T, p, d) ELSE {}
  <2>1. Values(t, T, p, d) = UNION {Literals(t, p), Numbers(t, p), Q, A, B}
    BY <1>2, Zenon DEF Values, OpenBracket, OpenBrace
  <2>2. x \in Q <=> \E s \in StringAt(t, T, p) : x = <<s[1], [str |-> s[2]]>>
    BY Zenon
  <2>3. x \in A <=> t[p] = OpenBracket /\ x \in Arrays(t, T, p, d)
    BY Zenon
  <2>4. x \in B <=> t[p] = OpenBrace /\ x \in Objects(t, T, p, d)
    BY Zenon
  <2> HIDE DEF Q, A, B
  <2>5. x \in UNION {Literals(t, p), Numbers(t, p), Q, A, B} <=>
          x \in Literals(t, p) \/ x \in Numbers(t, p) \/ x \in Q \/ x \in A \/ x \in B
    BY Zenon
  <2> QED
    BY <1>2, <2>1, <2>2, <2>3, <2>4, <2>5, Zenon
<1> QED
  BY <1>1, <1>2, Zenon

LEMMA InMoreElements ==
  ASSUME NEW t, NEW T, NEW i, NEW d, NEW x
  PROVE  x \in MoreElements(t, T, i, d) <=>
           \/ \E k \in Marks(t, i, CloseBracket) : x = <<k + 1, <<>>>>
           \/ \E k \in Marks(t, i, Comma) : \E j \in Gaps(t, k + 1) : x \in T[j].elements[d]
<1> DEFINE F(k) == UNION {T[j].elements[d] : j \in Gaps(t, k + 1)}
           A == {<<k + 1, <<>>>> : k \in Marks(t, i, CloseBracket)}
           B == UNION {F(k) : k \in Marks(t, i, Comma)}
<1>1. MoreElements(t, T, i, d) = A \cup B
  BY Zenon DEF MoreElements, CloseBracket, Comma
<1>2. x \in A <=> \E k \in Marks(t, i, CloseBracket) : x = <<k + 1, <<>>>>
  BY Zenon
<1>3. \A k : x \in F(k) <=> \E j \in Gaps(t, k + 1) : x \in T[j].elements[d]
  OBVIOUS
<1>4. x \in B <=> \E k \in Marks(t, i, Comma) : x \in F(k)
  <2> HIDE DEF F
  <2> QED OBVIOUS
<1> HIDE DEF A, B, F
<1> QED
  BY <1>1, <1>2, <1>3, <1>4, Zenon

LEMMA InMoreMembers ==
  ASSUME NEW t, NEW T, NEW i, NEW d, NEW x
  PROVE  x \in MoreMembers(t, T, i, d) <=>
           \/ \E k \in Marks(t, i, CloseBrace) : x = <<k + 1, <<>>>>
           \/ \E k \in Marks(t, i, Comma) : \E j \in Gaps(t, k + 1) : x \in T[j].members[d]
<1> DEFINE F(k) == UNION {T[j].members[d] : j \in Gaps(t, k + 1)}
           A == {<<k + 1, <<>>>> : k \in Marks(t, i, CloseBrace)}
           B == UNION {F(k) : k \in Marks(t, i, Comma)}
<1>1. MoreMembers(t, T, i, d) = A \cup B
  BY Zenon DEF MoreMembers, CloseBrace, Comma
<1>2. x \in A <=> \E k \in Marks(t, i, CloseBrace) : x = <<k + 1, <<>>>>
  BY Zenon
<1>3. \A k : x \in F(k) <=> \E j \in Gaps(t, k + 1) : x \in T[j].members[d]
  OBVIOUS
<1>4. x \in B <=> \E k \in Marks(t, i, Comma) : x \in F(k)
  <2> HIDE DEF F
  <2> QED OBVIOUS
<1> HIDE DEF A, B, F
<1> QED
  BY <1>1, <1>2, <1>3, <1>4, Zenon

LEMMA InElements ==
  ASSUME NEW t, NEW T, NEW p, NEW d, NEW x
  PROVE  x \in Elements(t, T, p, d) <=>
           \E v \in Values(t, T, p, d) : \E r \in MoreElements(t, T, v[1], d) :
             x = ItemThen(v, r)
<1> DEFINE F(v) == {ItemThen(v, r) : r \in MoreElements(t, T, v[1], d)}
<1>1. Elements(t, T, p, d) = UNION {F(v) : v \in Values(t, T, p, d)}
  BY DEF Elements
<1>2. \A v : x \in F(v) <=>
         \E r \in MoreElements(t, T, v[1], d) : x = ItemThen(v, r)
  BY Zenon
<1>3. x \in UNION {F(v) : v \in Values(t, T, p, d)} <=> \E v \in Values(t, T, p, d) : x \in F(v)
  <2> HIDE DEF F
  <2> QED OBVIOUS
<1> HIDE DEF F
<1> QED
  BY <1>1, <1>2, <1>3, Zenon

LEMMA InMember ==
  ASSUME NEW t, NEW T, NEW p, NEW d, NEW x
  PROVE  x \in Member(t, T, p, d) <=>
           \E s \in StringAt(t, T, p) : \E k \in Marks(t, s[1], Colon) :
             \E j \in Gaps(t, k + 1) : \E v \in Values(t, T, j, d) :
               x = <<v[1], [name |-> s[2], val |-> v[2]]>>
<1>1. Member(t, T, p, d) =
        UNION { UNION { UNION { {<<v[1], [name |-> s[2], val |-> v[2]]>> : v \in Values(t, T, j, d)}
                                : j \in Gaps(t, k + 1) }
                        : k \in Marks(t, s[1], Colon) }
                : s \in StringAt(t, T, p) }
  BY Zenon DEF Member, Colon
<1> QED
  BY <1>1

LEMMA InMembers ==
  ASSUME NEW t, NEW T, NEW p, NEW d, NEW x
  PROVE  x \in Members(t, T, p, d) <=>
           \E m \in Member(t, T, p, d) : \E r \in MoreMembers(t, T, m[1], d) :
             x = ItemThen(m, r)
<1> DEFINE F(m) == {ItemThen(m, r) : r \in MoreMembers(t, T, m[1], d)}
<1>1. Members(t, T, p, d) = UNION {F(m) : m \in Member(t, T, p, d)}
  BY DEF Members
<1>2. \A m : x \in F(m) <=>
         \E r \in MoreMembers(t, T, m[1], d) : x = ItemThen(m, r)
  BY Zenon
<1>3. x \in UNION {F(m) : m \in Member(t, T, p, d)} <=> \E m \in Member(t, T, p, d) : x \in F(m)
  <2> HIDE DEF F
  <2> QED OBVIOUS
<1> HIDE DEF F
<1> QED
  BY <1>1, <1>2, <1>3, Zenon

LEMMA InUnits ==
  ASSUME NEW t, NEW p, NEW u
  PROVE  u \in Units(t, p) <=>
           \E q \in DOMAIN Unit :
             Has(t, p, Backslash) /\ Has(t, p + 1, "u") /\ Has(t, p + 2, q) /\ u = Unit[q]
BY Zenon DEF Units, Backslash

PlainAt(t, p, x) ==
  \E c \in DOMAIN Bytes \ {Quote, Backslash} : Has(t, p, c) /\ x = <<p + 1, Bytes[c]>>
EscapeAt(t, p, x) ==
  \E c \in DOMAIN Escapes : Has(t, p, Backslash) /\ Has(t, p + 1, c) /\ x = <<p + 2, Escapes[c]>>
UnitAt(t, p, x) ==
  \E u \in Units(t, p) : Pairs(t, p) = {} /\ x = <<p + 3, Utf8[<<u>>]>>
PairAt(t, p, x) ==
  \E pair \in Pairs(t, p) : x = <<p + 6, Utf8[pair]>>

LEMMA InCharacters ==
  ASSUME NEW t, NEW p, NEW x
  PROVE  x \in Characters(t, p) <=>
           PlainAt(t, p, x) \/ EscapeAt(t, p, x) \/ UnitAt(t, p, x) \/ PairAt(t, p, x)
<1> DEFINE A == {<<p + 1, Bytes[c]>> : c \in {c \in DOMAIN Bytes \ {Quote, Backslash} : Has(t, p, c)}}
           B == {<<p + 2, Escapes[c]>> :
                   c \in {c \in DOMAIN Escapes : Has(t, p, Backslash) /\ Has(t, p + 1, c)}}
           C == {<<p + 3, Utf8[<<u>>]>> : u \in {u \in Units(t, p) : Pairs(t, p) = {}}}
           D == {<<p + 6, Utf8[pair]>> : pair \in Pairs(t, p)}
<1>1. x \in A <=> PlainAt(t, p, x)
  BY Zenon DEF PlainAt
<1>2. x \in B <=> EscapeAt(t, p, x)
  BY Zenon DEF EscapeAt
<1>3. x \in C <=> UnitAt(t, p, x)
  BY Zenon DEF UnitAt
<1>4. x \in D <=> PairAt(t, p, x)
  BY Zenon DEF PairAt
<1>5. Characters(t, p) = UNION {A, B, C, D}
  BY Zenon DEF Characters, Quote, Backslash
<1> HIDE DEF A, B, C, D
<1>6. x \in UNION {A, B, C, D} <=> x \in A \/ x \in B \/ x \in C \/ x \in D
  BY Zenon
<1> QED
  BY <1>1, <1>2, <1>3, <1>4, <1>5, <1>6, Zenon

LEMMA BytesAreLists ==
  /\ \A c \in DOMAIN Bytes : IsList(Bytes[c])
  /\ \A c \in DOMAIN Escapes : IsList(Escapes[c])
  /\ \A q \in DOMAIN Unit : IsList(Utf8[<<Unit[q]>>])
  /\ \A p, q \in DOMAIN Unit : IsHigh(Unit[p]) /\ IsLow(Unit[q]) => IsList(Utf8[<<Unit[p], Unit[q]>>])
<1>1. \A b, cp : IsUtf8(b, cp) => IsList(b)
  <2> SUFFICES ASSUME NEW b, NEW cp, IsUtf8(b, cp) PROVE IsList(b)
    OBVIOUS
  <2>1. b \in Seq(Nat)
    BY DEF IsUtf8
  <2> QED BY <2>1, SeqIsList
<1>2. \A c \in DOMAIN Bytes : IsList(Bytes[c])
  BY JsonAssumption
<1>3. \A c \in DOMAIN Escapes : IsList(Escapes[c])
  BY JsonAssumption
<1> QED
  BY <1>1, <1>2, <1>3, Utf8Assumption, Zenon

LEMMA InPairs ==
  ASSUME NEW t, NEW p, NEW x
  PROVE  x \in Pairs(t, p) <=>
           \E high \in Units(t, p) : \E low \in Units(t, p + 3) :
             IsHigh(high) /\ IsLow(low) /\ x = <<high, low>>
BY DEF Pairs

LEMMA CharacterBounds ==
  ASSUME NEW t \in Seq(STRING), NEW p, NEW c \in Characters(t, p)
  PROVE  c[1] \in (p + 1)..(Len(t) + 1) /\ IsList(c[2]) /\ p \in 1..Len(t)
<1>0. Len(t) \in Nat /\ DOMAIN t = 1..Len(t)
  OBVIOUS
<1>1. CASE PlainAt(t, p, c)
  <2>1. PICK b \in DOMAIN Bytes : p \in DOMAIN t /\ c = <<p + 1, Bytes[b]>>
    BY <1>1 DEF PlainAt, Has
  <2>2. IsList(Bytes[b])
    BY BytesAreLists
  <2> QED BY <2>1, <2>2, <1>0
<1>2. CASE EscapeAt(t, p, c)
  <2>1. PICK b \in DOMAIN Escapes :
          p \in DOMAIN t /\ p + 1 \in DOMAIN t /\ c = <<p + 2, Escapes[b]>>
    BY <1>2 DEF EscapeAt, Has
  <2>2. IsList(Escapes[b])
    BY BytesAreLists
  <2> QED BY <2>1, <2>2, <1>0
<1>3. CASE UnitAt(t, p, c)
  <2>1. PICK u \in Units(t, p) : c = <<p + 3, Utf8[<<u>>]>>
    BY <1>3 DEF UnitAt
  <2>2. PICK q \in DOMAIN Unit : p \in DOMAIN t /\ p + 2 \in DOMAIN t /\ u = Unit[q]
    BY InUnits, <2>1 DEF Has
  <2>3. IsList(c[2])
    BY <2>1, <2>2, BytesAreLists
  <2> QED BY <2>1, <2>2, <2>3, <1>0
<1>4. CASE PairAt(t, p, c)
  <2>1. PICK high \in Units(t, p), low \in Units(t, p + 3) :
          IsHigh(high) /\ IsLow(low) /\ c = <<p + 6, Utf8[<<high, low>>]>>
    BY <1>4, InPairs DEF PairAt
  <2>2. PICK q \in DOMAIN Unit : p \in DOMAIN t /\ high = Unit[q]
    BY InUnits, <2>1 DEF Has
  <2>3. PICK r \in DOMAIN Unit : p + 3 + 2 \in DOMAIN t /\ low = Unit[r]
    BY InUnits, <2>1 DEF Has
  <2>4. IsList(c[2])
    BY <2>1, <2>2, <2>3, BytesAreLists
  <2>5. c[1] = p + 6 /\ p \in Nat
    BY <2>1, <2>2, <1>0
  <2> QED BY <2>5, <2>2, <2>3, <2>4, <1>0
<1> QED
  BY <1>1, <1>2, <1>3, <1>4, InCharacters, Zenon

----------------------------------------------------------------------------
(* Every phrase lies within the text, and is not empty *)

IsPhrase(t, q, x) == x[1] \in (q + 1)..(Len(t) + 1) /\ IsList(x[2])

Depths == 0..(kMaxDepth + 1)

Typed(t, T) ==
  \A q \in 1..(Len(t) + 1) :
    /\ \A x \in T[q].chars : IsPhrase(t, q, x)
    /\ \A d \in Depths : \A x \in T[q].elements[d] : IsPhrase(t, q, x)
    /\ \A d \in Depths : \A x \in T[q].members[d] : IsPhrase(t, q, x)

LEMMA GapBounds ==
  ASSUME NEW t \in Seq(STRING), NEW i \in 1..(Len(t) + 1), NEW k \in Gaps(t, i)
  PROVE  k \in i..(Len(t) + 1) /\ k \in 1..(Len(t) + 1)
BY DEF Gaps

LEMMA MarkBounds ==
  ASSUME NEW t \in Seq(STRING), NEW i \in 1..(Len(t) + 1), NEW c, NEW k \in Marks(t, i, c)
  PROVE  k \in i..Len(t) /\ t[k] = c /\ k + 1 \in (i + 1)..(Len(t) + 1) /\ k + 1 \in 1..(Len(t) + 1)
<1>1. k \in i..(Len(t) + 1) /\ k \in DOMAIN t /\ t[k] = c
  BY DEF Marks, Gaps, Has
<1> QED
  BY <1>1

LEMMA MoreBounds ==
  ASSUME NEW t \in Seq(STRING), NEW T, Typed(t, T), NEW i \in 1..(Len(t) + 1), NEW d \in Depths
  PROVE  /\ \A r \in MoreElements(t, T, i, d) : IsPhrase(t, i, r)
         /\ \A r \in MoreMembers(t, T, i, d) : IsPhrase(t, i, r)
<1>0. Len(t) \in Nat
  OBVIOUS
<1>1. ASSUME NEW k \in Marks(t, i, Comma), NEW j \in Gaps(t, k + 1)
      PROVE  /\ \A x \in T[j].elements[d] : IsPhrase(t, i, x)
             /\ \A x \in T[j].members[d] : IsPhrase(t, i, x)
  <2>1. k + 1 \in (i + 1)..(Len(t) + 1) /\ k + 1 \in 1..(Len(t) + 1)
    BY MarkBounds
  <2>2. j \in (k + 1)..(Len(t) + 1) /\ j \in 1..(Len(t) + 1)
    BY <2>1, GapBounds
  <2>3. \A x : IsPhrase(t, j, x) => IsPhrase(t, i, x)
    <3> SUFFICES ASSUME NEW x, IsPhrase(t, j, x) PROVE IsPhrase(t, i, x)
      OBVIOUS
    <3>1. k \in i..Len(t)
      BY MarkBounds
    <3>2. x[1] \in (j + 1)..(Len(t) + 1) /\ IsList(x[2])
      BY DEF IsPhrase
    <3>3. k \in Int /\ i \in Int /\ j \in Int
      BY <3>1, <2>2, <1>0
    <3>4. x[1] \in (i + 1)..(Len(t) + 1)
      BY <2>1, <2>2, <3>2, <3>3, <1>0
    <3> QED BY <3>2, <3>4 DEF IsPhrase
  <2> QED BY <2>2, <2>3 DEF Typed
<1>2. ASSUME NEW k, NEW c, k \in Marks(t, i, c)
      PROVE  IsPhrase(t, i, <<k + 1, <<>>>>)
  <2>1. k + 1 \in (i + 1)..(Len(t) + 1)
    BY <1>2, MarkBounds
  <2> QED BY <2>1, Single DEF IsPhrase
<1>3. \A r \in MoreElements(t, T, i, d) : IsPhrase(t, i, r)
  BY <1>1, <1>2, InMoreElements
<1>4. \A r \in MoreMembers(t, T, i, d) : IsPhrase(t, i, r)
  BY <1>1, <1>2, InMoreMembers
<1> QED
  BY <1>3, <1>4

LEMMA StringBounds ==
  ASSUME NEW t \in Seq(STRING), NEW T, Typed(t, T), NEW p, NEW s \in StringAt(t, T, p)
  PROVE  /\ Has(t, p, Quote) /\ p + 1 \in 1..(Len(t) + 1) /\ s \in T[p + 1].chars
         /\ s[1] \in (p + 1)..(Len(t) + 1) /\ s[1] \in 1..(Len(t) + 1) /\ IsList(s[2])
<1>1. Has(t, p, Quote) /\ s \in T[p + 1].chars
  BY Zenon DEF StringAt, Quote
<1>2. p \in 1..Len(t) /\ Len(t) \in Nat
  <2>1. p \in DOMAIN t
    BY <1>1 DEF PlainAt, Has
  <2> QED BY <2>1
<1>3. p + 1 \in 1..(Len(t) + 1)
  BY <1>2
<1>4. IsPhrase(t, p + 1, s)
  BY <1>1, <1>3 DEF Typed
<1> QED
  <2>1. s[1] \in ((p + 1) + 1)..(Len(t) + 1) /\ IsList(s[2])
    BY <1>4 DEF IsPhrase
  <2>2. s[1] \in (p + 1)..(Len(t) + 1) /\ s[1] \in 1..(Len(t) + 1)
    BY <2>1, <1>2
  <2> QED BY <1>1, <1>3, <2>1, <2>2

LEMMA ValueBounds ==
  ASSUME NEW t \in Seq(STRING), NEW T, Typed(t, T), NEW p \in 1..(Len(t) + 1),
         NEW d \in Depths, NEW v \in Values(t, T, p, d)
  PROVE  v[1] \in (p + 1)..(Len(t) + 1) /\ v[1] \in 1..(Len(t) + 1)
<1>0. Len(t) \in Nat /\ p \in 1..Len(t) /\ d + 1 \in Depths /\ p + 1 \in 1..(Len(t) + 1)
  <2>1. ~(d > kMaxDepth) /\ ~(p > Len(t))
    BY InValues
  <2>2. kMaxDepth \in Nat /\ Len(t) \in Nat
    BY JsonAssumption
  <2>3. p \in 1..Len(t) /\ p + 1 \in 1..(Len(t) + 1)
    BY <2>1, <2>2
  <2>4. d + 1 \in Depths
    BY <2>1, <2>2 DEF Depths
  <2> QED BY <2>2, <2>3, <2>4
<1>1. SUFFICES v[1] \in (p + 1)..(Len(t) + 1)
  BY <1>0
<1>2. CASE v \in Literals(t, p)
  BY <1>0, <1>2 DEF Literals
<1>3. CASE v \in Numbers(t, p)
  BY <1>0, <1>3 DEF Numbers
<1>4. CASE \E s \in StringAt(t, T, p) : v = <<s[1], [str |-> s[2]]>>
  <2>1. PICK s \in StringAt(t, T, p) : v = <<s[1], [str |-> s[2]]>>
    BY <1>4
  <2>2. s[1] \in (p + 1)..(Len(t) + 1)
    BY StringBounds
  <2> QED BY <2>1, <2>2
<1>5. ASSUME NEW k, NEW c, k \in Marks(t, p + 1, c), NEW y, v = <<k + 1, y>>
      PROVE  v[1] \in (p + 1)..(Len(t) + 1)
  <2>1. k \in (p + 1)..Len(t)
    BY <1>0, <1>5, MarkBounds
  <2> QED BY <2>1, <1>0, <1>5
<1>6. ASSUME NEW k \in Gaps(t, p + 1), NEW e, IsPhrase(t, k, e), NEW y, v = <<e[1], y>>
      PROVE  v[1] \in (p + 1)..(Len(t) + 1)
  <2>1. k \in (p + 1)..(Len(t) + 1)
    BY <1>0, GapBounds
  <2>2. e[1] \in (k + 1)..(Len(t) + 1) /\ v[1] = e[1]
    BY <1>6 DEF IsPhrase
  <2> QED BY <2>1, <2>2, <1>0
<1>7. ASSUME NEW k \in Gaps(t, p + 1)
      PROVE  /\ \A e \in T[k].elements[d + 1] : IsPhrase(t, k, e)
             /\ \A e \in T[k].members[d + 1] : IsPhrase(t, k, e)
  <2>1. k \in 1..(Len(t) + 1)
    BY <1>0, GapBounds
  <2> QED BY <2>1, <1>0 DEF Typed
<1>8. CASE v \in Arrays(t, T, p, d)
  <2>1. CASE \E k \in Marks(t, p + 1, CloseBracket) : v = <<k + 1, [arr |-> <<>>]>>
    BY <1>5, <2>1, Zenon
  <2>2. CASE \E k \in Gaps(t, p + 1) : \E e \in T[k].elements[d + 1] : v = <<e[1], [arr |-> e[2]]>>
    BY <1>6, <1>7, <2>2, Zenon
  <2> QED BY <1>8, <2>1, <2>2, InArrays
<1>9. CASE v \in Objects(t, T, p, d)
  <2>1. CASE \E k \in Marks(t, p + 1, CloseBrace) : v = <<k + 1, [obj |-> <<>>]>>
    BY <1>5, <2>1, Zenon
  <2>2. CASE \E k \in Gaps(t, p + 1) : \E m \in T[k].members[d + 1] :
               v = <<m[1], [obj |-> Object(m[2])]>>
    BY <1>6, <1>7, <2>2, Zenon
  <2> QED BY <1>9, <2>1, <2>2, InObjects
<1> QED
  BY <1>2, <1>3, <1>4, <1>8, <1>9, InValues, Zenon

LEMMA MemberBounds ==
  ASSUME NEW t \in Seq(STRING), NEW T, Typed(t, T), NEW p \in 1..(Len(t) + 1),
         NEW d \in Depths, NEW m \in Member(t, T, p, d)
  PROVE  m[1] \in (p + 1)..(Len(t) + 1) /\ m[1] \in 1..(Len(t) + 1)
<1>0. PICK s \in StringAt(t, T, p) : \E k \in Marks(t, s[1], Colon) :
        \E j \in Gaps(t, k + 1) : \E v \in Values(t, T, j, d) :
          m = <<v[1], [name |-> s[2], val |-> v[2]]>>
  BY InMember
<1>1. PICK k \in Marks(t, s[1], Colon) :
        \E j \in Gaps(t, k + 1) : \E v \in Values(t, T, j, d) :
          m = <<v[1], [name |-> s[2], val |-> v[2]]>>
  BY <1>0
<1>2. PICK j \in Gaps(t, k + 1) : \E v \in Values(t, T, j, d) :
        m = <<v[1], [name |-> s[2], val |-> v[2]]>>
  BY <1>1
<1>8. PICK v \in Values(t, T, j, d) : m = <<v[1], [name |-> s[2], val |-> v[2]]>>
  BY <1>2
<1>3. s[1] \in (p + 1)..(Len(t) + 1) /\ s[1] \in 1..(Len(t) + 1)
  BY StringBounds
<1>4. k \in s[1]..Len(t) /\ k + 1 \in 1..(Len(t) + 1)
  BY <1>3, MarkBounds
<1>5. j \in (k + 1)..(Len(t) + 1) /\ j \in 1..(Len(t) + 1)
  BY <1>4, GapBounds
<1>6. v[1] \in (j + 1)..(Len(t) + 1) /\ m[1] = v[1]
  BY <1>8, <1>5, ValueBounds
<1>7. Len(t) \in Nat
  OBVIOUS
<1> QED
  BY <1>3, <1>4, <1>5, <1>6, <1>7

LEMMA ThenIs ==
  ASSUME NEW s, NEW r
  PROVE  /\ ListThen(s, r)[1] = r[1] /\ ListThen(s, r)[2] = s[2] \o r[2]
         /\ ItemThen(s, r)[1] = r[1] /\ ItemThen(s, r)[2] = <<s[2]>> \o r[2]
BY DEF ListThen, ItemThen

LEMMA PhrasesTyped ==
  ASSUME NEW t \in Seq(STRING), NEW T, Typed(t, T), NEW p \in 1..(Len(t) + 1)
  PROVE  /\ \A x \in Chars(t, T, p) : IsPhrase(t, p, x)
         /\ \A d \in Depths : \A x \in Elements(t, T, p, d) : IsPhrase(t, p, x)
         /\ \A d \in Depths : \A x \in Members(t, T, p, d) : IsPhrase(t, p, x)
<1>0. Len(t) \in Nat
  OBVIOUS
<1>1. ASSUME NEW x \in Chars(t, T, p) PROVE IsPhrase(t, p, x)
  <2>1. CASE Has(t, p, Quote) /\ x = <<p + 1, <<>>>>
    <3>1. p \in DOMAIN t /\ x[1] = p + 1 /\ x[2] = <<>>
      BY <2>1 DEF Has
    <3>2. x[1] \in (p + 1)..(Len(t) + 1)
      BY <3>1, <1>0
    <3> QED BY <3>1, <3>2, Single DEF IsPhrase
  <2>2. CASE \E c \in Characters(t, p) : \E r \in T[c[1]].chars : x = ListThen(c, r)
    <3>1. PICK c \in Characters(t, p) : \E r \in T[c[1]].chars : x = ListThen(c, r)
      BY <2>2
    <3>6. PICK r \in T[c[1]].chars : x = ListThen(c, r)
      BY <3>1
    <3>2. c[1] \in (p + 1)..(Len(t) + 1) /\ IsList(c[2]) /\ c[1] \in 1..(Len(t) + 1)
      BY CharacterBounds
    <3>3. r[1] \in (c[1] + 1)..(Len(t) + 1) /\ IsList(r[2])
      BY <3>2 DEF Typed, IsPhrase
    <3>4. IsList(c[2] \o r[2])
      BY <3>2, <3>3, Concatenated
    <3>7. x[1] = r[1] /\ x[2] = c[2] \o r[2]
      BY <3>6, ThenIs
    <3>5. x[1] \in (p + 1)..(Len(t) + 1)
      BY <3>7, <3>2, <3>3, <1>0
    <3> QED BY <3>7, <3>4, <3>5, Zenon DEF IsPhrase
  <2>3. \/ Has(t, p, Quote) /\ x = <<p + 1, <<>>>>
        \/ \E c \in Characters(t, p) : \E r \in T[c[1]].chars : x = ListThen(c, r)
    BY InChars
  <2> QED BY <2>1, <2>2, <2>3, Zenon
<1>2. ASSUME NEW i \in (p + 1)..(Len(t) + 1), NEW y, NEW r, IsPhrase(t, i, r),
             NEW x, x = ItemThen(y, r)
      PROVE  IsPhrase(t, p, x)
  <2>1. IsList(<<y[2]>> \o r[2])
    BY <1>2, Concatenated, Single DEF IsPhrase
  <2>2. r[1] \in (i + 1)..(Len(t) + 1)
    BY <1>2 DEF IsPhrase
  <2>3. r[1] \in (p + 1)..(Len(t) + 1)
    BY <2>2, <1>0
  <2>4. x[1] = r[1] /\ x[2] = <<y[2]>> \o r[2]
    BY <1>2, ThenIs
  <2> QED BY <2>1, <2>3, <2>4, Zenon DEF IsPhrase
<1>3. ASSUME NEW d \in Depths, NEW x \in Elements(t, T, p, d) PROVE IsPhrase(t, p, x)
  <2>1. PICK v \in Values(t, T, p, d) : \E r \in MoreElements(t, T, v[1], d) :
          x = ItemThen(v, r)
    BY InElements
  <2>4. PICK r \in MoreElements(t, T, v[1], d) : x = ItemThen(v, r)
    BY <2>1
  <2>2. v[1] \in (p + 1)..(Len(t) + 1) /\ v[1] \in 1..(Len(t) + 1)
    BY ValueBounds
  <2>3. IsPhrase(t, v[1], r)
    BY <2>2, MoreBounds
  <2> QED BY <1>2, <2>4, <2>2, <2>3
<1>4. ASSUME NEW d \in Depths, NEW x \in Members(t, T, p, d) PROVE IsPhrase(t, p, x)
  <2>1. PICK m \in Member(t, T, p, d) : \E r \in MoreMembers(t, T, m[1], d) :
          x = ItemThen(m, r)
    BY InMembers
  <2>4. PICK r \in MoreMembers(t, T, m[1], d) : x = ItemThen(m, r)
    BY <2>1
  <2>2. m[1] \in (p + 1)..(Len(t) + 1) /\ m[1] \in 1..(Len(t) + 1)
    BY MemberBounds
  <2>3. IsPhrase(t, m[1], r)
    BY <2>2, MoreBounds
  <2> QED BY <1>2, <2>4, <2>2, <2>3
<1> QED
  BY <1>1, <1>3, <1>4

----------------------------------------------------------------------------
(* The phrases at a place depend on those at later places only *)

Agree(t, T, U, p) == \A q \in (p + 1)..(Len(t) + 1) : T[q] = U[q]

LEMMA AgreeLater ==
  ASSUME NEW t \in Seq(STRING), NEW T, NEW U, NEW p \in 1..(Len(t) + 1), Agree(t, T, U, p),
         NEW q \in p..(Len(t) + 1)
  PROVE  Agree(t, T, U, q) /\ Agree(t, U, T, q)
<1>1. Len(t) \in Nat
  OBVIOUS
<1>2. \A r \in (q + 1)..(Len(t) + 1) : r \in (p + 1)..(Len(t) + 1)
  BY <1>1
<1> QED
  BY <1>2, Zenon DEF Agree

LEMMA GapsAfter ==
  ASSUME NEW t \in Seq(STRING), NEW p \in 1..(Len(t) + 1), NEW i \in (p + 1)..(Len(t) + 1),
         NEW k \in Gaps(t, i)
  PROVE  k \in (p + 1)..(Len(t) + 1)
<1>1. Len(t) \in Nat
  OBVIOUS
<1>2. k \in i..(Len(t) + 1)
  BY DEF Gaps
<1> QED
  BY <1>1, <1>2

LEMMA StringsAgree ==
  ASSUME NEW t \in Seq(STRING), NEW T, NEW U, NEW p \in 1..(Len(t) + 1), Agree(t, T, U, p)
  PROVE  StringAt(t, T, p) = StringAt(t, U, p)
<1>1. CASE Has(t, p, Quote)
  <2>1. p + 1 \in (p + 1)..(Len(t) + 1)
    BY <1>1 DEF Has
  <2>2. T[p + 1] = U[p + 1]
    BY <2>1, Zenon DEF Agree
  <2> QED BY <2>2, Zenon DEF StringAt
<1>2. CASE ~Has(t, p, Quote)
  BY <1>2, Zenon DEF StringAt, Quote
<1> QED
  BY <1>1, <1>2, Zenon

LEMMA ValuesAgreeOneWay ==
  ASSUME NEW t \in Seq(STRING), NEW T, NEW U, NEW p \in 1..(Len(t) + 1), NEW d,
         Agree(t, T, U, p), NEW x \in Values(t, T, p, d)
  PROVE  x \in Values(t, U, p, d)
<1>1. ~(d > kMaxDepth) /\ ~(p > Len(t))
  BY InValues, Zenon
<1>2. p + 1 \in (p + 1)..(Len(t) + 1)
  BY <1>1
<1>3. \A k \in Gaps(t, p + 1) : T[k] = U[k]
  <2> SUFFICES ASSUME NEW k \in Gaps(t, p + 1) PROVE T[k] = U[k]
    OBVIOUS
  <2>1. k \in (p + 1)..(Len(t) + 1)
    BY <1>2, GapsAfter
  <2> QED BY <2>1, Zenon DEF Agree
<1>4. StringAt(t, T, p) = StringAt(t, U, p)
  BY StringsAgree
<1>5. x \in Arrays(t, T, p, d) => x \in Arrays(t, U, p, d)
  <2> SUFFICES ASSUME x \in Arrays(t, T, p, d) PROVE x \in Arrays(t, U, p, d)
    OBVIOUS
  <2>1. CASE \E k \in Marks(t, p + 1, CloseBracket) : x = <<k + 1, [arr |-> <<>>]>>
    BY <2>1, InArrays, Zenon
  <2>2. CASE \E k \in Gaps(t, p + 1) : \E e \in T[k].elements[d + 1] : x = <<e[1], [arr |-> e[2]]>>
    <3>1. \E k \in Gaps(t, p + 1) : \E e \in U[k].elements[d + 1] : x = <<e[1], [arr |-> e[2]]>>
      BY <2>2, <1>3, Zenon
    <3> QED BY <3>1, InArrays, Zenon
  <2> QED BY <2>1, <2>2, InArrays
<1>6. x \in Objects(t, T, p, d) => x \in Objects(t, U, p, d)
  <2> SUFFICES ASSUME x \in Objects(t, T, p, d) PROVE x \in Objects(t, U, p, d)
    OBVIOUS
  <2>1. CASE \E k \in Marks(t, p + 1, CloseBrace) : x = <<k + 1, [obj |-> <<>>]>>
    BY <2>1, InObjects, Zenon
  <2>2. CASE \E k \in Gaps(t, p + 1) : \E m \in T[k].members[d + 1] : x = <<m[1], [obj |-> Object(m[2])]>>
    <3>1. \E k \in Gaps(t, p + 1) : \E m \in U[k].members[d + 1] : x = <<m[1], [obj |-> Object(m[2])]>>
      BY <2>2, <1>3, Zenon
    <3> QED BY <3>1, InObjects, Zenon
  <2> QED BY <2>1, <2>2, InObjects
<1> QED
  BY <1>4, <1>5, <1>6, InValues

LEMMA ValuesAgree ==
  ASSUME NEW t \in Seq(STRING), NEW T, NEW U, NEW p \in 1..(Len(t) + 1), NEW d,
         Agree(t, T, U, p)
  PROVE  Values(t, T, p, d) = Values(t, U, p, d)
<1>1. Agree(t, U, T, p)
  BY Zenon DEF Agree
<1>2. \A x : x \in Values(t, T, p, d) <=> x \in Values(t, U, p, d)
  BY <1>1, ValuesAgreeOneWay
<1> QED
  BY <1>2, Zenon

LEMMA MoreAgree ==
  ASSUME NEW t \in Seq(STRING), NEW T, NEW U, NEW p \in 1..(Len(t) + 1), NEW d,
         Agree(t, T, U, p), NEW i \in (p + 1)..(Len(t) + 1)
  PROVE  /\ MoreElements(t, T, i, d) = MoreElements(t, U, i, d)
         /\ MoreMembers(t, T, i, d) = MoreMembers(t, U, i, d)
<1>1. ASSUME NEW k \in Marks(t, i, Comma), NEW j \in Gaps(t, k + 1)
      PROVE  T[j] = U[j]
  <2>1. i \in 1..(Len(t) + 1) /\ Len(t) \in Nat
    OBVIOUS
  <2>2. k \in i..Len(t)
    BY <2>1, MarkBounds
  <2>3. k + 1 \in (p + 1)..(Len(t) + 1)
    BY <2>1, <2>2
  <2>4. j \in (p + 1)..(Len(t) + 1)
    BY <2>3, GapsAfter
  <2> QED BY <2>4, Zenon DEF Agree
<1>2. \A x : x \in MoreElements(t, T, i, d) <=> x \in MoreElements(t, U, i, d)
  BY <1>1, InMoreElements
<1>3. \A x : x \in MoreMembers(t, T, i, d) <=> x \in MoreMembers(t, U, i, d)
  BY <1>1, InMoreMembers
<1> QED
  BY <1>2, <1>3, Zenon

LEMMA MemberAgreesOneWay ==
  ASSUME NEW t \in Seq(STRING), NEW T, NEW U, NEW p \in 1..(Len(t) + 1), NEW d,
         Agree(t, T, U, p), Typed(t, T), NEW x \in Member(t, T, p, d)
  PROVE  x \in Member(t, U, p, d)
<1>1. PICK s \in StringAt(t, T, p) : \E k \in Marks(t, s[1], Colon) :
        \E j \in Gaps(t, k + 1) : \E v \in Values(t, T, j, d) :
          x = <<v[1], [name |-> s[2], val |-> v[2]]>>
  BY InMember
<1>2. PICK k \in Marks(t, s[1], Colon) :
        \E j \in Gaps(t, k + 1) : \E v \in Values(t, T, j, d) :
          x = <<v[1], [name |-> s[2], val |-> v[2]]>>
  BY <1>1
<1>3. PICK j \in Gaps(t, k + 1) : \E v \in Values(t, T, j, d) :
        x = <<v[1], [name |-> s[2], val |-> v[2]]>>
  BY <1>2
<1>4. s[1] \in (p + 1)..(Len(t) + 1) /\ s[1] \in 1..(Len(t) + 1) /\ Len(t) \in Nat
  BY StringBounds
<1>5. k \in s[1]..Len(t)
  BY <1>4, MarkBounds
<1>6. k + 1 \in (p + 1)..(Len(t) + 1)
  BY <1>4, <1>5
<1>7. j \in (p + 1)..(Len(t) + 1)
  BY <1>6, GapsAfter
<1>8. j \in p..(Len(t) + 1) /\ j \in 1..(Len(t) + 1)
  BY <1>7, <1>4
<1>9. Values(t, T, j, d) = Values(t, U, j, d)
  BY <1>8, AgreeLater, ValuesAgree
<1>10. s \in StringAt(t, U, p)
  BY StringsAgree
<1> QED
  BY <1>2, <1>3, <1>9, <1>10, InMember

LEMMA PhrasesAgreeOneWay ==
  ASSUME NEW t \in Seq(STRING), NEW T, NEW U, NEW p \in 1..(Len(t) + 1),
         Agree(t, T, U, p), Typed(t, T), Typed(t, U)
  PROVE  /\ \A x \in Chars(t, T, p) : x \in Chars(t, U, p)
         /\ \A d \in Depths : \A x \in Elements(t, T, p, d) : x \in Elements(t, U, p, d)
         /\ \A d \in Depths : \A x \in Members(t, T, p, d) : x \in Members(t, U, p, d)
<1>1. ASSUME NEW x \in Chars(t, T, p) PROVE x \in Chars(t, U, p)
  <2>1. \A c \in Characters(t, p) : T[c[1]] = U[c[1]]
    BY CharacterBounds, Zenon DEF Agree
  <2> QED BY <2>1, InChars
<1>2. ASSUME NEW d \in Depths, NEW x \in Elements(t, T, p, d) PROVE x \in Elements(t, U, p, d)
  <2>1. PICK v \in Values(t, T, p, d) : \E r \in MoreElements(t, T, v[1], d) : x = ItemThen(v, r)
    BY InElements
  <2>2. v \in Values(t, U, p, d)
    BY ValuesAgreeOneWay
  <2>3. v[1] \in (p + 1)..(Len(t) + 1)
    BY ValueBounds
  <2>4. MoreElements(t, T, v[1], d) = MoreElements(t, U, v[1], d)
    BY <2>3, MoreAgree
  <2> QED BY <2>1, <2>2, <2>4, InElements
<1>3. ASSUME NEW d \in Depths, NEW x \in Members(t, T, p, d) PROVE x \in Members(t, U, p, d)
  <2>1. PICK m \in Member(t, T, p, d) : \E r \in MoreMembers(t, T, m[1], d) : x = ItemThen(m, r)
    BY InMembers
  <2>2. m \in Member(t, U, p, d)
    BY MemberAgreesOneWay
  <2>3. m[1] \in (p + 1)..(Len(t) + 1)
    BY MemberBounds
  <2>4. MoreMembers(t, T, m[1], d) = MoreMembers(t, U, m[1], d)
    BY <2>3, MoreAgree
  <2> QED BY <2>1, <2>2, <2>4, InMembers
<1> QED
  BY <1>1, <1>2, <1>3

LEMMA PhrasesAgree ==
  ASSUME NEW t \in Seq(STRING), NEW T, NEW U, NEW p \in 1..(Len(t) + 1),
         Agree(t, T, U, p), Typed(t, T), Typed(t, U)
  PROVE  Phrases(t, T, p) = Phrases(t, U, p)
<1>1. Agree(t, U, T, p)
  BY Zenon DEF Agree
<1>2. /\ \A x \in Chars(t, T, p) : x \in Chars(t, U, p)
      /\ \A d \in Depths : \A x \in Elements(t, T, p, d) : x \in Elements(t, U, p, d)
      /\ \A d \in Depths : \A x \in Members(t, T, p, d) : x \in Members(t, U, p, d)
  BY PhrasesAgreeOneWay
<1>3. /\ \A x \in Chars(t, U, p) : x \in Chars(t, T, p)
      /\ \A d \in Depths : \A x \in Elements(t, U, p, d) : x \in Elements(t, T, p, d)
      /\ \A d \in Depths : \A x \in Members(t, U, p, d) : x \in Members(t, T, p, d)
  BY <1>1, PhrasesAgreeOneWay
<1>4. Chars(t, T, p) = Chars(t, U, p)
  BY <1>2, <1>3
<1>5. \A d \in Depths : Elements(t, T, p, d) = Elements(t, U, p, d)
  BY <1>2, <1>3
<1>6. \A d \in Depths : Members(t, T, p, d) = Members(t, U, p, d)
  BY <1>2, <1>3
<1>7. [d \in Depths |-> Elements(t, T, p, d)] = [d \in Depths |-> Elements(t, U, p, d)]
  BY <1>5, Zenon
<1>8. [d \in Depths |-> Members(t, T, p, d)] = [d \in Depths |-> Members(t, U, p, d)]
  BY <1>6, Zenon
<1> QED
  BY <1>4, <1>7, <1>8, Zenon DEF Phrases, Depths

----------------------------------------------------------------------------
(* The table holds the phrases that it gives *)

LEMMA EntriesTyped ==
  ASSUME NEW t \in Seq(STRING), NEW T, Typed(t, T), NEW p \in 1..(Len(t) + 1),
         NEW e, e = Phrases(t, T, p)
  PROVE  /\ e.chars = Chars(t, T, p)
         /\ \A d \in Depths : e.elements[d] = Elements(t, T, p, d)
         /\ \A d \in Depths : e.members[d] = Members(t, T, p, d)
         /\ \A x \in e.chars : IsPhrase(t, p, x)
         /\ \A d \in Depths : \A x \in e.elements[d] : IsPhrase(t, p, x)
         /\ \A d \in Depths : \A x \in e.members[d] : IsPhrase(t, p, x)
<1>1. e.chars = Chars(t, T, p)
  BY DEF Phrases
<1>2. \A d \in Depths : e.elements[d] = Elements(t, T, p, d)
  BY DEF Phrases, Depths
<1>3. \A d \in Depths : e.members[d] = Members(t, T, p, d)
  BY DEF Phrases, Depths
<1> QED
  BY <1>1, <1>2, <1>3, PhrasesTyped

IsFilled(t, n) ==
  /\ DOMAIN Tables(t)[n] = 1..(Len(t) + 1)
  /\ Typed(t, Tables(t)[n])
  /\ \A p \in (Len(t) + 2 - n)..(Len(t) + 1) : Tables(t)[n][p] = Phrases(t, Tables(t)[n], p)

LEMMA BottomIsFilled ==
  ASSUME NEW t \in Seq(STRING)
  PROVE  IsFilled(t, 0)
<1> DEFINE B == Bottom(t)
<1>0. Len(t) \in Nat
  OBVIOUS
<1>1. Tables(t)[0] = B
  BY TablesAre
<1>2. DOMAIN B = 1..(Len(t) + 1) /\ \A p \in 1..(Len(t) + 1) : B[p] = NoPhrases
  BY DEF Bottom
<1>3. NoPhrases.chars = {} /\ \A d \in Depths : NoPhrases.elements[d] = {} /\ NoPhrases.members[d] = {}
  BY DEF NoPhrases, Depths
<1> HIDE DEF B
<1>4. Typed(t, B)
  BY <1>2, <1>3 DEF Typed
<1>5. (Len(t) + 2 - 0)..(Len(t) + 1) = {}
  BY <1>0
<1> QED
  BY <1>1, <1>2, <1>4, <1>5, Zenon DEF IsFilled

LEMMA FillingFills ==
  ASSUME NEW t \in Seq(STRING), NEW n \in 1..(Len(t) + 1), IsFilled(t, n - 1)
  PROVE  IsFilled(t, n)
<1> DEFINE T == Tables(t)[n - 1]
           U == Tables(t)[n]
           q == Len(t) + 2 - n
<1>0. Len(t) \in Nat /\ n \in Nat /\ q \in 1..(Len(t) + 1)
  OBVIOUS
<1>1. U = [T EXCEPT ![q] = Phrases(t, T, q)]
  BY TablesAre DEF Filled
<1>2. /\ DOMAIN T = 1..(Len(t) + 1) /\ Typed(t, T)
      /\ \A p \in (Len(t) + 2 - (n - 1))..(Len(t) + 1) : T[p] = Phrases(t, T, p)
  BY DEF IsFilled
<1> HIDE DEF T, U
<1>3. /\ DOMAIN U = 1..(Len(t) + 1) /\ U[q] = Phrases(t, T, q)
      /\ \A p \in 1..(Len(t) + 1) : p # q => U[p] = T[p]
  <2> HIDE DEF q
  <2> QED BY <1>0, <1>1, <1>2
<1>4. Typed(t, U)
  <2> HIDE DEF q
  <2>1. /\ \A x \in U[q].chars : IsPhrase(t, q, x)
        /\ \A d \in Depths : \A x \in U[q].elements[d] : IsPhrase(t, q, x)
        /\ \A d \in Depths : \A x \in U[q].members[d] : IsPhrase(t, q, x)
    BY <1>0, <1>2, <1>3, EntriesTyped
  <2> QED BY <2>1, <1>2, <1>3 DEF Typed
<1>5. \A p \in q..(Len(t) + 1) : Agree(t, T, U, p) /\ p \in 1..(Len(t) + 1)
  <2> SUFFICES ASSUME NEW p \in q..(Len(t) + 1), NEW r \in (p + 1)..(Len(t) + 1)
               PROVE  T[r] = U[r]
    BY <1>0 DEF Agree
  <2>1. r \in 1..(Len(t) + 1) /\ r # q
    BY <1>0
  <2> QED BY <2>1, <1>3
<1>6. \A p \in q..(Len(t) + 1) : Phrases(t, T, p) = Phrases(t, U, p)
  BY <1>2, <1>4, <1>5, PhrasesAgree
<1>7. \A p \in q..(Len(t) + 1) : U[p] = Phrases(t, T, p)
  <2> SUFFICES ASSUME NEW p \in q..(Len(t) + 1), p # q PROVE U[p] = Phrases(t, T, p)
    BY <1>3
  <2>1. p \in (Len(t) + 2 - (n - 1))..(Len(t) + 1) /\ p \in 1..(Len(t) + 1)
    BY <1>0
  <2> QED BY <2>1, <1>2, <1>3
<1> QED
  BY <1>3, <1>4, <1>6, <1>7 DEF IsFilled, U

LEMMA AllAreFilled ==
  ASSUME NEW t \in Seq(STRING)
  PROVE  \A n \in 0..(Len(t) + 1) : IsFilled(t, n)
<1> DEFINE Odd == {n \in 0..(Len(t) + 1) : ~IsFilled(t, n)}
<1>1. SUFFICES ASSUME Odd # {} PROVE FALSE
  OBVIOUS
<1>2. PICK n \in Odd : \A k \in Odd : n <= k
  <2>1. Odd \subseteq Nat
    OBVIOUS
  <2> HIDE DEF Odd
  <2> QED BY <2>1, <1>1, MinExists
<1>3. n # 0 /\ Len(t) \in Nat
  BY BottomIsFilled
<1>4. n \in 1..(Len(t) + 1) /\ n - 1 \in 0..(Len(t) + 1) /\ n - 1 \notin Odd
  <2>1. n \in 1..(Len(t) + 1) /\ n - 1 \in 0..(Len(t) + 1)
    BY <1>3
  <2> HIDE DEF Odd
  <2> QED BY <2>1, <1>2
<1>5. IsFilled(t, n - 1)
  BY <1>4
<1>6. IsFilled(t, n)
  BY <1>4, <1>5, FillingFills
<1> QED
  BY <1>6

\* What the table says at each place.
LEMMA TableIs ==
  ASSUME NEW t \in Seq(STRING)
  PROVE  /\ Typed(t, Table(t))
         /\ \A p \in 1..(Len(t) + 1) :
              /\ Table(t)[p].chars = Chars(t, Table(t), p)
              /\ \A d \in Depths : Table(t)[p].elements[d] = Elements(t, Table(t), p, d)
              /\ \A d \in Depths : Table(t)[p].members[d] = Members(t, Table(t), p, d)
<1>1. Len(t) + 1 \in 0..(Len(t) + 1) /\ Len(t) + 2 - (Len(t) + 1) = 1
  OBVIOUS
<1>2. IsFilled(t, Len(t) + 1)
  BY <1>1, AllAreFilled
<1>3. Typed(t, Table(t)) /\ \A p \in 1..(Len(t) + 1) : Table(t)[p] = Phrases(t, Table(t), p)
  BY <1>1, <1>2 DEF IsFilled, Table
<1> QED
  BY <1>3, EntriesTyped

----------------------------------------------------------------------------
(* No character has two roles *)

LEMMA Roles ==
  /\ Whitespace \cap Digit = {} /\ Whitespace \cap Plus = {} /\ Whitespace \cap BadLiteral = {}
  /\ Digit \cap Plus = {} /\ Digit \cap BadLiteral = {} /\ Plus \cap BadLiteral = {}
  /\ \A c \in Syntax : c \notin Whitespace /\ c \notin Digit /\ c \notin Plus /\ c \notin BadLiteral
<1>1. /\ Alphabets[1] = Whitespace /\ Alphabets[2] = Digit /\ Alphabets[3] = Plus
      /\ Alphabets[4] = BadLiteral /\ Alphabets[5] = Syntax /\ DOMAIN Alphabets = 1..5
  BY DEF Alphabets
<1>2. \A i, j \in 1..5 : i # j => Alphabets[i] \cap Alphabets[j] = {}
  BY <1>1, AlphabetAssumption
<1>3. /\ Alphabets[1] \cap Alphabets[2] = {} /\ Alphabets[1] \cap Alphabets[3] = {}
      /\ Alphabets[1] \cap Alphabets[4] = {} /\ Alphabets[1] \cap Alphabets[5] = {}
      /\ Alphabets[2] \cap Alphabets[3] = {} /\ Alphabets[2] \cap Alphabets[4] = {}
      /\ Alphabets[2] \cap Alphabets[5] = {} /\ Alphabets[3] \cap Alphabets[4] = {}
      /\ Alphabets[3] \cap Alphabets[5] = {} /\ Alphabets[4] \cap Alphabets[5] = {}
  BY <1>2
<1> QED
  BY <1>1, <1>3

LEMMA SyntaxIs ==
  /\ OpenBracket \in Syntax /\ CloseBracket \in Syntax /\ OpenBrace \in Syntax
  /\ CloseBrace \in Syntax /\ Comma \in Syntax /\ Colon \in Syntax
  /\ Quote \in Syntax /\ Backslash \in Syntax
  /\ "." \in Syntax /\ "e" \in Syntax /\ "end" \in Syntax
  /\ "true" \in Syntax /\ "false" \in Syntax /\ "null" \in Syntax
BY Zenon DEF Syntax, OpenBracket, CloseBracket, OpenBrace, CloseBrace, Comma, Colon, Quote, Backslash

\* The characters that a value may begin with, and those after it.
LEMMA Distinct ==
  /\ \A c \in {OpenBracket, OpenBrace, Quote} :
       c \notin {CloseBracket, CloseBrace, Comma, Colon, Backslash, "end", "true", "false", "null", ".", "e"}
  /\ OpenBracket # OpenBrace /\ OpenBracket # Quote /\ OpenBrace # Quote
  /\ \A c \in {CloseBracket, CloseBrace, Comma} :
       c \notin {Colon, Backslash, "end", "true", "false", "null", ".", "e"}
  /\ CloseBracket # Comma /\ CloseBrace # Comma /\ CloseBracket # CloseBrace
  /\ Colon # "end" /\ Backslash # "end"
BY Zenon DEF OpenBracket, CloseBracket, OpenBrace, CloseBrace, Comma, Colon, Quote, Backslash

----------------------------------------------------------------------------
(* Whitespace *)

\* i is the first place from q on that holds no whitespace.
Skips(t, q, i) == i \in Gaps(t, q) /\ (i <= Len(t) => t[i] \notin Whitespace)

LEMMA SkipsOnce ==
  ASSUME NEW t \in Seq(STRING), NEW q \in 1..(Len(t) + 1), NEW i, Skips(t, q, i),
         NEW k, Skips(t, q, k)
  PROVE  k = i
<1>1. /\ i \in q..(Len(t) + 1) /\ k \in q..(Len(t) + 1) /\ Len(t) \in Nat
      /\ \A j \in q..(i - 1) : t[j] \in Whitespace
      /\ \A j \in q..(k - 1) : t[j] \in Whitespace
  BY DEF Skips, Gaps, InRun
<1>2. ~(k < i) /\ ~(i < k)
  <2>1. k < i => k \in q..(i - 1) /\ k <= Len(t)
    BY <1>1
  <2>2. i < k => i \in q..(k - 1) /\ i <= Len(t)
    BY <1>1
  <2> QED BY <1>1, <2>1, <2>2 DEF Skips
<1> QED
  BY <1>1, <1>2

LEMMA MarkSkips ==
  ASSUME NEW t \in Seq(STRING), NEW q \in 1..(Len(t) + 1), NEW c, c \notin Whitespace, NEW k
  PROVE  k \in Marks(t, q, c) <=> Skips(t, q, k) /\ Has(t, k, c)
<1>1. k \in Marks(t, q, c) <=> k \in Gaps(t, q) /\ Has(t, k, c)
  BY Zenon DEF Marks
<1>2. Has(t, k, c) => t[k] = c
  BY Zenon DEF Has
<1> QED
  BY <1>1, <1>2, Zenon DEF Skips

LEMMA MarksAre ==
  ASSUME NEW t \in Seq(STRING), NEW q \in 1..(Len(t) + 1), NEW c, c \notin Whitespace,
         NEW i, Skips(t, q, i)
  PROVE  Marks(t, q, c) = IF Has(t, i, c) THEN {i} ELSE {}
<1>2. ASSUME NEW k \in Marks(t, q, c) PROVE k = i /\ Has(t, i, c)
  <2>1. Skips(t, q, k) /\ Has(t, k, c)
    BY MarkSkips
  <2>2. k = i
    BY <2>1, SkipsOnce
  <2> QED BY <2>1, <2>2
<1>3. Has(t, i, c) => i \in Marks(t, q, c)
  BY MarkSkips
<1>1. \A k : k \in Marks(t, q, c) <=> k = i /\ Has(t, i, c)
  BY <1>2, <1>3, Zenon
<1> QED
  BY <1>1, Zenon

----------------------------------------------------------------------------
(* The containers around a value *)

\* The list s, and after it what the phrase r stands for.
Both(s, r) == s \o r[2]

\* o with the members ms on top.
Overlay(o, ms) ==
  [n \in DOMAIN o \cup Names(ms) |-> IF n \in Names(ms) THEN ms[Latest(ms, n)].val ELSE o[n]]

\* The container f, at depth k, takes v, which ends before p; it ends before q as w.
Level(t, f, k, p, v, q, w) ==
  IF "arr" \in DOMAIN f
  THEN \E r \in MoreElements(t, Table(t), p, k) :
         q = r[1] /\ w = [arr |-> Both(Append(f.arr, v), r)]
  ELSE \E r \in MoreMembers(t, Table(t), p, k) :
         q = r[1] /\ w = [obj |-> Overlay(WithMember(f.obj, f.key, v), r[2])]

\* With v, which ends before p, inside the innermost n containers, the text is v0.
Outer(t, S, n, p, v, v0) ==
  \E P, V : /\ P[n] = p /\ V[n] = v /\ V[0] = v0 /\ Len(t) + 1 \in Gaps(t, P[0])
            /\ \A k \in 1..n : Level(t, S[k], k, P[k], V[k], P[k - 1], V[k - 1])

LEMMA Outermost ==
  ASSUME NEW t, NEW S, NEW p, NEW v, NEW v0
  PROVE  Outer(t, S, 0, p, v, v0) <=> v = v0 /\ Len(t) + 1 \in Gaps(t, p)
<1>1. ASSUME Outer(t, S, 0, p, v, v0) PROVE v = v0 /\ Len(t) + 1 \in Gaps(t, p)
  BY <1>1, Zenon DEF Outer
<1>2. ASSUME v = v0, Len(t) + 1 \in Gaps(t, p) PROVE Outer(t, S, 0, p, v, v0)
  <2> DEFINE P == [k \in 0..0 |-> p]
             V == [k \in 0..0 |-> v]
  <2>1. P[0] = p /\ V[0] = v
    OBVIOUS
  <2>2. \A k \in 1..0 : FALSE
    OBVIOUS
  <2> HIDE DEF P, V
  <2> QED BY <1>2, <2>1, <2>2, Zenon DEF Outer
<1> QED
  BY <1>1, <1>2

LEMMA OuterOut ==
  ASSUME NEW t, NEW S, NEW n \in Nat \ {0}, NEW p, NEW v, NEW v0, Outer(t, S, n, p, v, v0)
  PROVE  \E q, w : Level(t, S[n], n, p, v, q, w) /\ Outer(t, S, n - 1, q, w, v0)
<1>1. PICK P, V : /\ P[n] = p /\ V[n] = v /\ V[0] = v0 /\ Len(t) + 1 \in Gaps(t, P[0])
                  /\ \A k \in 1..n : Level(t, S[k], k, P[k], V[k], P[k - 1], V[k - 1])
  BY Zenon DEF Outer
<1>2. n \in 1..n /\ \A k \in 1..(n - 1) : k \in 1..n
  OBVIOUS
<1>3. Level(t, S[n], n, p, v, P[n - 1], V[n - 1])
  BY <1>1, <1>2, Zenon
<1>4. \A k \in 1..(n - 1) : Level(t, S[k], k, P[k], V[k], P[k - 1], V[k - 1])
  BY <1>1, <1>2, Zenon
<1>5. Outer(t, S, n - 1, P[n - 1], V[n - 1], v0)
  BY <1>1, <1>4, Zenon DEF Outer
<1> QED
  BY <1>3, <1>5, Zenon

LEMMA OuterIn ==
  ASSUME NEW t, NEW S, NEW n \in Nat \ {0}, NEW p, NEW v, NEW v0, NEW q, NEW w,
         Level(t, S[n], n, p, v, q, w), Outer(t, S, n - 1, q, w, v0)
  PROVE  Outer(t, S, n, p, v, v0)
<1>1. PICK P, V : /\ P[n - 1] = q /\ V[n - 1] = w /\ V[0] = v0 /\ Len(t) + 1 \in Gaps(t, P[0])
                  /\ \A k \in 1..(n - 1) : Level(t, S[k], k, P[k], V[k], P[k - 1], V[k - 1])
  BY Zenon DEF Outer
<1> DEFINE Q == [k \in 0..n |-> IF k = n THEN p ELSE P[k]]
           W == [k \in 0..n |-> IF k = n THEN v ELSE V[k]]
<1>2. Q[n] = p /\ W[n] = v /\ \A k \in 0..(n - 1) : Q[k] = P[k] /\ W[k] = V[k]
  OBVIOUS
<1> HIDE DEF Q, W
<1>3. W[0] = v0 /\ Q[0] = P[0] /\ Q[n - 1] = q /\ W[n - 1] = w
  <2>1. 0 \in 0..(n - 1) /\ n - 1 \in 0..(n - 1)
    OBVIOUS
  <2> QED BY <1>1, <1>2, <2>1, Zenon
<1>4. ASSUME NEW k \in 1..n PROVE Level(t, S[k], k, Q[k], W[k], Q[k - 1], W[k - 1])
  <2>1. CASE k = n
    BY <2>1, <1>2, <1>3, Zenon
  <2>2. CASE k # n
    <3>1. k \in 1..(n - 1) /\ k \in 0..(n - 1) /\ k - 1 \in 0..(n - 1)
      BY <2>2
    <3> QED BY <3>1, <1>1, <1>2, Zenon
  <2> QED BY <2>1, <2>2
<1> QED
  BY <1>1, <1>2, <1>3, <1>4, Zenon DEF Outer

LEMMA OuterSame ==
  ASSUME NEW t, NEW S, NEW R, NEW n \in Nat, \A k \in 1..n : S[k] = R[k],
         NEW p, NEW v, NEW v0
  PROVE  Outer(t, S, n, p, v, v0) <=> Outer(t, R, n, p, v, v0)
BY Zenon DEF Outer

----------------------------------------------------------------------------
(* The members of an object *)

LEMMA LatestIs ==
  ASSUME NEW ms, IsList(ms), NEW n \in Names(ms)
  PROVE  /\ Latest(ms, n) \in 1..Len(ms) /\ ms[Latest(ms, n)].name = n
         /\ \A i \in 1..Len(ms) : ms[i].name = n => i <= Latest(ms, n)
<1> DEFINE I == {i \in DOMAIN ms : ms[i].name = n}
<1>1. Len(ms) \in Nat /\ DOMAIN ms = 1..Len(ms)
  BY DEF IsList
<1>2. I # {}
  BY DEF Names
<1>3. I \subseteq 0..Len(ms)
  BY <1>1
<1>4. Max(I) \in I /\ \A y \in I : y <= Max(I)
  <2> HIDE DEF I
  <2> QED BY <1>1, <1>2, <1>3, MaxExists
<1>5. Latest(ms, n) = Max(I)
  BY DEF Latest
<1> QED
  BY <1>1, <1>4, <1>5

Prefixed(m, r) == <<m>> \o r

LEMMA PrefixedIs ==
  ASSUME NEW m, NEW r, IsList(r)
  PROVE  /\ IsList(Prefixed(m, r)) /\ Len(r) \in Nat /\ Len(Prefixed(m, r)) = 1 + Len(r)
         /\ Prefixed(m, r)[1] = m /\ \A i \in 1..Len(r) : Prefixed(m, r)[1 + i] = r[i]
<1> DEFINE S == {m} \cup {r[i] : i \in DOMAIN r}
<1>1. <<m>> \in Seq(S) /\ r \in Seq(S)
  <2>1. r \in Seq({r[i] : i \in DOMAIN r})
    BY DEF IsList
  <2> QED BY <2>1
<1> HIDE DEF S
<1>2. <<m>> \o r \in Seq(S)
  BY <1>1
<1>3. IsList(<<m>> \o r)
  BY <1>2, SeqIsList
<1>4. /\ Len(r) \in Nat /\ Len(<<m>> \o r) = 1 + Len(r)
      /\ (<<m>> \o r)[1] = m /\ \A i \in 1..Len(r) : (<<m>> \o r)[1 + i] = r[i]
  BY <1>1
<1> QED
  BY <1>3, <1>4, Zenon DEF Prefixed

LEMMA LatestOfMore ==
  ASSUME NEW m, NEW r, IsList(r), NEW N, N = Prefixed(m, r)
  PROVE  /\ IsList(N)
         /\ Names(N) = {m.name} \cup Names(r)
         /\ \A n \in Names(r) : N[Latest(N, n)] = r[Latest(r, n)]
         /\ m.name \notin Names(r) => N[Latest(N, m.name)] = m
<1>1. /\ IsList(N) /\ Len(r) \in Nat /\ Len(N) = 1 + Len(r)
      /\ N[1] = m /\ \A i \in 1..Len(r) : N[1 + i] = r[i]
  BY PrefixedIs
<1>2. DOMAIN N = 1..(1 + Len(r)) /\ DOMAIN r = 1..Len(r)
  BY <1>1 DEF IsList
<1> USE <1>1
<1>3. Names(N) = {m.name} \cup Names(r)
  <2>1. ASSUME NEW n \in Names(N) PROVE n \in {m.name} \cup Names(r)
    <3>1. PICK i \in DOMAIN N : n = N[i].name
      BY Zenon DEF Names
    <3>2. CASE i = 1
      BY <3>1, <3>2, <1>1
    <3>3. CASE i # 1
      <4>1. i - 1 \in 1..Len(r) /\ 1 + (i - 1) = i
        BY <1>1, <1>2, <3>3
      <4>2. r[i - 1].name = n /\ i - 1 \in DOMAIN r
        BY <3>1, <4>1, <1>1, <1>2
      <4> QED BY <4>2, Zenon DEF Names
    <3> QED BY <3>2, <3>3
  <2>2. ASSUME NEW n \in Names(r) PROVE n \in Names(N)
    <3>1. PICK i \in 1..Len(r) : n = r[i].name
      BY <1>2, Zenon DEF Names
    <3>2. 1 + i \in DOMAIN N /\ N[1 + i].name = n
      BY <3>1, <1>1, <1>2
    <3> QED BY <3>2, Zenon DEF Names
  <2>3. m.name \in Names(N)
    <3>1. 1 \in DOMAIN N /\ N[1].name = m.name
      BY <1>1, <1>2
    <3> QED BY <3>1, Zenon DEF Names
  <2> QED BY <2>1, <2>2, <2>3
<1>4. ASSUME NEW n \in Names(r) PROVE N[Latest(N, n)] = r[Latest(r, n)]
  <2> DEFINE a == Latest(N, n)
             b == Latest(r, n)
  <2>1. /\ a \in 1..Len(N) /\ N[a].name = n
        /\ \A i \in 1..Len(N) : N[i].name = n => i <= a
    BY <1>3, <1>1, LatestIs
  <2>2. /\ b \in 1..Len(r) /\ r[b].name = n
        /\ \A i \in 1..Len(r) : r[i].name = n => i <= b
    BY LatestIs
  <2> HIDE DEF a, b
  <2>3. 1 + b <= a
    BY <2>1, <2>2, <1>1
  <2>4. a - 1 \in 1..Len(r) /\ 1 + (a - 1) = a
    BY <2>1, <2>2, <2>3, <1>1
  <2>5. r[a - 1].name = n
    BY <2>1, <2>4, <1>1
  <2>6. a - 1 <= b
    BY <2>2, <2>4, <2>5
  <2>7. a = 1 + b
    BY <2>1, <2>2, <2>3, <2>6, <1>1
  <2>8. N[a] = r[b]
    BY <2>2, <2>7, <1>1
  <2> QED BY <2>8 DEF a, b
<1>5. ASSUME m.name \notin Names(r) PROVE N[Latest(N, m.name)] = m
  <2> DEFINE a == Latest(N, m.name)
  <2>1. a \in 1..Len(N) /\ N[a].name = m.name
    BY <1>3, <1>1, LatestIs
  <2> HIDE DEF a
  <2>2. CASE a = 1
    BY <2>2, <1>1 DEF a
  <2>3. CASE a # 1
    <3>1. a - 1 \in 1..Len(r) /\ 1 + (a - 1) = a
      BY <2>1, <2>3, <1>1
    <3>2. r[a - 1].name = m.name /\ a - 1 \in DOMAIN r
      BY <2>1, <3>1, <1>1, <1>2
    <3>3. m.name \in Names(r)
      BY <3>2, Zenon DEF Names
    <3> QED BY <3>3, <1>5
  <2> QED BY <2>2, <2>3
<1> QED
  BY <1>1, <1>3, <1>4, <1>5

LEMMA NoNames ==
  Names(<<>>) = {}
BY DEF Names

IsFunction(o) == o = [n \in DOMAIN o |-> o[n]]

LEMMA OverlayNone ==
  ASSUME NEW o, IsFunction(o)
  PROVE  Overlay(o, <<>>) = o
BY NoNames DEF Overlay, IsFunction

LEMMA OverlayMore ==
  ASSUME NEW o, NEW m, NEW r, IsList(r)
  PROVE  Overlay(o, Prefixed(m, r)) = Overlay(WithMember(o, m.name, m.val), r)
<1> DEFINE N == Prefixed(m, r)
           W == WithMember(o, m.name, m.val)
<1>0. N = Prefixed(m, r)
  OBVIOUS
<1> HIDE DEF N
<1>1. /\ Names(N) = {m.name} \cup Names(r)
      /\ \A n \in Names(r) : N[Latest(N, n)] = r[Latest(r, n)]
      /\ m.name \notin Names(r) => N[Latest(N, m.name)] = m
  BY <1>0, LatestOfMore
<1>2. /\ DOMAIN W = DOMAIN o \cup {m.name} /\ W[m.name] = m.val
      /\ \A n \in DOMAIN o : n # m.name => W[n] = o[n]
  BY DEF WithMember
<1> HIDE DEF W
<1> DEFINE F(n) == IF n \in Names(N) THEN N[Latest(N, n)].val ELSE o[n]
           G(n) == IF n \in Names(r) THEN r[Latest(r, n)].val ELSE W[n]
           D == DOMAIN o \cup Names(N)
<1>3. D = DOMAIN W \cup Names(r)
  BY <1>1, <1>2
<1>4. ASSUME NEW n \in D PROVE F(n) = G(n)
  <2>1. CASE n \in Names(r)
    BY <2>1, <1>1
  <2>2. CASE n \notin Names(r) /\ n = m.name
    BY <2>2, <1>1, <1>2
  <2>3. CASE n \notin Names(r) /\ n # m.name
    BY <2>3, <1>1, <1>2
  <2> QED BY <2>1, <2>2, <2>3
<1>5. Overlay(o, N) = [n \in D |-> F(n)]
  BY Zenon DEF Overlay
<1>6. Overlay(W, r) = [n \in D |-> G(n)]
  BY <1>3, Zenon DEF Overlay
<1> HIDE DEF F, G, D
<1>7. Overlay(o, N) = Overlay(W, r)
  BY <1>4, <1>5, <1>6
<1> QED
  BY <1>7 DEF N, W

LEMMA ObjectIsOverlay ==
  ASSUME NEW ms
  PROVE  Object(ms) = Overlay(<<>>, ms)
<1>1. DOMAIN <<>> \cup Names(ms) = Names(ms)
  OBVIOUS
<1> QED
  BY <1>1, Zenon DEF Object, Overlay

LEMMA WithMemberIsFunction ==
  ASSUME NEW o, NEW k, NEW v
  PROVE  IsFunction(WithMember(o, k, v)) /\ IsFunction(<<>>)
BY DEF WithMember, IsFunction

----------------------------------------------------------------------------
(* What a phrase begins with, and what follows it *)

Closing == {CloseBracket, CloseBrace, Comma, Colon}

LEMMA NumberBegins ==
  ASSUME NEW t \in Seq(STRING), NEW p \in 1..Len(t), NEW x \in Numbers(t, p)
  PROVE  t[p] \in Plus \cup Digit
<1>1. PICK j \in (p + 1)..(Len(t) + 1) : IsNumber(t, p, j)
  BY Zenon DEF Numbers
<1>2. PICK a \in Signs(t, p) : \E q \in (a + 1)..j : InRun(t, a, q, Digit)
  BY <1>1, Zenon DEF IsNumber
<1>3. CASE a = p
  <2>1. PICK q \in (p + 1)..j : \A k \in p..(q - 1) : t[k] \in Digit
    BY <1>2, <1>3 DEF InRun
  <2>2. p \in p..(q - 1)
    OBVIOUS
  <2> QED BY <2>1, <2>2
<1>4. CASE a # p
  BY <1>2, <1>4 DEF Signs
<1> QED
  BY <1>3, <1>4

LEMMA ValueBegins ==
  ASSUME NEW t \in Seq(STRING), NEW T, NEW p \in 1..(Len(t) + 1), NEW d, NEW x \in Values(t, T, p, d)
  PROVE  p \in 1..Len(t) /\ t[p] \notin Whitespace /\ t[p] \notin Closing /\ t[p] # "end"
<1>1. /\ ~(p > Len(t))
      /\ \/ x \in Literals(t, p) \/ x \in Numbers(t, p)
         \/ \E s \in StringAt(t, T, p) : x = <<s[1], [str |-> s[2]]>>
         \/ t[p] = OpenBracket \/ t[p] = OpenBrace
  BY InValues
<1>2. p \in 1..Len(t)
  BY <1>1
<1> DEFINE Good(c) == c \notin Whitespace /\ c \notin Closing /\ c # "end"
<1>3. \A c \in {OpenBracket, OpenBrace, Quote} : Good(c)
  <2>1. \A c \in {OpenBracket, OpenBrace, Quote} : c \notin Whitespace
    BY Roles, SyntaxIs, Zenon
  <2>2. \A c \in {OpenBracket, OpenBrace, Quote} : c \notin Closing /\ c # "end"
    BY Distinct, Zenon DEF Closing
  <2> QED BY <2>1, <2>2, Zenon
<1>4. Good("true") /\ Good("false") /\ Good("null")
  <2>1. "true" \notin Whitespace /\ "false" \notin Whitespace /\ "null" \notin Whitespace
    BY Roles, SyntaxIs, Zenon
  <2>2. \A c \in Closing : c \notin {"true", "false", "null"}
    BY Distinct, Zenon DEF Closing, Colon
  <2>3. "true" # "end" /\ "false" # "end" /\ "null" # "end"
    OBVIOUS
  <2> QED BY <2>1, <2>2, <2>3, Zenon
<1>5. \A c \in Plus \cup Digit : Good(c)
  <2>1. \A c \in Plus \cup Digit : c \notin Whitespace /\ c \notin Syntax
    BY Roles, Zenon
  <2>2. \A c \in Closing : c \in Syntax
    BY SyntaxIs, Zenon DEF Closing
  <2> QED BY <2>1, <2>2, SyntaxIs, Zenon
<1> HIDE DEF Good
<1>6. CASE x \in Literals(t, p)
  <2>1. t[p] \in {"true", "false", "null"}
    BY <1>6 DEF Literals
  <2> QED BY <2>1, <1>2, <1>4 DEF Good
<1>7. CASE x \in Numbers(t, p)
  BY <1>7, <1>2, <1>5, NumberBegins DEF Good
<1>8. CASE \E s \in StringAt(t, T, p) : x = <<s[1], [str |-> s[2]]>>
  <2>1. Has(t, p, Quote)
    BY <1>8, Zenon DEF StringAt, Quote
  <2>2. t[p] = Quote
    BY <2>1, Zenon DEF Has
  <2> QED BY <2>2, <1>2, <1>3 DEF Good
<1>9. CASE t[p] = OpenBracket \/ t[p] = OpenBrace
  BY <1>9, <1>2, <1>3 DEF Good
<1> QED
  BY <1>1, <1>6, <1>7, <1>8, <1>9, Zenon

LEMMA ElementsBegin ==
  ASSUME NEW t \in Seq(STRING), NEW T, NEW p \in 1..(Len(t) + 1), NEW d, NEW x \in Elements(t, T, p, d)
  PROVE  p \in 1..Len(t) /\ t[p] \notin Whitespace /\ t[p] \notin Closing
BY InElements, ValueBegins

LEMMA MembersBegin ==
  ASSUME NEW t \in Seq(STRING), NEW T, NEW p \in 1..(Len(t) + 1), NEW d, NEW x \in Members(t, T, p, d)
  PROVE  p \in 1..Len(t) /\ t[p] = Quote /\ t[p] \notin Whitespace /\ t[p] \notin Closing
<1>1. \E m : m \in Member(t, T, p, d)
  BY InMembers
<1>2. \E s : s \in StringAt(t, T, p)
  BY <1>1, InMember
<1>3. Has(t, p, Quote)
  BY <1>2, Zenon DEF StringAt, Quote
<1>4. p \in DOMAIN t /\ t[p] = Quote
  BY <1>3, Zenon DEF Has
<1>5. Quote \notin Whitespace
  BY Roles, SyntaxIs, Zenon
<1>6. Quote \notin Closing
  BY Distinct, Zenon DEF Closing
<1> QED
  BY <1>4, <1>5, <1>6

\* The text may go on so after a value.
Follows(t, j) ==
  j = Len(t) + 1 \/ (j \in DOMAIN t /\ t[j] \in Whitespace \cup {CloseBracket, CloseBrace, Comma})

LEMMA GapFollows ==
  ASSUME NEW t \in Seq(STRING), NEW j \in 1..(Len(t) + 1), NEW k \in Gaps(t, j), j # k
  PROVE  j \in DOMAIN t /\ t[j] \in Whitespace
<1>1. k \in j..(Len(t) + 1) /\ \A i \in j..(k - 1) : t[i] \in Whitespace
  BY DEF Gaps, InRun
<1>2. j \in j..(k - 1) /\ j \in DOMAIN t
  BY <1>1
<1> QED
  BY <1>1, <1>2

LEMMA MarkFollows ==
  ASSUME NEW t \in Seq(STRING), NEW j \in 1..(Len(t) + 1), NEW c, NEW k \in Marks(t, j, c)
  PROVE  j \in DOMAIN t /\ t[j] \in Whitespace \cup {c}
<1>1. k \in Gaps(t, j) /\ k \in DOMAIN t /\ t[k] = c
  BY Zenon DEF Marks, Has
<1> QED
  BY <1>1, GapFollows

LEMMA LevelFollows ==
  ASSUME NEW t \in Seq(STRING), NEW f, NEW k, NEW p \in 1..(Len(t) + 1), NEW v, NEW q, NEW w,
         Level(t, f, k, p, v, q, w)
  PROVE  Follows(t, p)
<1>1. CASE \E r : r \in MoreElements(t, Table(t), p, k)
  <2>1. (\E i : i \in Marks(t, p, CloseBracket)) \/ (\E i : i \in Marks(t, p, Comma))
    BY <1>1, InMoreElements
  <2> QED BY <2>1, MarkFollows DEF Follows
<1>2. CASE \E r : r \in MoreMembers(t, Table(t), p, k)
  <2>1. (\E i : i \in Marks(t, p, CloseBrace)) \/ (\E i : i \in Marks(t, p, Comma))
    BY <1>2, InMoreMembers
  <2> QED BY <2>1, MarkFollows DEF Follows
<1> QED
  BY <1>1, <1>2, Zenon DEF Level

LEMMA OuterFollows ==
  ASSUME NEW t \in Seq(STRING), NEW S, NEW n \in Nat, NEW p \in 1..(Len(t) + 1), NEW v, NEW v0,
         Outer(t, S, n, p, v, v0)
  PROVE  Follows(t, p)
<1>1. CASE n = 0
  <2>1. Len(t) + 1 \in Gaps(t, p)
    BY <1>1, Outermost, Zenon
  <2> QED BY <2>1, GapFollows DEF Follows
<1>2. CASE n # 0
  <2>1. n \in Nat \ {0}
    BY <1>2
  <2> QED BY <2>1, OuterOut, LevelFollows, Zenon
<1> QED
  BY <1>1, <1>2

----------------------------------------------------------------------------
(* The scan of a number *)

LEMMA PastIs ==
  ASSUME JsonTypeOK, NEW i \in 1..End, NEW S
  PROVE  /\ Past(i, S) \in i..End /\ InRun(text, i, Past(i, S), S)
         /\ Past(i, S) < End => text[Past(i, S)] \notin S
         /\ \A k \in i..End : InRun(text, i, k, S) /\ (k < End => text[k] \notin S) => k = Past(i, S)
<1> DEFINE T == {j \in i..End : j = End \/ text[j] \notin S}
           m == Past(i, S)
<1>1. End \in Nat \ {0}
  BY TextIsFinite
<1>2. T \subseteq Nat /\ End \in T
  BY <1>1
<1>3. m = Min(T)
  BY DEF Past, End
<1>4. m \in T /\ \A y \in T : m <= y
  <2> HIDE DEF T, m
  <2> QED BY <1>2, <1>3, MinExists
<1> HIDE DEF m
<1>5. m \in i..End /\ (m < End => text[m] \notin S)
  BY <1>1, <1>4
<1>6. ASSUME NEW k \in i..(m - 1) PROVE text[k] \in S
  <2>1. k \in i..End /\ k # End /\ ~(m <= k)
    BY <1>1, <1>5
  <2> QED BY <2>1, <1>4
<1>7. ASSUME NEW k \in i..End, \A j \in i..(k - 1) : text[j] \in S, k < End => text[k] \notin S
      PROVE  k = m
  <2>1. m <= k
    BY <1>1, <1>4, <1>7
  <2>2. m < k => m \in i..(k - 1) /\ m < End
    BY <1>1, <1>5
  <2> QED BY <2>1, <2>2, <1>5, <1>7, <1>1
<1> QED
  BY <1>5, <1>6, <1>7, Zenon DEF InRun, m

LEMMA AtIs ==
  ASSUME JsonTypeOK, NEW i \in Nat \ {0}
  PROVE  /\ \A c : c # "end" => (At(i) = c <=> Has(text, i, c))
         /\ i <= Len(text) => At(i) = text[i]
         /\ i > Len(text) => At(i) = "end"
<1>1. Len(text) \in Nat /\ DOMAIN text = 1..Len(text)
  BY DEF JsonTypeOK
<1>2. i \in DOMAIN text <=> i <= Len(text)
  BY <1>1
<1>3. (i <= Len(text) => At(i) = text[i]) /\ (~(i <= Len(text)) => At(i) = "end")
  BY Zenon DEF At
<1>4. i > Len(text) => ~(i <= Len(text))
  BY <1>1
<1> QED
  BY <1>2, <1>3, <1>4, Zenon DEF Has

LEMMA SkipIs ==
  ASSUME JsonTypeOK, NEW i \in 1..End
  PROVE  Skips(text, i, skip_ws(i)) /\ skip_ws(i) \in i..End
<1> DEFINE k == skip_ws(i)
<1>1. k \in i..End /\ InRun(text, i, k, Whitespace) /\ (k < End => text[k] \notin Whitespace)
  BY PastIs, Zenon DEF skip_ws
<1> HIDE DEF k
<1>2. k <= Len(text) => k < End
  BY <1>1, TextIsFinite DEF End
<1>3. Skips(text, i, k)
  BY <1>1, <1>2, Zenon DEF Skips, Gaps, End
<1> QED
  BY <1>1, <1>3 DEF k

LEMMA SignIs ==
  ASSUME JsonTypeOK, NEW i \in 1..End
  PROVE  /\ Signed(i) \in Signs(text, i) /\ Signed(i) \in i..End
         /\ \A a \in Signs(text, i) : a \in 1..Len(text) /\ text[a] \notin Plus => a = Signed(i)
         /\ \A a \in Signs(text, i) : a = End => a = Signed(i)
<1>1. /\ Len(text) \in Nat /\ DOMAIN text = 1..Len(text) /\ End = Len(text) + 1
  BY DEF JsonTypeOK, End
<1>2. "end" \notin Plus
  BY JsonAssumption
<1>3. CASE i \in DOMAIN text /\ text[i] \in Plus
  <2>1. At(i) = text[i]
    BY <1>1, <1>3, AtIs
  <2>2. Signed(i) = i + 1
    BY <2>1, <1>3 DEF Signed
  <2>3. \A a \in Signs(text, i) : a = i \/ a = i + 1
    BY DEF Signs
  <2>4. Signed(i) \in Signs(text, i)
    BY <2>2, <1>3 DEF Signs
  <2> QED BY <2>2, <2>3, <2>4, <1>1, <1>3
<1>4. CASE ~(i \in DOMAIN text /\ text[i] \in Plus)
  <2>1. Signed(i) = i
    <3>1. CASE i \in DOMAIN text
      BY <1>1, <1>4, <3>1, AtIs DEF Signed
    <3>2. CASE i \notin DOMAIN text
      <4>1. At(i) = "end"
        BY <1>1, <3>2, AtIs
      <4> QED BY <4>1, <1>2 DEF Signed
    <3> QED BY <3>1, <3>2
  <2>2. Signs(text, i) = {i}
    BY <1>4 DEF Signs
  <2> QED BY <2>1, <2>2, <1>1
<1> QED
  BY <1>3, <1>4

\* No digit, sign, point or e may follow a number.
LEMMA FollowIs ==
  ASSUME NEW t \in Seq(STRING), NEW j \in DOMAIN t, Follows(t, j)
  PROVE  t[j] \notin Digit /\ t[j] \notin Plus /\ t[j] # "." /\ t[j] # "e"
<1>1. t[j] \in Whitespace \cup {CloseBracket, CloseBrace, Comma}
  BY DEF Follows
<1>2. CASE t[j] \in Whitespace
  BY <1>2, Roles, SyntaxIs, Zenon
<1>3. CASE t[j] \in {CloseBracket, CloseBrace, Comma}
  <2>1. t[j] # "." /\ t[j] # "e"
    BY <1>3, Distinct, Zenon
  <2>2. t[j] \in Syntax
    BY <1>3, SyntaxIs, Zenon
  <2> QED BY <2>1, <2>2, Roles, Zenon
<1> QED
  BY <1>1, <1>2, <1>3

LEMMA PointIsNoDigit ==
  "." \notin Digit /\ "e" \notin Digit /\ "." # "e" /\ "." # "end" /\ "e" # "end"
BY Roles, SyntaxIs, Zenon

LEMMA NumberEnds ==
  ASSUME JsonTypeOK, NEW j \in (pos_ + 1)..End, IsNumber(text, pos_, j), Follows(text, j)
  PROVE  Whole(pos_) # Signed(pos_) /\ j = Exponent(Fraction(Whole(pos_)))
<1>0. /\ Len(text) \in Nat /\ DOMAIN text = 1..Len(text) /\ End = Len(text) + 1
      /\ text \in Seq(STRING) /\ pos_ \in 1..End
  BY DEF JsonTypeOK, End
<1>1. PICK a \in Signs(text, pos_), q \in Int :
        /\ q \in (a + 1)..j
        /\ \E e \in q..j :
             /\ InRun(text, a, q, Digit)
             /\ q < e => Has(text, q, ".") /\ InRun(text, q + 1, e, Digit)
             /\ e < j => Has(text, e, "e") /\ \E b \in Signs(text, e + 1) :
                                                b <= j /\ InRun(text, b, j, Digit)
  BY DEF IsNumber
<1>2. PICK e \in q..j :
             /\ InRun(text, a, q, Digit)
             /\ q < e => Has(text, q, ".") /\ InRun(text, q + 1, e, Digit)
             /\ e < j => Has(text, e, "e") /\ \E b \in Signs(text, e + 1) :
                                                b <= j /\ InRun(text, b, j, Digit)
  BY <1>1
<1>3. a \in pos_..End /\ q \in (a + 1)..j /\ e \in q..j /\ a \in Int
  <2>1. a = pos_ \/ a = pos_ + 1
    BY DEF Signs
  <2> QED BY <2>1, <1>0, <1>1
<1>10. j < End => /\ text[j] \notin Digit /\ text[j] \notin Plus
                  /\ ~Has(text, j, ".") /\ ~Has(text, j, "e")
  <2>1. j < End => j \in DOMAIN text
    BY <1>0, <1>3
  <2> QED BY <2>1, <1>0, FollowIs, Zenon DEF Has
<1>11. j = End => ~Has(text, j, ".") /\ ~Has(text, j, "e")
  BY <1>0 DEF Has
<1>12. \A k, c : Has(text, k, c) => text[k] = c /\ k \in 1..Len(text)
  BY <1>0 DEF Has
<1>4. a = Signed(pos_)
  <2>1. a \in a..(q - 1) /\ a \in 1..Len(text)
    BY <1>0, <1>3
  <2>2. text[a] \in Digit
    BY <2>1, <1>2 DEF InRun
  <2>3. text[a] \notin Plus
    BY <2>2, Roles
  <2> QED BY <2>1, <2>3, <1>0, SignIs
<1>5. q = Whole(pos_)
  <2>1. q < End => text[q] \notin Digit
    <3>1. CASE q = j
      BY <3>1, <1>10
    <3>2. CASE q < e
      <4>1. text[q] = "."
        BY <3>2, <1>2, <1>12
      <4> QED BY <4>1, PointIsNoDigit
    <3>3. CASE q = e /\ e < j
      <4>1. text[q] = "e"
        BY <3>3, <1>2, <1>12
      <4> QED BY <4>1, PointIsNoDigit
    <3> QED BY <3>1, <3>2, <3>3, <1>3
  <2>2. a \in 1..End /\ q \in a..End
    BY <1>0, <1>3
  <2> QED BY <2>1, <2>2, <1>2, <1>4, PastIs DEF Whole
<1>6. e = Fraction(q)
  <2>1. q \in Nat \ {0}
    BY <1>0, <1>3
  <2>2. CASE q < e
    <3>1. At(q) = "." /\ q + 1 \in 1..End /\ e \in (q + 1)..End
      BY <2>1, <2>2, <1>0, <1>2, <1>3, AtIs, PointIsNoDigit
    <3>2. e < End => text[e] \notin Digit
      <4>1. CASE e = j
        BY <4>1, <1>10
      <4>2. CASE e < j
        <5>1. text[e] = "e"
          BY <4>2, <1>2, <1>12
        <5> QED BY <5>1, PointIsNoDigit
      <4> QED BY <4>1, <4>2, <1>3
    <3>3. e = Past(q + 1, Digit)
      BY <3>1, <3>2, <2>2, <1>2, PastIs
    <3> QED BY <3>1, <3>3 DEF Fraction
  <2>3. CASE q = e
    <3>1. ~Has(text, q, ".")
      <4>1. CASE e = j
        BY <4>1, <2>3, <1>10, <1>11, <1>0
      <4>2. CASE e < j
        BY <4>2, <2>3, <1>2, <1>12, PointIsNoDigit
      <4> QED BY <4>1, <4>2, <1>3
    <3>2. At(q) # "."
      BY <3>1, <2>1, AtIs, PointIsNoDigit
    <3> QED BY <3>2, <2>3 DEF Fraction
  <2> QED BY <2>2, <2>3, <1>3
<1>7. j = Exponent(e)
  <2>1. e \in Nat \ {0}
    BY <1>0, <1>3
  <2>2. CASE e < j
    <3>1. Has(text, e, "e") /\ e \in 1..Len(text)
      BY <2>2, <1>2, <1>12
    <3>2. At(e) = "e" /\ e + 1 \in 1..End
      BY <3>1, <2>1, <1>0, AtIs, PointIsNoDigit
    <3>3. PICK b \in Signs(text, e + 1) : b <= j /\ InRun(text, b, j, Digit)
      BY <2>2, <1>2
    <3>4. b \in (e + 1)..j /\ b \in 1..End /\ j \in b..End
      <4>1. b = e + 1 \/ b = e + 1 + 1
        BY DEF Signs
      <4> QED BY <4>1, <3>3, <2>1, <2>2, <1>0, <1>3
    <3>5. b = Signed(e + 1)
      <4>1. CASE b = End
        BY <4>1, <3>2, SignIs
      <4>2. CASE b < End
        <5>1. text[b] \notin Plus
          <6>1. CASE b = j
            BY <6>1, <4>2, <1>10
          <6>2. CASE b # j
            <7>1. b \in b..(j - 1)
              BY <6>2, <3>4
            <7>2. text[b] \in Digit
              BY <7>1, <3>3 DEF InRun
            <7> QED BY <7>2, Roles
          <6> QED BY <6>1, <6>2
        <5>2. b \in 1..Len(text)
          BY <4>2, <3>4, <1>0
        <5> QED BY <5>1, <5>2, <3>2, SignIs
      <4> QED BY <4>1, <4>2, <3>4, <1>0
    <3>6. j = Past(b, Digit)
      BY <3>3, <3>4, <1>10, PastIs
    <3> QED BY <3>2, <3>5, <3>6 DEF Exponent
  <2>3. CASE e = j
    <3>1. At(e) # "e"
      <4>1. ~Has(text, e, "e")
        BY <2>3, <1>10, <1>11, <1>0
      <4> QED BY <4>1, <2>1, AtIs, PointIsNoDigit
    <3> QED BY <3>1, <2>3 DEF Exponent
  <2> QED BY <2>2, <2>3, <1>3
<1> QED
  BY <1>3, <1>4, <1>5, <1>6, <1>7

LEMMA NumberIs ==
  ASSUME JsonTypeOK, Whole(pos_) # Signed(pos_)
  PROVE  /\ IsNumber(text, pos_, Exponent(Fraction(Whole(pos_))))
         /\ Exponent(Fraction(Whole(pos_))) \in (pos_ + 1)..End
<1> DEFINE a == Signed(pos_)
           q == Whole(pos_)
           e == Fraction(q)
           j == Exponent(e)
<1>0. /\ Len(text) \in Nat /\ DOMAIN text = 1..Len(text) /\ End = Len(text) + 1
      /\ text \in Seq(STRING) /\ pos_ \in 1..End
  BY DEF JsonTypeOK, End
<1>1. a \in Signs(text, pos_) /\ a \in pos_..End
  BY <1>0, SignIs
<1>2. q \in (a + 1)..End /\ InRun(text, a, q, Digit)
  <2>1. a \in 1..End /\ q = Past(a, Digit)
    BY <1>0, <1>1 DEF Whole
  <2> HIDE DEF a, q
  <2>2. q \in a..End /\ InRun(text, a, q, Digit)
    BY <2>1, PastIs
  <2> QED BY <2>1, <2>2, <1>0 DEF a, q
<1> HIDE DEF a, q
<1>3. e \in q..End /\ (q < e => Has(text, q, ".") /\ InRun(text, q + 1, e, Digit))
  <2>1. q \in Nat \ {0}
    BY <1>0, <1>1, <1>2
  <2>2. CASE At(q) = "."
    <3>1. Has(text, q, ".") /\ q + 1 \in 1..End
      <4>1. Has(text, q, ".")
        BY <2>1, <2>2, AtIs, PointIsNoDigit
      <4> QED BY <4>1, <1>0 DEF Has
    <3>2. e = Past(q + 1, Digit)
      BY <2>2 DEF Fraction
    <3> HIDE DEF e
    <3>3. e \in (q + 1)..End /\ InRun(text, q + 1, e, Digit)
      BY <3>1, <3>2, PastIs
    <3> QED BY <3>1, <3>3, <2>1, <1>0
  <2>3. CASE At(q) # "."
    <3>1. e = q
      BY <2>3 DEF Fraction
    <3> QED BY <3>1, <1>0, <1>2, <2>1
  <2> QED BY <2>2, <2>3
<1> HIDE DEF e
<1>4. j \in e..End /\ (e < j => Has(text, e, "e") /\ \E b \in Signs(text, e + 1) :
                                                        b <= j /\ InRun(text, b, j, Digit))
  <2>1. e \in Nat \ {0}
    BY <1>0, <1>1, <1>2, <1>3
  <2>2. CASE At(e) = "e"
    <3>1. Has(text, e, "e") /\ e + 1 \in 1..End
      <4>1. Has(text, e, "e")
        BY <2>1, <2>2, AtIs, PointIsNoDigit
      <4> QED BY <4>1, <1>0 DEF Has
    <3>2. j = Past(Signed(e + 1), Digit)
      BY <2>2 DEF Exponent
    <3> DEFINE b == Signed(e + 1)
    <3>3. b \in Signs(text, e + 1) /\ b \in (e + 1)..End
      BY <3>1, SignIs
    <3> HIDE DEF b, j
    <3>4. b \in 1..End
      BY <3>1, <3>3, <1>0
    <3>5. j \in b..End /\ InRun(text, b, j, Digit)
      BY <3>2, <3>4, PastIs DEF b
    <3> QED BY <3>1, <3>3, <3>5, <2>1, <1>0
  <2>3. CASE At(e) # "e"
    <3>1. j = e
      BY <2>3 DEF Exponent
    <3> QED BY <3>1, <1>0, <1>3, <2>1, <1>2, <1>1
  <2> QED BY <2>2, <2>3
<1> HIDE DEF j
<1>5. j \in (pos_ + 1)..End /\ q \in (a + 1)..j /\ e \in q..j
  BY <1>0, <1>1, <1>2, <1>3, <1>4
<1>6. IsNumber(text, pos_, j)
  BY <1>1, <1>2, <1>3, <1>4, <1>5, Zenon DEF IsNumber
<1> QED
  BY <1>5, <1>6 DEF j, e, q

----------------------------------------------------------------------------
(* The characters of a string *)

LEMMA Sixths ==
  ASSUME NEW q \in Int, NEW r \in Nat, r < 64
  PROVE  (64 * q + r) \div 64 = q /\ (64 * q + r) % 64 = r
OBVIOUS

LEMMA Parts ==
  ASSUME NEW x \in Int, NEW y \in Nat, y < 64, NEW z \in Nat, z < 64, NEW u \in Nat, u < 64
  PROVE  /\ (4096 * x + 64 * y + z) \div 4096 = x
         /\ (4096 * x + 64 * y + z) \div 64 = 64 * x + y
         /\ (4096 * x + 64 * y + z) % 64 = z
         /\ (262144 * x + 4096 * y + 64 * z + u) \div 262144 = x
         /\ (262144 * x + 4096 * y + 64 * z + u) \div 4096 = 64 * x + y
         /\ (262144 * x + 4096 * y + 64 * z + u) \div 64 = 4096 * x + 64 * y + z
         /\ (262144 * x + 4096 * y + 64 * z + u) % 64 = u
<1>1. /\ (4096 * x + 64 * y + z) \div 4096 = x
      /\ (262144 * x + 4096 * y + 64 * z + u) \div 262144 = x
  OBVIOUS
<1>2. /\ (4096 * x + 64 * y + z) \div 64 = 64 * x + y
      /\ (4096 * x + 64 * y + z) % 64 = z
  OBVIOUS
<1>3. (262144 * x + 4096 * y + 64 * z + u) \div 4096 = 64 * x + y
  OBVIOUS
<1>4. /\ (262144 * x + 4096 * y + 64 * z + u) \div 64 = 4096 * x + 64 * y + z
      /\ (262144 * x + 4096 * y + 64 * z + u) % 64 = u
  OBVIOUS
<1> QED
  BY <1>1, <1>2, <1>3, <1>4

LEMMA OneByOne ==
  ASSUME NEW b \in Seq(Nat)
  PROVE  /\ \A k \in 1..Len(b) : b[k] \in Nat
         /\ Len(b) = 1 => b = <<b[1]>>
         /\ Len(b) = 2 => b = <<b[1], b[2]>>
         /\ Len(b) = 3 => b = <<b[1], b[2], b[3]>>
         /\ Len(b) = 4 => b = <<b[1], b[2], b[3], b[4]>>
<1>1. \A k \in 1..Len(b) : b[k] \in Nat
  OBVIOUS
<1>2. Len(b) = 1 => b = <<b[1]>>
  OBVIOUS
<1>3. Len(b) = 2 => b = <<b[1], b[2]>>
  OBVIOUS
<1>4. Len(b) = 3 => b = <<b[1], b[2], b[3]>>
  OBVIOUS
<1>5. Len(b) = 4 => b = <<b[1], b[2], b[3], b[4]>>
  OBVIOUS
<1> QED
  BY <1>1, <1>2, <1>3, <1>4, <1>5

LEMMA Utf8Is ==
  ASSUME NEW b, NEW cp \in Nat, IsUtf8(b, cp)
  PROVE  b = append_utf8(cp)
<1>9. b \in Seq(Nat) /\ Len(b) \in Nat /\ \A k \in 2..Len(b) : 128 <= b[k] /\ b[k] < 192
  BY DEF IsUtf8
<1>0. /\ b \in Seq(Nat) /\ Len(b) \in Nat /\ \A k \in 1..Len(b) : b[k] \in Nat
      /\ \A k \in 2..Len(b) : 128 <= b[k] /\ b[k] < 192
  BY <1>9, OneByOne
<1>1. CASE Len(b) = 1 /\ cp < 128 /\ cp = b[1]
  <2>1. b = <<cp>>
    BY <1>0, <1>1
  <2> QED BY <2>1, <1>1 DEF append_utf8
<1>2. CASE Len(b) = 2 /\ 128 <= cp /\ cp < 2048 /\ cp = 64 * (b[1] - 192) + (b[2] - 128)
  <2>0. 1 \in 1..Len(b) /\ 2 \in 1..Len(b) /\ 2 \in 2..Len(b)
    BY <1>2
  <2>1. b[1] \in Nat /\ b[2] \in Nat /\ 128 <= b[2] /\ b[2] < 192
    BY <1>0, <2>0
  <2>11. b = <<b[1], b[2]>>
    BY <1>0, <1>2, OneByOne
  <2>2. PICK x \in Int : x = b[1] - 192
    BY <2>1
  <2>3. PICK y \in Nat : y = b[2] - 128
    BY <2>1
  <2>4. cp = 64 * x + y /\ y < 64
    BY <1>2, <2>1, <2>2, <2>3
  <2>5. cp \div 64 = x /\ cp % 64 = y
    BY <2>4, Sixths
  <2>6. b[1] = 192 + (cp \div 64) /\ b[2] = 128 + (cp % 64)
    BY <2>1, <2>2, <2>3, <2>5
  <2>7. append_utf8(cp) = <<192 + (cp \div 64), 128 + (cp % 64)>>
    BY <1>2 DEF append_utf8, Tail6
  <2> QED BY <2>11, <2>6, <2>7
<1>3. CASE /\ Len(b) = 3 /\ 2048 <= cp /\ cp < 65536
           /\ cp = 4096 * (b[1] - 224) + 64 * (b[2] - 128) + (b[3] - 128)
  <2>0. 1 \in 1..Len(b) /\ 2 \in 1..Len(b) /\ 2 \in 2..Len(b) /\ 3 \in 1..Len(b) /\ 3 \in 2..Len(b)
    BY <1>3
  <2>1. /\ b[1] \in Nat /\ b[2] \in Nat /\ b[3] \in Nat /\ 128 <= b[2] /\ b[2] < 192
        /\ 128 <= b[3] /\ b[3] < 192
    BY <1>0, <2>0
  <2>11. b = <<b[1], b[2], b[3]>>
    BY <1>0, <1>3, OneByOne
  <2>2. PICK x \in Int : x = b[1] - 224
    BY <2>1
  <2>3. PICK y \in Nat : y = b[2] - 128
    BY <2>1
  <2>4. PICK z \in Nat : z = b[3] - 128
    BY <2>1
  <2>5. cp = 4096 * x + 64 * y + z /\ y < 64 /\ z < 64
    BY <1>3, <2>1, <2>2, <2>3, <2>4
  <2>6. cp \div 4096 = x /\ cp \div 64 = 64 * x + y /\ cp % 64 = z
    BY <2>5, Parts
  <2>7. (cp \div 64) % 64 = y
    BY <2>5, <2>6, Sixths
  <2> DEFINE A == 224 + (cp \div 4096)
             B == 128 + ((cp \div 64) % 64)
             C == 128 + (cp % 64)
  <2>9. append_utf8(cp) = <<A, B, C>>
    BY <1>3 DEF append_utf8, Tail6
  <2>20. b[1] = A
    <3>1. b[1] = 224 + x
      BY <2>1, <2>2, <2>3, <2>4
    <3>2. A = 224 + x
      BY <2>6, <2>7
    <3> HIDE DEF A
    <3> QED BY <3>1, <3>2
  <2>21. b[2] = B
    <3>1. b[2] = 128 + y
      BY <2>1, <2>2, <2>3, <2>4
    <3>2. B = 128 + y
      BY <2>6, <2>7
    <3> HIDE DEF B
    <3> QED BY <3>1, <3>2
  <2>22. b[3] = C
    <3>1. b[3] = 128 + z
      BY <2>1, <2>2, <2>3, <2>4
    <3>2. C = 128 + z
      BY <2>6, <2>7
    <3> HIDE DEF C
    <3> QED BY <3>1, <3>2
  <2> HIDE DEF A, B, C
  <2> QED BY <2>9, <2>11, <2>20, <2>21, <2>22
<1>4. CASE /\ Len(b) = 4 /\ 65536 <= cp
           /\ cp = 262144 * (b[1] - 240) + 4096 * (b[2] - 128) + 64 * (b[3] - 128) + (b[4] - 128)
  <2>0. /\ 1 \in 1..Len(b) /\ 2 \in 1..Len(b) /\ 3 \in 1..Len(b) /\ 4 \in 1..Len(b)
        /\ 2 \in 2..Len(b) /\ 3 \in 2..Len(b) /\ 4 \in 2..Len(b)
    BY <1>4
  <2>1. /\ b[1] \in Nat /\ b[2] \in Nat /\ b[3] \in Nat /\ b[4] \in Nat /\ 128 <= b[2] /\ b[2] < 192
        /\ 128 <= b[3] /\ b[3] < 192 /\ 128 <= b[4] /\ b[4] < 192
    BY <1>0, <2>0
  <2>11. b = <<b[1], b[2], b[3], b[4]>>
    BY <1>0, <1>4, OneByOne
  <2>2. PICK x \in Int : x = b[1] - 240
    BY <2>1
  <2>3. PICK y \in Nat : y = b[2] - 128
    BY <2>1
  <2>4. PICK z \in Nat : z = b[3] - 128
    BY <2>1
  <2>10. PICK u \in Nat : u = b[4] - 128
    BY <2>1
  <2>5. cp = 262144 * x + 4096 * y + 64 * z + u /\ y < 64 /\ z < 64 /\ u < 64
    BY <1>4, <2>1, <2>2, <2>3, <2>4, <2>10
  <2>6. /\ cp \div 262144 = x /\ cp \div 4096 = 64 * x + y
        /\ cp \div 64 = 64 * (64 * x + y) + z /\ cp % 64 = u
    BY <2>5, Parts
  <2>7. (cp \div 4096) % 64 = y /\ (cp \div 64) % 64 = z
    <3>1. (64 * x + y) % 64 = y
      BY <2>5, Sixths
    <3>2. 64 * x + y \in Int
      OBVIOUS
    <3>3. (64 * (64 * x + y) + z) % 64 = z
      BY <3>2, <2>5, Sixths
    <3> QED BY <2>6, <3>1, <3>3
  <2> DEFINE A == 240 + (cp \div 262144)
             B == 128 + ((cp \div 4096) % 64)
             C == 128 + ((cp \div 64) % 64)
             D == 128 + (cp % 64)
  <2>9. append_utf8(cp) = <<A, B, C, D>>
    BY <1>4 DEF append_utf8, Tail6
  <2>20. b[1] = A
    <3>1. b[1] = 240 + x
      BY <2>1, <2>2, <2>3, <2>4, <2>10
    <3>2. A = 240 + x
      BY <2>6, <2>7
    <3> HIDE DEF A
    <3> QED BY <3>1, <3>2
  <2>21. b[2] = B
    <3>1. b[2] = 128 + y
      BY <2>1, <2>2, <2>3, <2>4, <2>10
    <3>2. B = 128 + y
      BY <2>6, <2>7
    <3> HIDE DEF B
    <3> QED BY <3>1, <3>2
  <2>22. b[3] = C
    <3>1. b[3] = 128 + z
      BY <2>1, <2>2, <2>3, <2>4, <2>10
    <3>2. C = 128 + z
      BY <2>6, <2>7
    <3> HIDE DEF C
    <3> QED BY <3>1, <3>2
  <2>23. b[4] = D
    <3>1. b[4] = 128 + u
      BY <2>1, <2>2, <2>3, <2>4, <2>10
    <3>2. D = 128 + u
      BY <2>6, <2>7
    <3> HIDE DEF D
    <3> QED BY <3>1, <3>2
  <2> HIDE DEF A, B, C, D
  <2> QED BY <2>9, <2>11, <2>20, <2>21, <2>22, <2>23
<1> QED
  BY <1>1, <1>2, <1>3, <1>4 DEF IsUtf8

LEMMA HalvesAre ==
  ASSUME NEW u \in Nat
  PROVE  /\ IsHigh(u) <=> 55296 <= u /\ u <= 56319
         /\ IsLow(u) <=> 56320 <= u /\ u <= 57343
<1>1. \A a, b \in Nat : u \in a..b <=> a <= u /\ u <= b
  OBVIOUS
<1>2. 55296 \in Nat /\ 56319 \in Nat /\ 56320 \in Nat /\ 57343 \in Nat
  OBVIOUS
<1> QED
  BY <1>1, <1>2 DEF IsHigh, IsLow

----------------------------------------------------------------------------
(* The one character at a place of a string, if there is one *)

LEMMA HasOnce ==
  ASSUME NEW t, NEW p, NEW c, Has(t, p, c), NEW e, Has(t, p, e)
  PROVE  e = c
BY Zenon DEF Has

LEMMA NoUnits ==
  ASSUME NEW t, NEW p,
         ~ (Has(t, p, Backslash) /\ Has(t, p + 1, "u") /\ \E q \in DOMAIN Unit : Has(t, p + 2, q))
  PROVE  Units(t, p) = {} /\ Pairs(t, p) = {}
<1>1. \A u : u \notin Units(t, p)
  BY InUnits, Zenon
<1>2. \A x : x \notin Pairs(t, p)
  BY <1>1, InPairs, Zenon
<1> QED
  BY <1>1, <1>2, Zenon

LEMMA UnitsAre ==
  ASSUME NEW t, NEW p, Has(t, p, Backslash), Has(t, p + 1, "u"),
         NEW q \in DOMAIN Unit, Has(t, p + 2, q)
  PROVE  Units(t, p) = {Unit[q]}
<1>1. ASSUME NEW u \in Units(t, p) PROVE u = Unit[q]
  <2>1. PICK e \in DOMAIN Unit : Has(t, p + 2, e) /\ u = Unit[e]
    BY InUnits
  <2> QED BY <2>1, HasOnce, Zenon
<1>2. Unit[q] \in Units(t, p)
  BY InUnits, Zenon
<1> QED
  BY <1>1, <1>2

LEMMA PlainCharacters ==
  ASSUME NEW t, NEW p, NEW c \in DOMAIN Bytes, c # Quote, c # Backslash, Has(t, p, c)
  PROVE  Characters(t, p) = {<<p + 1, Bytes[c]>>}
<1>1. ~Has(t, p, Backslash)
  BY HasOnce, Zenon
<1>2. Units(t, p) = {} /\ Pairs(t, p) = {}
  BY <1>1, NoUnits, Zenon
<1>3. ~ \E x : EscapeAt(t, p, x) \/ UnitAt(t, p, x) \/ PairAt(t, p, x)
  BY <1>1, <1>2, Zenon DEF EscapeAt, UnitAt, PairAt
<1>4. ASSUME NEW x, PlainAt(t, p, x) PROVE x = <<p + 1, Bytes[c]>>
  <2>1. PICK e \in DOMAIN Bytes : Has(t, p, e) /\ x = <<p + 1, Bytes[e]>>
    BY <1>4, Zenon DEF PlainAt
  <2>2. e = c
    BY <2>1, HasOnce, Zenon
  <2> QED BY <2>1, <2>2, Zenon
<1>5. PlainAt(t, p, <<p + 1, Bytes[c]>>)
  BY Zenon DEF PlainAt
<1> DEFINE y == <<p + 1, Bytes[c]>>
<1> HIDE DEF y
<1>6. \A x : x \in Characters(t, p) <=> x = y
  BY <1>3, <1>4, <1>5, InCharacters, Zenon DEF y
<1> QED
  BY <1>6 DEF y

LEMMA EscapeCharacters ==
  ASSUME NEW t, NEW p, Has(t, p, Backslash), NEW c \in DOMAIN Escapes, Has(t, p + 1, c)
  PROVE  Characters(t, p) = {<<p + 2, Escapes[c]>>}
<1>0. c # "u"
  BY JsonAssumption
<1>1. ~Has(t, p + 1, "u")
  BY <1>0, HasOnce, Zenon
<1>2. Units(t, p) = {} /\ Pairs(t, p) = {}
  BY <1>1, NoUnits, Zenon
<1>7. \A e \in DOMAIN Bytes \ {Quote, Backslash} : ~Has(t, p, e)
  BY HasOnce, Zenon
<1>3. ~ \E x : PlainAt(t, p, x) \/ UnitAt(t, p, x) \/ PairAt(t, p, x)
  BY <1>2, <1>7, Zenon DEF PlainAt, UnitAt, PairAt
<1>4. ASSUME NEW x, EscapeAt(t, p, x) PROVE x = <<p + 2, Escapes[c]>>
  <2>1. PICK e \in DOMAIN Escapes : Has(t, p + 1, e) /\ x = <<p + 2, Escapes[e]>>
    BY <1>4, Zenon DEF EscapeAt
  <2>2. e = c
    BY <2>1, HasOnce, Zenon
  <2> QED BY <2>1, <2>2, Zenon
<1>5. EscapeAt(t, p, <<p + 2, Escapes[c]>>)
  BY Zenon DEF EscapeAt
<1> DEFINE y == <<p + 2, Escapes[c]>>
<1> HIDE DEF y
<1>6. \A x : x \in Characters(t, p) <=> x = y
  BY <1>3, <1>4, <1>5, InCharacters, Zenon DEF y
<1> QED
  BY <1>6 DEF y

LEMMA UnitCharacters ==
  ASSUME NEW t, NEW p, Has(t, p, Backslash), Has(t, p + 1, "u")
  PROVE  \A x : x \in Characters(t, p) <=> UnitAt(t, p, x) \/ PairAt(t, p, x)
<1>0. "u" \notin DOMAIN Escapes
  BY JsonAssumption
<1>1. \A e \in DOMAIN Escapes : ~Has(t, p + 1, e)
  BY <1>0, HasOnce, Zenon
<1>7. \A e \in DOMAIN Bytes \ {Quote, Backslash} : ~Has(t, p, e)
  BY HasOnce, Zenon
<1>3. ~ \E x : PlainAt(t, p, x) \/ EscapeAt(t, p, x)
  BY <1>1, <1>7, Zenon DEF PlainAt, EscapeAt
<1> QED
  BY <1>3, InCharacters, Zenon

LEMMA SingleUnit ==
  ASSUME NEW t, NEW p, Has(t, p, Backslash), Has(t, p + 1, "u"),
         NEW q \in DOMAIN Unit, Has(t, p + 2, q), Pairs(t, p) = {}
  PROVE  Characters(t, p) = {<<p + 3, append_utf8(Unit[q])>>}
<1>1. Units(t, p) = {Unit[q]}
  BY UnitsAre, Zenon
<1>2. \A x : UnitAt(t, p, x) <=> x = <<p + 3, Utf8[<<Unit[q]>>]>>
  BY <1>1, Zenon DEF UnitAt
<1>3. ~ \E x : PairAt(t, p, x)
  BY Zenon DEF PairAt
<1>4. Utf8[<<Unit[q]>>] = append_utf8(Unit[q])
  <2>1. IsUtf8(Utf8[<<Unit[q]>>], Unit[q])
    BY Utf8Assumption, Zenon
  <2>2. Unit[q] \in Nat
    BY JsonAssumption
  <2> QED BY <2>1, <2>2, Utf8Is, Zenon
<1> DEFINE y == <<p + 3, append_utf8(Unit[q])>>
<1> HIDE DEF y
<1>5. \A x : UnitAt(t, p, x) <=> x = y
  BY <1>2, <1>4, Zenon DEF y
<1>6. \A x : x \in Characters(t, p) <=> x = y
  BY <1>3, <1>5, UnitCharacters, Zenon
<1> QED
  BY <1>6 DEF y

LEMMA PairOfUnits ==
  ASSUME NEW t, NEW p, Has(t, p, Backslash), Has(t, p + 1, "u"),
         NEW q \in DOMAIN Unit, Has(t, p + 2, q), IsHigh(Unit[q]),
         NEW l \in DOMAIN Unit, Units(t, p + 3) = {Unit[l]}, IsLow(Unit[l])
  PROVE  Characters(t, p) = {<<p + 6, append_utf8(Combined(Unit[q], Unit[l]))>>}
<1>1. Units(t, p) = {Unit[q]}
  BY UnitsAre, Zenon
<1>2. \A x : x \in Pairs(t, p) <=> x = <<Unit[q], Unit[l]>>
  <2>1. ASSUME NEW x \in Pairs(t, p) PROVE x = <<Unit[q], Unit[l]>>
    <3>1. PICK high \in Units(t, p) : \E low \in Units(t, p + 3) :
                 IsHigh(high) /\ IsLow(low) /\ x = <<high, low>>
      BY InPairs
    <3>2. PICK low \in Units(t, p + 3) : x = <<high, low>>
      BY <3>1, Zenon
    <3>3. high = Unit[q] /\ low = Unit[l]
      BY <1>1
    <3> QED BY <3>2, <3>3
  <2>2. <<Unit[q], Unit[l]>> \in Pairs(t, p)
    <3>1. Unit[q] \in Units(t, p) /\ Unit[l] \in Units(t, p + 3)
      BY <1>1
    <3> QED BY <3>1, InPairs, Zenon
  <2> QED BY <2>1, <2>2, Zenon
<1>3. ~ \E x : UnitAt(t, p, x)
  <2>1. Pairs(t, p) # {}
    BY <1>2, Zenon
  <2> QED BY <2>1, Zenon DEF UnitAt
<1>4. \A x : PairAt(t, p, x) <=> x = <<p + 6, Utf8[<<Unit[q], Unit[l]>>]>>
  BY <1>2, Zenon DEF PairAt
<1>5. Utf8[<<Unit[q], Unit[l]>>] = append_utf8(Combined(Unit[q], Unit[l]))
  <2>1. IsUtf8(Utf8[<<Unit[q], Unit[l]>>], Combined(Unit[q], Unit[l]))
    BY Utf8Assumption, Zenon
  <2>2. Unit[q] \in Nat /\ Unit[l] \in Nat
    BY JsonAssumption
  <2>3. Combined(Unit[q], Unit[l]) \in Nat
    BY <2>2, HalvesAre DEF Combined
  <2> QED BY <2>1, <2>3, Utf8Is, Zenon
<1> DEFINE y == <<p + 6, append_utf8(Combined(Unit[q], Unit[l]))>>
<1> HIDE DEF y
<1>6. \A x : PairAt(t, p, x) <=> x = y
  BY <1>4, <1>5, Zenon DEF y
<1>7. \A x : x \in Characters(t, p) <=> x = y
  BY <1>3, <1>6, UnitCharacters, Zenon
<1> QED
  BY <1>7 DEF y

\* No character begins at p.
LEMMA NoCharacters ==
  ASSUME NEW t, NEW p,
         \A c \in DOMAIN Bytes : Has(t, p, c) => c = Quote \/ c = Backslash,
         Has(t, p, Backslash) =>
           /\ \A c \in DOMAIN Escapes : ~Has(t, p + 1, c)
           /\ Has(t, p + 1, "u") => \A q \in DOMAIN Unit : ~Has(t, p + 2, q)
  PROVE  Characters(t, p) = {}
<1>1. Units(t, p) = {} /\ Pairs(t, p) = {}
  BY NoUnits, Zenon
<1>2. ~ \E x : PlainAt(t, p, x) \/ EscapeAt(t, p, x) \/ UnitAt(t, p, x) \/ PairAt(t, p, x)
  BY <1>1, Zenon DEF PlainAt, EscapeAt, UnitAt, PairAt
<1>3. \A x : x \notin Characters(t, p)
  BY <1>2, InCharacters, Zenon
<1> QED
  BY <1>3, Zenon

LEMMA QuoteIsNoCharacter ==
  ASSUME NEW t, NEW p, Has(t, p, Quote)
  PROVE  Characters(t, p) = {}
<1>1. ~Has(t, p, Backslash)
  BY HasOnce, Distinct, Zenon
<1> QED
  BY <1>1, HasOnce, NoCharacters, Zenon

----------------------------------------------------------------------------
(* What is left of the text, and what the whole of it then means *)

CharsAt(t, p) == Chars(t, Table(t), p)

\* The string s goes on at p.
Spell(t, S, p, s, v0) ==
  \E r \in CharsAt(t, p) : Outer(t, S, Len(S), r[1], [str |-> Both(s, r)], v0)

\* The key of the innermost object has been read up to p.
KeyRead(t, S, p, key, v0) ==
  \E k \in Marks(t, p, Colon) : \E j \in Gaps(t, k + 1) :
    \E v \in Values(t, Table(t), j, Len(S)) : \E r \in MoreMembers(t, Table(t), v[1], Len(S)) :
      Outer(t, S, Len(S) - 1, r[1],
            [obj |-> Overlay(WithMember(S[Len(S)].obj, key, v[2]), r[2])], v0)

\* The key s goes on at p.
SpellKey(t, S, p, s, v0) ==
  \E r \in CharsAt(t, p) : KeyRead(t, S, r[1], Both(s, r), v0)

\* A value begins at p.
Valued(t, S, p, v0) ==
  \E x \in Values(t, Table(t), p, Len(S)) : Outer(t, S, Len(S), x[1], x[2], v0)

\* The members of the innermost object go on at p.
Keyed(t, S, p, v0) ==
  \E r \in Members(t, Table(t), p, Len(S)) :
    Outer(t, S, Len(S) - 1, r[1], [obj |-> Overlay(S[Len(S)].obj, r[2])], v0)

----------------------------------------------------------------------------
(* Strings *)

LEMMA CharsAreTyped ==
  ASSUME NEW t \in Seq(STRING), NEW p \in 1..(Len(t) + 1)
  PROVE  /\ Table(t)[p].chars = CharsAt(t, p)
         /\ \A r \in CharsAt(t, p) : r[1] \in (p + 1)..(Len(t) + 1) /\ IsList(r[2])
<1>1. Typed(t, Table(t)) /\ Table(t)[p].chars = Chars(t, Table(t), p)
  BY TableIs
<1>2. \A r \in Chars(t, Table(t), p) : IsPhrase(t, p, r)
  BY <1>1, PhrasesTyped, Zenon
<1> QED
  BY <1>1, <1>2, Zenon DEF CharsAt, IsPhrase

LEMMA CharsEnd ==
  ASSUME NEW t \in Seq(STRING), NEW p \in 1..(Len(t) + 1), Has(t, p, Quote), NEW x
  PROVE  x \in CharsAt(t, p) <=> x = <<p + 1, <<>>>>
<1>1. \A c : c \notin Characters(t, p)
  BY QuoteIsNoCharacter, Zenon
<1> QED
  BY <1>1, InChars DEF CharsAt

LEMMA CharsDead ==
  ASSUME NEW t, NEW p, ~Has(t, p, Quote), Characters(t, p) = {}, NEW x
  PROVE  x \notin CharsAt(t, p)
<1>1. \A c : c \notin Characters(t, p)
  BY Zenon
<1> QED
  BY <1>1, InChars, Zenon DEF CharsAt

LEMMA CharsMore ==
  ASSUME NEW t \in Seq(STRING), NEW p \in 1..(Len(t) + 1), ~Has(t, p, Quote),
         NEW c, Characters(t, p) = {c}, NEW x
  PROVE  x \in CharsAt(t, p) <=> \E r \in CharsAt(t, c[1]) : x = ListThen(c, r)
<1>1. c[1] \in (p + 1)..(Len(t) + 1)
  BY CharacterBounds
<1>2. c[1] \in 1..(Len(t) + 1)
  BY <1>1
<1>3. Table(t)[c[1]].chars = CharsAt(t, c[1])
  BY <1>2, CharsAreTyped
<1>4. x \in CharsAt(t, p) <=>
        \E e \in Characters(t, p) : \E r \in Table(t)[e[1]].chars : x = ListThen(e, r)
  BY InChars DEF CharsAt
<1>5. \A e : e \in Characters(t, p) <=> e = c
  BY Zenon
<1> QED
  BY <1>3, <1>4, <1>5, Zenon

LEMMA BothThen ==
  ASSUME NEW s, IsList(s), NEW c, IsList(c[2]), NEW r, IsList(r[2])
  PROVE  /\ ListThen(c, r)[1] = r[1]
         /\ Both(s, ListThen(c, r)) = Both(s \o c[2], r)
<1>1. (s \o c[2]) \o r[2] = s \o (c[2] \o r[2])
  <2> DEFINE b == c[2]
             d == r[2]
  <2> HIDE DEF b, d
  <2>1. IsList(b) /\ IsList(d)
    BY DEF b, d
  <2>2. (s \o b) \o d = s \o (b \o d)
    BY <2>1, Regrouped
  <2> QED BY <2>2 DEF b, d
<1>2. ListThen(c, r)[1] = r[1] /\ ListThen(c, r)[2] = c[2] \o r[2]
  BY ThenIs
<1> QED
  BY <1>1, <1>2, Zenon DEF Both

LEMMA Nothing ==
  ASSUME NEW s, IsList(s), NEW i
  PROVE  Both(s, <<i, <<>>>>) = s /\ <<i, <<>>>>[1] = i
<1>1. s \o <<>> = s
  BY Concatenated, Single
<1>2. <<i, <<>>>>[2] = <<>> /\ <<i, <<>>>>[1] = i
  OBVIOUS
<1> QED
  BY <1>1, <1>2, Zenon DEF Both

LEMMA SpellEnds ==
  ASSUME NEW t \in Seq(STRING), NEW p \in 1..(Len(t) + 1), Has(t, p, Quote),
         NEW s, IsList(s), NEW S, NEW v0
  PROVE  /\ Spell(t, S, p, s, v0) <=> Outer(t, S, Len(S), p + 1, [str |-> s], v0)
         /\ SpellKey(t, S, p, s, v0) <=> KeyRead(t, S, p + 1, s, v0)
<1> DEFINE x == <<p + 1, <<>>>>
<1>1. x[1] = p + 1 /\ Both(s, x) = s
  BY Nothing, Zenon
<1> HIDE DEF x
<1>2. \A r : r \in CharsAt(t, p) <=> r = x
  BY CharsEnd, Zenon DEF x
<1>3. Spell(t, S, p, s, v0) <=> Outer(t, S, Len(S), p + 1, [str |-> s], v0)
  BY <1>1, <1>2, Zenon DEF Spell
<1>4. SpellKey(t, S, p, s, v0) <=> KeyRead(t, S, p + 1, s, v0)
  BY <1>1, <1>2, Zenon DEF SpellKey
<1> QED
  BY <1>3, <1>4

LEMMA SpellDies ==
  ASSUME NEW t, NEW p, ~Has(t, p, Quote), Characters(t, p) = {}, NEW s, NEW S, NEW v0
  PROVE  ~Spell(t, S, p, s, v0) /\ ~SpellKey(t, S, p, s, v0)
BY CharsDead, Zenon DEF Spell, SpellKey

LEMMA SpellGoesOn ==
  ASSUME NEW t \in Seq(STRING), NEW p \in 1..(Len(t) + 1), ~Has(t, p, Quote),
         NEW i, NEW b, Characters(t, p) = {<<i, b>>},
         NEW s, IsList(s), NEW S, NEW v0
  PROVE  /\ IsList(s \o b)
         /\ Spell(t, S, p, s, v0) <=> Spell(t, S, i, s \o b, v0)
         /\ SpellKey(t, S, p, s, v0) <=> SpellKey(t, S, i, s \o b, v0)
<1> DEFINE c == <<i, b>>
<1>0. c[1] = i /\ c[2] = b
  OBVIOUS
<1>1. Characters(t, p) = {c} /\ c \in Characters(t, p)
  OBVIOUS
<1> HIDE DEF c
<1>2. c[1] \in (p + 1)..(Len(t) + 1) /\ IsList(c[2])
  BY <1>1, CharacterBounds
<1>3. i \in 1..(Len(t) + 1) /\ IsList(b)
  BY <1>0, <1>2
<1>4. \A r \in CharsAt(t, i) : IsList(r[2])
  BY <1>3, CharsAreTyped
<1>5. \A x : x \in CharsAt(t, p) <=> \E r \in CharsAt(t, i) : x = ListThen(c, r)
  BY <1>0, <1>1, CharsMore
<1>6. \A r \in CharsAt(t, i) : ListThen(c, r)[1] = r[1] /\ Both(s, ListThen(c, r)) = Both(s \o b, r)
  BY <1>0, <1>2, <1>4, BothThen
<1>7. Spell(t, S, p, s, v0) <=> Spell(t, S, i, s \o b, v0)
  <2> DEFINE G(q, e) == Outer(t, S, Len(S), q, [str |-> e], v0)
  <2>1. Spell(t, S, p, s, v0) <=> \E x \in CharsAt(t, p) : G(x[1], Both(s, x))
    BY Zenon DEF Spell
  <2>2. Spell(t, S, i, s \o b, v0) <=> \E r \in CharsAt(t, i) : G(r[1], Both(s \o b, r))
    BY Zenon DEF Spell
  <2> HIDE DEF G
  <2> QED BY <2>1, <2>2, <1>5, <1>6, Zenon
<1>8. SpellKey(t, S, p, s, v0) <=> SpellKey(t, S, i, s \o b, v0)
  <2> DEFINE G(q, e) == KeyRead(t, S, q, e, v0)
  <2>1. SpellKey(t, S, p, s, v0) <=> \E x \in CharsAt(t, p) : G(x[1], Both(s, x))
    BY Zenon DEF SpellKey
  <2>2. SpellKey(t, S, i, s \o b, v0) <=> \E r \in CharsAt(t, i) : G(r[1], Both(s \o b, r))
    BY Zenon DEF SpellKey
  <2> HIDE DEF G
  <2> QED BY <2>1, <2>2, <1>5, <1>6, Zenon
<1>9. IsList(s \o b)
  BY <1>3, Concatenated, Zenon
<1> QED
  BY <1>7, <1>8, <1>9, Zenon

----------------------------------------------------------------------------
(* Values, by what they begin with *)

LEMMA GapBeforeValue ==
  ASSUME NEW t \in Seq(STRING), NEW q \in 1..(Len(t) + 1), NEW i, Skips(t, q, i),
         NEW T, NEW d, NEW k \in Gaps(t, q)
  PROVE  /\ \A x \in Values(t, T, k, d) : k = i
         /\ \A x \in Elements(t, T, k, d) : k = i
         /\ \A x \in Members(t, T, k, d) : k = i
<1>1. k \in 1..(Len(t) + 1)
  BY GapBounds
<1>2. ASSUME k \in 1..Len(t), t[k] \notin Whitespace PROVE k = i
  <2>1. Skips(t, q, k)
    BY <1>2, Zenon DEF Skips
  <2> QED BY <2>1, SkipsOnce
<1>3. \A x \in Values(t, T, k, d) : k = i
  BY <1>1, <1>2, ValueBegins
<1>4. \A x \in Elements(t, T, k, d) : k = i
  BY <1>1, <1>2, ElementsBegin
<1>5. \A x \in Members(t, T, k, d) : k = i
  BY <1>1, <1>2, MembersBegin
<1> QED
  BY <1>3, <1>4, <1>5, Zenon

LEMMA SkipIsGap ==
  ASSUME NEW t \in Seq(STRING), NEW q \in 1..(Len(t) + 1), NEW i, Skips(t, q, i)
  PROVE  i \in Gaps(t, q) /\ i \in q..(Len(t) + 1) /\ i \in 1..(Len(t) + 1)
<1>1. i \in Gaps(t, q)
  BY Zenon DEF Skips
<1> QED
  BY <1>1, GapBounds

\* A value that begins with c, when c is no bracket, digit or sign.
LEMMA StringValues ==
  ASSUME NEW t \in Seq(STRING), NEW p \in 1..(Len(t) + 1), Has(t, p, Quote),
         NEW d \in Nat, d <= kMaxDepth, NEW x
  PROVE  x \in Values(t, Table(t), p, d) <=>
           \E s \in CharsAt(t, p + 1) : x = <<s[1], [str |-> s[2]]>>
<1>1. p \in 1..Len(t) /\ t[p] = Quote /\ p + 1 \in 1..(Len(t) + 1)
  BY DEF Has
<1>2. StringAt(t, Table(t), p) = CharsAt(t, p + 1)
  <2>1. StringAt(t, Table(t), p) = Table(t)[p + 1].chars
    BY Zenon DEF StringAt, Quote
  <2> QED BY <1>1, <2>1, CharsAreTyped
<1>3. x \notin Literals(t, p)
  <2>1. Quote \notin {"true", "false", "null"}
    BY Distinct
  <2>2. t[p] \notin {"true", "false", "null"}
    BY <1>1, <2>1, Zenon
  <2> QED BY <2>2 DEF Literals
<1>4. x \notin Numbers(t, p)
  <2>1. Quote \notin Plus \cup Digit
    BY Roles, SyntaxIs, Zenon
  <2> QED BY <1>1, <2>1, NumberBegins, Zenon
<1>5. t[p] # OpenBracket /\ t[p] # OpenBrace
  BY <1>1, Distinct, Zenon
<1>6. ~(d > kMaxDepth) /\ ~(p > Len(t))
  BY <1>1, JsonAssumption
<1>7. x \in Values(t, Table(t), p, d) <=>
        \E s \in StringAt(t, Table(t), p) : x = <<s[1], [str |-> s[2]]>>
  BY <1>3, <1>4, <1>5, <1>6, InValues, Zenon
<1> QED
  BY <1>2, <1>7

LEMMA LiteralValues ==
  ASSUME NEW t \in Seq(STRING), NEW p \in 1..Len(t), t[p] \in {"true", "false", "null"},
         NEW d \in Nat, d <= kMaxDepth, NEW x
  PROVE  x \in Values(t, Table(t), p, d) <=>
           x = <<p + 1, IF t[p] = "null" THEN Null ELSE [bool |-> t[p] = "true"]>>
<1>1. t[p] \in Syntax
  BY SyntaxIs, Zenon
<1>2. x \notin Numbers(t, p)
  BY <1>1, Roles, NumberBegins, Zenon
<1>3. t[p] # OpenBracket /\ t[p] # OpenBrace /\ t[p] # Quote
  BY Distinct, Zenon
<1>4. StringAt(t, Table(t), p) = {}
  <2>1. ~Has(t, p, Quote)
    BY <1>3, Zenon DEF Has
  <2> QED BY <2>1, Zenon DEF StringAt, Quote
<1>5. x \in Values(t, Table(t), p, d) <=> x \in Literals(t, p)
  <2>1. ~(d > kMaxDepth) /\ ~(p > Len(t))
    BY JsonAssumption
  <2> QED BY <2>1, <1>2, <1>3, <1>4, InValues, Zenon
<1>6. x \in Literals(t, p) <=>
        x = <<p + 1, IF t[p] = "null" THEN Null ELSE [bool |-> t[p] = "true"]>>
  BY DEF Literals
<1> QED
  BY <1>5, <1>6, Zenon

LEMMA NumberValues ==
  ASSUME NEW t \in Seq(STRING), NEW p \in 1..Len(t),
         t[p] \notin {OpenBracket, OpenBrace, Quote}, t[p] \notin {"true", "false", "null"},
         NEW d \in Nat, d <= kMaxDepth, NEW x
  PROVE  x \in Values(t, Table(t), p, d) <=> x \in Numbers(t, p)
<1>1. x \notin Literals(t, p)
  BY DEF Literals
<1>2. t[p] # OpenBracket /\ t[p] # OpenBrace /\ t[p] # Quote
  BY Zenon
<1>3. StringAt(t, Table(t), p) = {}
  <2>1. ~Has(t, p, Quote)
    BY <1>2, Zenon DEF Has
  <2> QED BY <2>1, Zenon DEF StringAt, Quote
<1>4. ~(d > kMaxDepth) /\ ~(p > Len(t))
  BY JsonAssumption
<1> QED
  BY <1>1, <1>2, <1>3, <1>4, InValues, Zenon

LEMMA BracketValues ==
  ASSUME NEW t \in Seq(STRING), NEW p \in 1..Len(t),
         NEW d \in Nat, d <= kMaxDepth, NEW x
  PROVE  /\ t[p] = OpenBracket =>
              (x \in Values(t, Table(t), p, d) <=> x \in Arrays(t, Table(t), p, d))
         /\ t[p] = OpenBrace =>
              (x \in Values(t, Table(t), p, d) <=> x \in Objects(t, Table(t), p, d))
<1>1. ASSUME t[p] = OpenBracket \/ t[p] = OpenBrace
      PROVE  x \notin Literals(t, p) /\ x \notin Numbers(t, p) /\ StringAt(t, Table(t), p) = {}
  <2>1. t[p] \in Syntax
    BY <1>1, SyntaxIs, Zenon
  <2>2. x \notin Numbers(t, p)
    BY <2>1, Roles, NumberBegins, Zenon
  <2>3. t[p] \notin {"true", "false", "null"} /\ t[p] # Quote
    BY <1>1, Distinct, Zenon
  <2>4. x \notin Literals(t, p)
    BY <2>3 DEF Literals
  <2>5. StringAt(t, Table(t), p) = {}
    <3>1. ~Has(t, p, Quote)
      BY <2>3, Zenon DEF Has
    <3> QED BY <3>1, Zenon DEF StringAt, Quote
  <2> QED BY <2>2, <2>4, <2>5, Zenon
<1>2. ~(d > kMaxDepth) /\ ~(p > Len(t))
  BY JsonAssumption
<1>3. OpenBracket # OpenBrace
  BY Distinct, Zenon
<1> QED
  BY <1>1, <1>2, <1>3, InValues, Zenon

LEMMA NoValues ==
  ASSUME NEW t \in Seq(STRING), NEW p \in 1..(Len(t) + 1), NEW T, NEW d,
         d > kMaxDepth \/ p = Len(t) + 1 \/ t[p] = "end" \/ t[p] \in BadLiteral, NEW x
  PROVE  x \notin Values(t, T, p, d)
<1> SUFFICES ASSUME x \in Values(t, T, p, d) PROVE FALSE
  OBVIOUS
<1>1. p \in 1..Len(t) /\ t[p] # "end"
  BY ValueBegins
<1>2. ~(d > kMaxDepth) /\ p # Len(t) + 1
  BY <1>1, InValues
<1>3. t[p] \in BadLiteral
  BY <1>1, <1>2, Zenon
<1>4. t[p] \notin Syntax /\ t[p] \notin Plus /\ t[p] \notin Digit
  BY <1>3, Roles, Zenon
<1>5. x \notin Numbers(t, p)
  BY <1>1, <1>4, NumberBegins
<1>6. x \notin Literals(t, p)
  <2>1. t[p] \notin {"true", "false", "null"}
    BY <1>4, SyntaxIs, Zenon
  <2> QED BY <2>1 DEF Literals
<1>7. t[p] # OpenBracket /\ t[p] # OpenBrace /\ t[p] # Quote
  BY <1>4, SyntaxIs, Zenon
<1>8. StringAt(t, T, p) = {}
  <2>1. ~Has(t, p, Quote)
    BY <1>7, Zenon DEF Has
  <2> QED BY <2>1, Zenon DEF StringAt, Quote
<1> QED
  BY <1>5, <1>6, <1>7, <1>8, InValues, Zenon

----------------------------------------------------------------------------
(* The innermost container *)

LEMMA OuterIs ==
  ASSUME NEW t, NEW S, NEW n \in Nat \ {0}, NEW p, NEW v, NEW v0
  PROVE  Outer(t, S, n, p, v, v0) <=>
           \E q, w : Level(t, S[n], n, p, v, q, w) /\ Outer(t, S, n - 1, q, w, v0)
BY OuterOut, OuterIn, Zenon

LEMMA OuterArray ==
  ASSUME NEW t, NEW S, NEW n \in Nat \ {0}, "arr" \in DOMAIN S[n], NEW p, NEW v, NEW v0
  PROVE  Outer(t, S, n, p, v, v0) <=>
           \E r \in MoreElements(t, Table(t), p, n) :
             Outer(t, S, n - 1, r[1], [arr |-> Both(Append(S[n].arr, v), r)], v0)
<1>1. \A q, w : Level(t, S[n], n, p, v, q, w) <=>
        \E r \in MoreElements(t, Table(t), p, n) :
          q = r[1] /\ w = [arr |-> Both(Append(S[n].arr, v), r)]
  BY Zenon DEF Level
<1> DEFINE W(r) == [arr |-> Both(Append(S[n].arr, v), r)]
<1> HIDE DEF W
<1>2. \A q, w : Level(t, S[n], n, p, v, q, w) <=>
        \E r \in MoreElements(t, Table(t), p, n) : q = r[1] /\ w = W(r)
  BY <1>1, Zenon DEF W
<1>3. Outer(t, S, n, p, v, v0) <=>
        \E r \in MoreElements(t, Table(t), p, n) : Outer(t, S, n - 1, r[1], W(r), v0)
  <2> DEFINE G(q, w) == Outer(t, S, n - 1, q, w, v0)
             L(q, w) == Level(t, S[n], n, p, v, q, w)
  <2>1. Outer(t, S, n, p, v, v0) <=> \E q, w : L(q, w) /\ G(q, w)
    BY OuterIs, Zenon
  <2>2. \A q, w : L(q, w) <=> \E r \in MoreElements(t, Table(t), p, n) : q = r[1] /\ w = W(r)
    BY <1>2, Zenon
  <2> HIDE DEF G, L
  <2>3. (\E q, w : L(q, w) /\ G(q, w)) <=>
          \E r \in MoreElements(t, Table(t), p, n) : G(r[1], W(r))
    BY <2>2
  <2> QED BY <2>1, <2>3, Zenon DEF G
<1> QED
  BY <1>3, Zenon DEF W

LEMMA OuterObject ==
  ASSUME NEW t, NEW S, NEW n \in Nat \ {0}, "arr" \notin DOMAIN S[n], NEW p, NEW v, NEW v0
  PROVE  Outer(t, S, n, p, v, v0) <=>
           \E r \in MoreMembers(t, Table(t), p, n) :
             Outer(t, S, n - 1, r[1],
                   [obj |-> Overlay(WithMember(S[n].obj, S[n].key, v), r[2])], v0)
<1>1. \A q, w : Level(t, S[n], n, p, v, q, w) <=>
        \E r \in MoreMembers(t, Table(t), p, n) :
          q = r[1] /\ w = [obj |-> Overlay(WithMember(S[n].obj, S[n].key, v), r[2])]
  BY Zenon DEF Level
<1> DEFINE W(r) == [obj |-> Overlay(WithMember(S[n].obj, S[n].key, v), r[2])]
<1> HIDE DEF W
<1>2. \A q, w : Level(t, S[n], n, p, v, q, w) <=>
        \E r \in MoreMembers(t, Table(t), p, n) : q = r[1] /\ w = W(r)
  BY <1>1, Zenon DEF W
<1>3. Outer(t, S, n, p, v, v0) <=>
        \E r \in MoreMembers(t, Table(t), p, n) : Outer(t, S, n - 1, r[1], W(r), v0)
  <2> DEFINE G(q, w) == Outer(t, S, n - 1, q, w, v0)
             L(q, w) == Level(t, S[n], n, p, v, q, w)
  <2>1. Outer(t, S, n, p, v, v0) <=> \E q, w : L(q, w) /\ G(q, w)
    BY OuterIs, Zenon
  <2>2. \A q, w : L(q, w) <=> \E r \in MoreMembers(t, Table(t), p, n) : q = r[1] /\ w = W(r)
    BY <1>2, Zenon
  <2> HIDE DEF G, L
  <2>3. (\E q, w : L(q, w) /\ G(q, w)) <=>
          \E r \in MoreMembers(t, Table(t), p, n) : G(r[1], W(r))
    BY <2>2
  <2> QED BY <2>1, <2>3, Zenon DEF G
<1> QED
  BY <1>3, Zenon DEF W

LEMMA BothItem ==
  ASSUME NEW a, IsList(a), NEW x, NEW r, IsList(r[2])
  PROVE  /\ ItemThen(x, r)[1] = r[1]
         /\ Both(a, ItemThen(x, r)) = Both(Append(a, x[2]), r)
<1> DEFINE d == r[2]
           y == x[2]
<1>1. ItemThen(x, r)[1] = r[1] /\ ItemThen(x, r)[2] = <<y>> \o d
  BY ThenIs
<1>2. IsList(d) /\ IsList(<<y>>)
  BY Single
<1> HIDE DEF d, y
<1>3. (a \o <<y>>) \o d = a \o (<<y>> \o d)
  BY <1>2, Regrouped
<1>4. Append(a, y) = a \o <<y>>
  BY Appended
<1>5. Both(a, ItemThen(x, r)) = a \o (<<y>> \o d)
  BY <1>1, Zenon DEF Both
<1>6. Both(Append(a, y), r) = Append(a, y) \o d
  BY Zenon DEF Both, d
<1> QED
  BY <1>1, <1>3, <1>4, <1>5, <1>6, Zenon DEF y

LEMMA ValueDepth ==
  ASSUME NEW t, NEW T, NEW p, NEW d \in Nat, NEW v \in Values(t, T, p, d)
  PROVE  d <= kMaxDepth /\ d \in Depths
<1>1. d <= kMaxDepth
  BY InValues, JsonAssumption
<1> QED
  BY <1>1, JsonAssumption DEF Depths

LEMMA MoreTyped ==
  ASSUME NEW t \in Seq(STRING), NEW p \in 1..(Len(t) + 1), NEW n \in Nat,
         NEW v \in Values(t, Table(t), p, n)
  PROVE  /\ v[1] \in 1..(Len(t) + 1)
         /\ \A r \in MoreElements(t, Table(t), v[1], n) : IsList(r[2])
         /\ \A r \in MoreMembers(t, Table(t), v[1], n) : IsList(r[2])
<1>1. n \in Depths /\ Typed(t, Table(t))
  BY ValueDepth, TableIs
<1>2. v[1] \in 1..(Len(t) + 1)
  BY <1>1, ValueBounds
<1> QED
  BY <1>1, <1>2, MoreBounds DEF IsPhrase

LEMMA ArrayFrame ==
  ASSUME NEW t \in Seq(STRING), NEW p \in 1..(Len(t) + 1), NEW S, NEW n \in Nat \ {0},
         n = Len(S), "arr" \in DOMAIN S[n], NEW a, a = S[n].arr, IsList(a), NEW v0
  PROVE  Valued(t, S, p, v0) <=>
           \E e \in Elements(t, Table(t), p, n) :
             Outer(t, S, n - 1, e[1], [arr |-> Both(a, e)], v0)
<1> DEFINE G(q, w) == Outer(t, S, n - 1, q, [arr |-> w], v0)
           V == Values(t, Table(t), p, n)
           M(x) == MoreElements(t, Table(t), x[1], n)
<1>1. Valued(t, S, p, v0) <=> \E x \in V : Outer(t, S, n, x[1], x[2], v0)
  BY Zenon DEF Valued
<1>2. \A x : Outer(t, S, n, x[1], x[2], v0) <=>
             \E r \in M(x) : G(r[1], Both(Append(a, x[2]), r))
  BY OuterArray, Zenon
<1>3. \A e : e \in Elements(t, Table(t), p, n) <=> \E x \in V : \E r \in M(x) : e = ItemThen(x, r)
  BY InElements
<1>4. \A x \in V : \A r \in M(x) :
        ItemThen(x, r)[1] = r[1] /\ Both(a, ItemThen(x, r)) = Both(Append(a, x[2]), r)
  BY MoreTyped, BothItem
<1> HIDE DEF G, V, M
<1>5. Valued(t, S, p, v0) <=>
        \E e \in Elements(t, Table(t), p, n) : G(e[1], Both(a, e))
  BY <1>1, <1>2, <1>3, <1>4
<1> QED
  BY <1>5, Zenon DEF G

----------------------------------------------------------------------------
(* After an entry of a container *)

\* A mark is in one place only, and of one kind.
LEMMA OneMark ==
  ASSUME NEW t \in Seq(STRING), NEW p \in 1..(Len(t) + 1), NEW i, Skips(t, p, i),
         NEW c \in Closing
  PROVE  /\ \A k : k \in Marks(t, p, c) <=> k = i /\ Has(t, i, c)
         /\ Has(t, i, c) => i + 1 \in 1..(Len(t) + 1)
         /\ \A e \in Closing : Has(t, i, c) /\ Has(t, i, e) => e = c
<1>1. c \notin Whitespace
  BY Roles, SyntaxIs, Zenon DEF Closing
<1>2. Marks(t, p, c) = IF Has(t, i, c) THEN {i} ELSE {}
  BY <1>1, MarksAre
<1>3. \A e \in Closing : Has(t, i, c) /\ Has(t, i, e) => e = c
  BY HasOnce, Zenon
<1>4. Has(t, i, c) => i + 1 \in 1..(Len(t) + 1)
  BY SkipIsGap DEF Has
<1> QED
  BY <1>2, <1>3, <1>4

LEMMA ClosingIs ==
  /\ CloseBracket \in Closing /\ CloseBrace \in Closing /\ Comma \in Closing /\ Colon \in Closing
  /\ CloseBracket # Comma /\ CloseBrace # Comma
BY Distinct, Zenon DEF Closing

LEMMA EntriesAfterGap ==
  ASSUME NEW t \in Seq(STRING), NEW q \in 1..(Len(t) + 1), NEW j, Skips(t, q, j), NEW n \in Depths
  PROVE  /\ \A x : (\E k \in Gaps(t, q) : x \in Table(t)[k].elements[n]) <=>
                     x \in Elements(t, Table(t), j, n)
         /\ \A x : (\E k \in Gaps(t, q) : x \in Table(t)[k].members[n]) <=>
                     x \in Members(t, Table(t), j, n)
<1>1. \A k \in Gaps(t, q) : k \in 1..(Len(t) + 1)
  BY GapBounds
<1>2. \A k \in Gaps(t, q) :
        /\ Table(t)[k].elements[n] = Elements(t, Table(t), k, n)
        /\ Table(t)[k].members[n] = Members(t, Table(t), k, n)
  BY <1>1, TableIs
<1>3. \A k \in Gaps(t, q) :
        /\ \A x \in Elements(t, Table(t), k, n) : k = j
        /\ \A x \in Members(t, Table(t), k, n) : k = j
  BY GapBeforeValue
<1>4. j \in Gaps(t, q)
  BY SkipIsGap
<1>5. \A x : (\E k \in Gaps(t, q) : x \in Table(t)[k].elements[n]) <=>
               x \in Elements(t, Table(t), j, n)
  BY <1>2, <1>3, <1>4
<1>6. \A x : (\E k \in Gaps(t, q) : x \in Table(t)[k].members[n]) <=>
               x \in Members(t, Table(t), j, n)
  BY <1>2, <1>3, <1>4
<1> QED
  BY <1>5, <1>6, Zenon

LEMMA MoreIs ==
  ASSUME NEW t \in Seq(STRING), NEW p \in 1..(Len(t) + 1), NEW i, Skips(t, p, i),
         NEW n \in Depths, NEW r
  PROVE  /\ \A j : Has(t, i, Comma) /\ Skips(t, i + 1, j) =>
                   /\ r \in MoreElements(t, Table(t), p, n) <=> r \in Elements(t, Table(t), j, n)
                   /\ r \in MoreMembers(t, Table(t), p, n) <=> r \in Members(t, Table(t), j, n)
         /\ Has(t, i, CloseBracket) =>
              (r \in MoreElements(t, Table(t), p, n) <=> r = <<i + 1, <<>>>>)
         /\ Has(t, i, CloseBrace) =>
              (r \in MoreMembers(t, Table(t), p, n) <=> r = <<i + 1, <<>>>>)
         /\ ~Has(t, i, Comma) /\ ~Has(t, i, CloseBracket) => r \notin MoreElements(t, Table(t), p, n)
         /\ ~Has(t, i, Comma) /\ ~Has(t, i, CloseBrace) => r \notin MoreMembers(t, Table(t), p, n)
<1>1. /\ \A k : k \in Marks(t, p, Comma) <=> k = i /\ Has(t, i, Comma)
      /\ \A k : k \in Marks(t, p, CloseBracket) <=> k = i /\ Has(t, i, CloseBracket)
      /\ \A k : k \in Marks(t, p, CloseBrace) <=> k = i /\ Has(t, i, CloseBrace)
  BY OneMark, ClosingIs
<1>2. ~(Has(t, i, Comma) /\ Has(t, i, CloseBracket)) /\ ~(Has(t, i, Comma) /\ Has(t, i, CloseBrace))
  BY HasOnce, ClosingIs, Zenon
<1> DEFINE E(x) == \E j \in Gaps(t, i + 1) : x \in Table(t)[j].elements[n]
           M(x) == \E j \in Gaps(t, i + 1) : x \in Table(t)[j].members[n]
<1>3. r \in MoreElements(t, Table(t), p, n) <=>
        (Has(t, i, CloseBracket) /\ r = <<i + 1, <<>>>>) \/ (Has(t, i, Comma) /\ E(r))
  <2> DEFINE A == \E k \in Marks(t, p, CloseBracket) : r = <<k + 1, <<>>>>
             B == \E k \in Marks(t, p, Comma) : \E j \in Gaps(t, k + 1) : r \in Table(t)[j].elements[n]
  <2>1. A <=> Has(t, i, CloseBracket) /\ r = <<i + 1, <<>>>>
    BY <1>1, Zenon
  <2>2. B <=> Has(t, i, Comma) /\ E(r)
    BY <1>1, Zenon
  <2>3. r \in MoreElements(t, Table(t), p, n) <=> A \/ B
    BY InMoreElements, Zenon
  <2> HIDE DEF A, B, E
  <2> QED BY <2>1, <2>2, <2>3, Zenon
<1>4. r \in MoreMembers(t, Table(t), p, n) <=>
        (Has(t, i, CloseBrace) /\ r = <<i + 1, <<>>>>) \/ (Has(t, i, Comma) /\ M(r))
  <2> DEFINE A == \E k \in Marks(t, p, CloseBrace) : r = <<k + 1, <<>>>>
             B == \E k \in Marks(t, p, Comma) : \E j \in Gaps(t, k + 1) : r \in Table(t)[j].members[n]
  <2>1. A <=> Has(t, i, CloseBrace) /\ r = <<i + 1, <<>>>>
    BY <1>1, Zenon
  <2>2. B <=> Has(t, i, Comma) /\ M(r)
    BY <1>1, Zenon
  <2>3. r \in MoreMembers(t, Table(t), p, n) <=> A \/ B
    BY InMoreMembers, Zenon
  <2> HIDE DEF A, B, M
  <2> QED BY <2>1, <2>2, <2>3, Zenon
<1>5. ASSUME Has(t, i, Comma), NEW j, Skips(t, i + 1, j)
      PROVE  /\ E(r) <=> r \in Elements(t, Table(t), j, n)
             /\ M(r) <=> r \in Members(t, Table(t), j, n)
  <2>1. i + 1 \in 1..(Len(t) + 1)
    BY <1>5, OneMark, ClosingIs
  <2> QED BY <2>1, <1>5, EntriesAfterGap
<1> HIDE DEF E, M
<1> QED
  <2> DEFINE A == r \in MoreElements(t, Table(t), p, n)
             B == r \in MoreMembers(t, Table(t), p, n)
             X == r = <<i + 1, <<>>>>
  <2>1. A <=> (Has(t, i, CloseBracket) /\ X) \/ (Has(t, i, Comma) /\ E(r))
    BY <1>3, Zenon
  <2>2. B <=> (Has(t, i, CloseBrace) /\ X) \/ (Has(t, i, Comma) /\ M(r))
    BY <1>4, Zenon
  <2>3. \A j : Has(t, i, Comma) /\ Skips(t, i + 1, j) =>
          /\ E(r) <=> r \in Elements(t, Table(t), j, n)
          /\ M(r) <=> r \in Members(t, Table(t), j, n)
    BY <1>5, Zenon
  <2> HIDE DEF A, B, X
  <2> QED BY <1>2, <2>1, <2>2, <2>3, Zenon DEF A, B, X

\* R is S but for the innermost container.
SameBelow(S, R, n) == Len(S) = n /\ Len(R) = n /\ \A k \in 1..(n - 1) : S[k] = R[k]

LEMMA OuterBelow ==
  ASSUME NEW t, NEW S, NEW R, NEW n \in Nat \ {0}, SameBelow(S, R, n), NEW p, NEW v, NEW v0
  PROVE  Outer(t, S, n - 1, p, v, v0) <=> Outer(t, R, n - 1, p, v, v0)
<1>1. n - 1 \in Nat
  OBVIOUS
<1> QED
  BY <1>1, OuterSame, Zenon DEF SameBelow

----------------------------------------------------------------------------
(* What a step at a container does to what the text means *)

LEMMA ArrayGoesOn ==
  ASSUME NEW t \in Seq(STRING), NEW p \in 1..(Len(t) + 1), NEW i, Skips(t, p, i),
         Has(t, i, Comma), NEW j, Skips(t, i + 1, j),
         NEW S, NEW R, NEW n \in Nat \ {0}, n \in Depths, SameBelow(S, R, n),
         "arr" \in DOMAIN S[n], "arr" \in DOMAIN R[n], NEW v,
         R[n].arr = Append(S[n].arr, v), IsList(R[n].arr), NEW v0
  PROVE  Outer(t, S, n, p, v, v0) <=> Valued(t, R, j, v0)
<1> DEFINE G(q, w) == Outer(t, R, n - 1, q, [arr |-> w], v0)
           a == R[n].arr
<1>1. \A q, w : Outer(t, S, n - 1, q, [arr |-> w], v0) <=> G(q, w)
  BY OuterBelow, Zenon
<1>2. Outer(t, S, n, p, v, v0) <=>
        \E r \in MoreElements(t, Table(t), p, n) :
          Outer(t, S, n - 1, r[1], [arr |-> Both(a, r)], v0)
  BY OuterArray, Zenon
<1>3. \A r : r \in MoreElements(t, Table(t), p, n) <=> r \in Elements(t, Table(t), j, n)
  BY MoreIs, Zenon
<1>4. j \in 1..(Len(t) + 1)
  <2>1. i + 1 \in 1..(Len(t) + 1)
    BY OneMark, ClosingIs
  <2> QED BY <2>1, SkipIsGap
<1>5. n = Len(R) /\ IsList(a)
  BY Zenon DEF SameBelow
<1>6. Valued(t, R, j, v0) <=> \E e \in Elements(t, Table(t), j, n) : G(e[1], Both(a, e))
  BY <1>4, <1>5, ArrayFrame
<1> HIDE DEF G, a
<1> QED
  BY <1>1, <1>2, <1>3, <1>6, Zenon

LEMMA ObjectGoesOn ==
  ASSUME NEW t \in Seq(STRING), NEW p \in 1..(Len(t) + 1), NEW i, Skips(t, p, i),
         Has(t, i, Comma), NEW j, Skips(t, i + 1, j),
         NEW S, NEW R, NEW n \in Nat \ {0}, n \in Depths, SameBelow(S, R, n),
         "arr" \notin DOMAIN S[n], NEW v,
         R[n].obj = WithMember(S[n].obj, S[n].key, v), NEW v0
  PROVE  Outer(t, S, n, p, v, v0) <=> Keyed(t, R, j, v0)
<1> DEFINE G(q, w) == Outer(t, R, n - 1, q, [obj |-> w], v0)
           o == R[n].obj
<1>1. \A q, w : Outer(t, S, n - 1, q, [obj |-> w], v0) <=> G(q, w)
  BY OuterBelow, Zenon
<1>2. Outer(t, S, n, p, v, v0) <=>
        \E r \in MoreMembers(t, Table(t), p, n) :
          Outer(t, S, n - 1, r[1], [obj |-> Overlay(o, r[2])], v0)
  BY OuterObject, Zenon
<1>3. \A r : r \in MoreMembers(t, Table(t), p, n) <=> r \in Members(t, Table(t), j, n)
  BY MoreIs, Zenon
<1>5. n = Len(R)
  BY Zenon DEF SameBelow
<1>6. Keyed(t, R, j, v0) <=> \E e \in Members(t, Table(t), j, n) : G(e[1], Overlay(o, e[2]))
  BY <1>5, Zenon DEF Keyed
<1> HIDE DEF G, o
<1> QED
  BY <1>1, <1>2, <1>3, <1>6, Zenon

LEMMA ArrayEnds ==
  ASSUME NEW t \in Seq(STRING), NEW p \in 1..(Len(t) + 1), NEW i, Skips(t, p, i),
         Has(t, i, CloseBracket), NEW S, NEW R, NEW n \in Nat \ {0}, n \in Depths,
         \A k \in 1..(n - 1) : S[k] = R[k], "arr" \in DOMAIN S[n],
         NEW v, IsList(Append(S[n].arr, v)), NEW v0
  PROVE  Outer(t, S, n, p, v, v0) <=>
           Outer(t, R, n - 1, i + 1, [arr |-> Append(S[n].arr, v)], v0)
<1> DEFINE x == <<i + 1, <<>>>>
           a == Append(S[n].arr, v)
<1>1. x[1] = i + 1 /\ Both(a, x) = a
  BY Nothing
<1> HIDE DEF x
<1>2. Outer(t, S, n, p, v, v0) <=>
        \E r \in MoreElements(t, Table(t), p, n) :
          Outer(t, S, n - 1, r[1], [arr |-> Both(a, r)], v0)
  BY OuterArray, Zenon
<1>3. \A r : r \in MoreElements(t, Table(t), p, n) <=> r = x
  BY MoreIs, Zenon DEF x
<1>4. n - 1 \in Nat
  OBVIOUS
<1>5. Outer(t, S, n - 1, i + 1, [arr |-> a], v0) <=> Outer(t, R, n - 1, i + 1, [arr |-> a], v0)
  BY <1>4, OuterSame, Zenon
<1> HIDE DEF a
<1>6. Outer(t, S, n, p, v, v0) <=> Outer(t, S, n - 1, i + 1, [arr |-> a], v0)
  BY <1>1, <1>2, <1>3, Zenon
<1> QED
  BY <1>5, <1>6, Zenon DEF a

LEMMA ObjectEnds ==
  ASSUME NEW t \in Seq(STRING), NEW p \in 1..(Len(t) + 1), NEW i, Skips(t, p, i),
         Has(t, i, CloseBrace), NEW S, NEW R, NEW n \in Nat \ {0}, n \in Depths,
         \A k \in 1..(n - 1) : S[k] = R[k], "arr" \notin DOMAIN S[n],
         NEW v, NEW v0
  PROVE  Outer(t, S, n, p, v, v0) <=>
           Outer(t, R, n - 1, i + 1, [obj |-> WithMember(S[n].obj, S[n].key, v)], v0)
<1> DEFINE x == <<i + 1, <<>>>>
           o == WithMember(S[n].obj, S[n].key, v)
<1>1. x[1] = i + 1 /\ Overlay(o, x[2]) = o
  BY OverlayNone, WithMemberIsFunction
<1> HIDE DEF x
<1>2. Outer(t, S, n, p, v, v0) <=>
        \E r \in MoreMembers(t, Table(t), p, n) :
          Outer(t, S, n - 1, r[1], [obj |-> Overlay(o, r[2])], v0)
  BY OuterObject, Zenon
<1>3. \A r : r \in MoreMembers(t, Table(t), p, n) <=> r = x
  BY MoreIs, Zenon DEF x
<1>4. n - 1 \in Nat
  OBVIOUS
<1>5. Outer(t, S, n - 1, i + 1, [obj |-> o], v0) <=> Outer(t, R, n - 1, i + 1, [obj |-> o], v0)
  BY <1>4, OuterSame, Zenon
<1> HIDE DEF o
<1>6. Outer(t, S, n, p, v, v0) <=> Outer(t, S, n - 1, i + 1, [obj |-> o], v0)
  BY <1>1, <1>2, <1>3, Zenon
<1> QED
  BY <1>5, <1>6, Zenon DEF o

LEMMA ContainerBreaks ==
  ASSUME NEW t \in Seq(STRING), NEW p \in 1..(Len(t) + 1), NEW i, Skips(t, p, i),
         ~Has(t, i, Comma), NEW S, NEW n \in Nat \ {0}, n \in Depths,
         ~Has(t, i, IF "arr" \in DOMAIN S[n] THEN CloseBracket ELSE CloseBrace),
         NEW v, NEW v0
  PROVE  ~Outer(t, S, n, p, v, v0)
<1>1. CASE "arr" \in DOMAIN S[n]
  <2>1. \A r : r \notin MoreElements(t, Table(t), p, n)
    BY <1>1, MoreIs, Zenon
  <2> QED BY <1>1, <2>1, OuterArray, Zenon
<1>2. CASE "arr" \notin DOMAIN S[n]
  <2>1. \A r : r \notin MoreMembers(t, Table(t), p, n)
    BY <1>2, MoreIs, Zenon
  <2> QED BY <1>2, <2>1, OuterObject, Zenon
<1> QED
  BY <1>1, <1>2

----------------------------------------------------------------------------
(* An opening bracket *)

LEMMA ArrayOpens ==
  ASSUME NEW t \in Seq(STRING), NEW p \in 1..Len(t), t[p] = OpenBracket,
         NEW i, Skips(t, p + 1, i), ~Has(t, i, CloseBracket),
         NEW S, Len(S) \in Nat, Len(S) <= kMaxDepth, NEW R, Len(R) = Len(S) + 1,
         \A k \in 1..Len(S) : R[k] = S[k], R[Len(S) + 1] = [arr |-> <<>>], NEW v0
  PROVE  Valued(t, S, p, v0) <=> Valued(t, R, i, v0)
<1> DEFINE n == Len(S)
           G(q, w) == Outer(t, S, n, q, [arr |-> w], v0)
           E == Elements(t, Table(t), i, n + 1)
<1>1. p + 1 \in 1..(Len(t) + 1) /\ i \in 1..(Len(t) + 1)
  <2>1. p + 1 \in 1..(Len(t) + 1)
    OBVIOUS
  <2> QED BY <2>1, SkipIsGap
<1>2. n + 1 \in Nat \ {0} /\ n + 1 \in Depths
  BY JsonAssumption DEF Depths
<1>3. \A k : k \notin Marks(t, p + 1, CloseBracket)
  BY <1>1, OneMark, ClosingIs
<1>4. \A e : (\E k \in Gaps(t, p + 1) : e \in Table(t)[k].elements[n + 1]) <=> e \in E
  BY <1>1, <1>2, EntriesAfterGap
<1>5. \A x : x \in Arrays(t, Table(t), p, n) <=> \E e \in E : x = <<e[1], [arr |-> e[2]]>>
  <2> DEFINE F(e) == <<e[1], [arr |-> e[2]]>>
             D(k) == Table(t)[k].elements[n + 1]
  <2>1. \A x : x \in Arrays(t, Table(t), p, n) <=>
          \/ \E k \in Marks(t, p + 1, CloseBracket) : x = <<k + 1, [arr |-> <<>>]>>
          \/ \E k \in Gaps(t, p + 1) : \E e \in D(k) : x = F(e)
    BY InArrays
  <2>2. \A e : (\E k \in Gaps(t, p + 1) : e \in D(k)) <=> e \in E
    BY <1>4, Zenon
  <2> HIDE DEF F, D, E
  <2>3. \A x : x \in Arrays(t, Table(t), p, n) <=> \E e \in E : x = F(e)
    BY <1>3, <2>1, <2>2, Zenon
  <2> QED BY <2>3, Zenon DEF F
<1>6. \A x : x \in Values(t, Table(t), p, n) <=> \E e \in E : x = <<e[1], [arr |-> e[2]]>>
  BY <1>5, BracketValues
<1>7. Valued(t, S, p, v0) <=> \E e \in E : G(e[1], e[2])
  <2> DEFINE H(q, w) == Outer(t, S, n, q, w, v0)
             V == Values(t, Table(t), p, n)
  <2>1. Valued(t, S, p, v0) <=> \E x \in V : H(x[1], x[2])
    BY Zenon DEF Valued
  <2>2. \A x : x \in V <=> \E e \in E : x = <<e[1], [arr |-> e[2]]>>
    BY <1>6, Zenon
  <2> HIDE DEF H, V, E
  <2>3. (\E x \in V : H(x[1], x[2])) <=> \E e \in E : H(e[1], [arr |-> e[2]])
    <3> DEFINE F(e) == <<e[1], [arr |-> e[2]]>>
               K(e) == H(e[1], [arr |-> e[2]])
    <3>1. \A e : H(F(e)[1], F(e)[2]) <=> K(e)
      OBVIOUS
    <3>2. \A x : x \in V <=> \E e \in E : x = F(e)
      BY <2>2, Zenon
    <3> HIDE DEF F, K
    <3>3. (\E x \in V : H(x[1], x[2])) <=> \E e \in E : K(e)
      BY <3>1, <3>2, Zenon
    <3> QED BY <3>3, Zenon DEF K
  <2> QED BY <2>1, <2>3, Zenon DEF H
<1>8. IsList(<<>>) /\ \A e : IsList(e[2]) => Both(<<>>, e) = e[2]
  <2>1. \A d : IsList(d) => <<>> \o d = d
    BY Single, Concatenated
  <2> QED BY <2>1, Single, Zenon DEF Both
<1>9. "arr" \in DOMAIN R[n + 1] /\ R[n + 1].arr = <<>>
  OBVIOUS
<1>10. Valued(t, R, i, v0) <=>
         \E e \in E : Outer(t, R, n + 1 - 1, e[1], [arr |-> Both(<<>>, e)], v0)
  <2> DEFINE m == n + 1
  <2>1. m \in Nat \ {0} /\ m = Len(R) /\ "arr" \in DOMAIN R[m] /\ <<>> = R[m].arr /\ IsList(<<>>)
    BY <1>2, <1>8, <1>9
  <2> HIDE DEF m
  <2>2. Valued(t, R, i, v0) <=>
          \E e \in Elements(t, Table(t), i, m) :
            Outer(t, R, m - 1, e[1], [arr |-> Both(<<>>, e)], v0)
    BY <1>1, <2>1, ArrayFrame, Zenon
  <2> QED BY <2>2 DEF m
<1>11. n + 1 - 1 = n /\ \A e \in E : IsList(e[2])
  <2>1. \A e \in E : IsList(e[2])
    BY <1>1, <1>2, TableIs, PhrasesTyped DEF IsPhrase
  <2> QED BY <2>1
<1>12. \A q, w : Outer(t, R, n, q, w, v0) <=> Outer(t, S, n, q, w, v0)
  BY OuterSame, Zenon
<1> HIDE DEF n, E
<1> QED
  BY <1>7, <1>8, <1>10, <1>11, <1>12, Zenon

LEMMA ObjectOpens ==
  ASSUME NEW t \in Seq(STRING), NEW p \in 1..Len(t), t[p] = OpenBrace,
         NEW i, Skips(t, p + 1, i), ~Has(t, i, CloseBrace),
         NEW S, Len(S) \in Nat, Len(S) <= kMaxDepth, NEW R, Len(R) = Len(S) + 1,
         \A k \in 1..Len(S) : R[k] = S[k], R[Len(S) + 1].obj = <<>>, NEW v0
  PROVE  Valued(t, S, p, v0) <=> Keyed(t, R, i, v0)
<1> DEFINE n == Len(S)
           E == Members(t, Table(t), i, n + 1)
<1>1. p + 1 \in 1..(Len(t) + 1) /\ i \in 1..(Len(t) + 1)
  <2>1. p + 1 \in 1..(Len(t) + 1)
    OBVIOUS
  <2> QED BY <2>1, SkipIsGap
<1>2. n + 1 \in Nat \ {0} /\ n + 1 \in Depths
  BY JsonAssumption DEF Depths
<1>3. \A k : k \notin Marks(t, p + 1, CloseBrace)
  BY <1>1, OneMark, ClosingIs
<1>4. \A e : (\E k \in Gaps(t, p + 1) : e \in Table(t)[k].members[n + 1]) <=> e \in E
  BY <1>1, <1>2, EntriesAfterGap
<1>5. \A x : x \in Objects(t, Table(t), p, n) <=> \E e \in E : x = <<e[1], [obj |-> Object(e[2])]>>
  <2> DEFINE F(e) == <<e[1], [obj |-> Object(e[2])]>>
             D(k) == Table(t)[k].members[n + 1]
  <2>1. \A x : x \in Objects(t, Table(t), p, n) <=>
          \/ \E k \in Marks(t, p + 1, CloseBrace) : x = <<k + 1, [obj |-> <<>>]>>
          \/ \E k \in Gaps(t, p + 1) : \E e \in D(k) : x = F(e)
    BY InObjects
  <2>2. \A e : (\E k \in Gaps(t, p + 1) : e \in D(k)) <=> e \in E
    BY <1>4, Zenon
  <2> HIDE DEF F, D, E
  <2>3. \A x : x \in Objects(t, Table(t), p, n) <=> \E e \in E : x = F(e)
    BY <1>3, <2>1, <2>2, Zenon
  <2> QED BY <2>3, Zenon DEF F
<1>6. \A x : x \in Values(t, Table(t), p, n) <=> \E e \in E : x = <<e[1], [obj |-> Object(e[2])]>>
  BY <1>5, BracketValues
<1>7. Valued(t, S, p, v0) <=> \E e \in E : Outer(t, S, n, e[1], [obj |-> Object(e[2])], v0)
  <2> DEFINE H(q, w) == Outer(t, S, n, q, w, v0)
             V == Values(t, Table(t), p, n)
  <2>1. Valued(t, S, p, v0) <=> \E x \in V : H(x[1], x[2])
    BY Zenon DEF Valued
  <2>2. \A x : x \in V <=> \E e \in E : x = <<e[1], [obj |-> Object(e[2])]>>
    BY <1>6, Zenon
  <2> HIDE DEF H, V, E
  <2>3. (\E x \in V : H(x[1], x[2])) <=> \E e \in E : H(e[1], [obj |-> Object(e[2])])
    <3> DEFINE F(e) == <<e[1], [obj |-> Object(e[2])]>>
               K(e) == H(e[1], [obj |-> Object(e[2])])
    <3>1. \A e : H(F(e)[1], F(e)[2]) <=> K(e)
      OBVIOUS
    <3>2. \A x : x \in V <=> \E e \in E : x = F(e)
      BY <2>2, Zenon
    <3> HIDE DEF F, K
    <3>3. (\E x \in V : H(x[1], x[2])) <=> \E e \in E : K(e)
      BY <3>1, <3>2, Zenon
    <3> QED BY <3>3, Zenon DEF K
  <2> QED BY <2>1, <2>3, Zenon DEF H
<1>8. \A ms : Object(ms) = Overlay(<<>>, ms)
  BY ObjectIsOverlay, Zenon
<1>9. Keyed(t, R, i, v0) <=>
        \E e \in E : Outer(t, R, n + 1 - 1, e[1], [obj |-> Overlay(<<>>, e[2])], v0)
  <2>1. R[n + 1].obj = <<>> /\ Len(R) = n + 1
    OBVIOUS
  <2>2. Keyed(t, R, i, v0) <=>
          \E e \in Members(t, Table(t), i, Len(R)) :
            Outer(t, R, Len(R) - 1, e[1], [obj |-> Overlay(R[Len(R)].obj, e[2])], v0)
    BY Zenon DEF Keyed
  <2> QED BY <2>1, <2>2
<1>10. n + 1 - 1 = n
  OBVIOUS
<1>11. \A q, w : Outer(t, R, n, q, w, v0) <=> Outer(t, S, n, q, w, v0)
  BY OuterSame, Zenon
<1> HIDE DEF n, E
<1> QED
  BY <1>7, <1>8, <1>9, <1>10, <1>11, Zenon

LEMMA NoneOpens ==
  ASSUME NEW t \in Seq(STRING), NEW p \in 1..Len(t), NEW i, Skips(t, p + 1, i),
         NEW n \in Nat, n <= kMaxDepth, NEW x
  PROVE  /\ t[p] = OpenBracket /\ Has(t, i, CloseBracket) =>
              (x \in Values(t, Table(t), p, n) <=> x = <<i + 1, [arr |-> <<>>]>>)
         /\ t[p] = OpenBrace /\ Has(t, i, CloseBrace) =>
              (x \in Values(t, Table(t), p, n) <=> x = <<i + 1, [obj |-> <<>>]>>)
<1>1. p + 1 \in 1..(Len(t) + 1) /\ i \in 1..(Len(t) + 1)
  <2>1. p + 1 \in 1..(Len(t) + 1)
    OBVIOUS
  <2> QED BY <2>1, SkipIsGap
<1>2. n + 1 \in Depths
  BY JsonAssumption DEF Depths
<1>3. /\ \A e : (\E k \in Gaps(t, p + 1) : e \in Table(t)[k].elements[n + 1]) <=>
                  e \in Elements(t, Table(t), i, n + 1)
      /\ \A e : (\E k \in Gaps(t, p + 1) : e \in Table(t)[k].members[n + 1]) <=>
                  e \in Members(t, Table(t), i, n + 1)
  BY <1>1, <1>2, EntriesAfterGap
<1>4. ASSUME NEW c \in Closing, Has(t, i, c)
      PROVE  /\ \A e : e \notin Elements(t, Table(t), i, n + 1)
             /\ \A e : e \notin Members(t, Table(t), i, n + 1)
  <2>1. t[i] \in Closing
    BY <1>4, Zenon DEF Has
  <2> QED BY <1>1, <2>1, ElementsBegin, MembersBegin
<1>5. ASSUME NEW c \in Closing, Has(t, i, c)
      PROVE  /\ \A e : ~ \E k \in Gaps(t, p + 1) : e \in Table(t)[k].elements[n + 1]
             /\ \A e : ~ \E k \in Gaps(t, p + 1) : e \in Table(t)[k].members[n + 1]
  BY <1>3, <1>4, <1>5, Zenon
<1>6. ASSUME t[p] = OpenBracket, Has(t, i, CloseBracket)
      PROVE  x \in Values(t, Table(t), p, n) <=> x = <<i + 1, [arr |-> <<>>]>>
  <2>1. \A k : k \in Marks(t, p + 1, CloseBracket) <=> k = i
    BY <1>1, <1>6, OneMark, ClosingIs
  <2>2. x \in Arrays(t, Table(t), p, n) <=> \E k \in Marks(t, p + 1, CloseBracket) : x = <<k + 1, [arr |-> <<>>]>>
    <3>1. \A e : ~ \E k \in Gaps(t, p + 1) : e \in Table(t)[k].elements[n + 1]
      BY <1>5, <1>6, ClosingIs, Zenon
    <3>2. x \in Arrays(t, Table(t), p, n) <=>
            \/ \E k \in Marks(t, p + 1, CloseBracket) : x = <<k + 1, [arr |-> <<>>]>>
            \/ \E k \in Gaps(t, p + 1) : \E e \in Table(t)[k].elements[n + 1] : x = <<e[1], [arr |-> e[2]]>>
      BY InArrays
    <3> QED BY <3>1, <3>2, Zenon
  <2>3. x \in Values(t, Table(t), p, n) <=> x \in Arrays(t, Table(t), p, n)
    BY <1>6, BracketValues
  <2> QED BY <2>1, <2>2, <2>3, Zenon
<1>7. ASSUME t[p] = OpenBrace, Has(t, i, CloseBrace)
      PROVE  x \in Values(t, Table(t), p, n) <=> x = <<i + 1, [obj |-> <<>>]>>
  <2>1. \A k : k \in Marks(t, p + 1, CloseBrace) <=> k = i
    BY <1>1, <1>7, OneMark, ClosingIs
  <2>2. x \in Objects(t, Table(t), p, n) <=> \E k \in Marks(t, p + 1, CloseBrace) : x = <<k + 1, [obj |-> <<>>]>>
    <3>1. \A e : ~ \E k \in Gaps(t, p + 1) : e \in Table(t)[k].members[n + 1]
      BY <1>5, <1>7, ClosingIs, Zenon
    <3>2. x \in Objects(t, Table(t), p, n) <=>
            \/ \E k \in Marks(t, p + 1, CloseBrace) : x = <<k + 1, [obj |-> <<>>]>>
            \/ \E k \in Gaps(t, p + 1) : \E e \in Table(t)[k].members[n + 1] : x = <<e[1], [obj |-> Object(e[2])]>>
      BY InObjects
    <3> QED BY <3>1, <3>2, Zenon
  <2>3. x \in Values(t, Table(t), p, n) <=> x \in Objects(t, Table(t), p, n)
    BY <1>7, BracketValues
  <2> QED BY <2>1, <2>2, <2>3, Zenon
<1> QED
  BY <1>6, <1>7, Zenon

----------------------------------------------------------------------------
(* Keys and string values *)

LEMMA FromNothing ==
  ASSUME NEW r, IsList(r[2])
  PROVE  Both(<<>>, r) = r[2]
<1>1. \A d : IsList(d) => <<>> \o d = d
  BY Single, Concatenated
<1> QED
  BY <1>1, Zenon DEF Both

LEMMA StringBegins ==
  ASSUME NEW t \in Seq(STRING), NEW p \in 1..Len(t), t[p] = Quote,
         NEW S, Len(S) \in Nat, Len(S) <= kMaxDepth, NEW v0
  PROVE  Valued(t, S, p, v0) <=> Spell(t, S, p + 1, <<>>, v0)
<1> DEFINE n == Len(S)
           C == CharsAt(t, p + 1)
           V == Values(t, Table(t), p, n)
           H(q, w) == Outer(t, S, n, q, w, v0)
           F(e) == <<e[1], [str |-> e[2]]>>
           K(e) == H(e[1], [str |-> e[2]])
<1>1. Has(t, p, Quote) /\ p \in 1..(Len(t) + 1) /\ p + 1 \in 1..(Len(t) + 1)
  BY DEF Has
<1>2. \A x : x \in V <=> \E e \in C : x = F(e)
  BY <1>1, StringValues
<1>3. \A e \in C : Both(<<>>, e) = e[2]
  <2>1. \A e \in C : IsList(e[2])
    BY <1>1, CharsAreTyped
  <2> QED BY <2>1, FromNothing
<1>4. \A e : H(F(e)[1], F(e)[2]) <=> K(e)
  OBVIOUS
<1>5. Valued(t, S, p, v0) <=> \E x \in V : H(x[1], x[2])
  BY Zenon DEF Valued
<1>6. Spell(t, S, p + 1, <<>>, v0) <=> \E e \in C : H(e[1], [str |-> Both(<<>>, e)])
  BY Zenon DEF Spell
<1>7. (\E e \in C : H(e[1], [str |-> Both(<<>>, e)])) <=> \E e \in C : K(e)
  <2> HIDE DEF C, H
  <2> QED BY <1>3, Zenon
<1> HIDE DEF C, V, H, F, K
<1>8. (\E x \in V : H(x[1], x[2])) <=> \E e \in C : K(e)
  BY <1>2, <1>4, Zenon
<1> QED
  BY <1>5, <1>6, <1>7, <1>8, Zenon

LEMMA KeyFails ==
  ASSUME NEW t \in Seq(STRING), NEW p \in 1..(Len(t) + 1), ~Has(t, p, Quote), NEW S, NEW v0
  PROVE  ~Keyed(t, S, p, v0)
<1>1. \A r : r \notin Members(t, Table(t), p, Len(S))
  BY MembersBegin DEF Has
<1> QED
  BY <1>1, Zenon DEF Keyed

\* e is a member and the rest, from the quote at p on.
FromKey(t, p, n, e) ==
  \E s \in CharsAt(t, p + 1) : \E k \in Marks(t, s[1], Colon) :
    \E j \in Gaps(t, k + 1) : \E v \in Values(t, Table(t), j, n) :
      \E r \in MoreMembers(t, Table(t), v[1], n) :
        e = ItemThen(<<v[1], [name |-> s[2], val |-> v[2]]>>, r)

LEMMA MembersAre ==
  ASSUME NEW t \in Seq(STRING), NEW p \in 1..Len(t), t[p] = Quote, NEW n, NEW e
  PROVE  e \in Members(t, Table(t), p, n) <=> FromKey(t, p, n, e)
<1> DEFINE F(s, v) == <<v[1], [name |-> s[2], val |-> v[2]]>>
           C == CharsAt(t, p + 1)
           M(s) == Marks(t, s[1], Colon)
           V(j) == Values(t, Table(t), j, n)
           R(v) == MoreMembers(t, Table(t), v[1], n)
<1>1. p + 1 \in 1..(Len(t) + 1) /\ Has(t, p, Quote)
  BY DEF Has
<1>2. StringAt(t, Table(t), p) = C
  <2>1. StringAt(t, Table(t), p) = Table(t)[p + 1].chars
    BY <1>1, Zenon DEF StringAt, Quote
  <2> QED BY <1>1, <2>1, CharsAreTyped
<1>3. \A m : m \in Member(t, Table(t), p, n) <=>
        \E s \in StringAt(t, Table(t), p) : \E k \in M(s) :
          \E j \in Gaps(t, k + 1) : \E v \in V(j) : m = F(s, v)
  BY InMember
<1>4. e \in Members(t, Table(t), p, n) <=>
        \E m \in Member(t, Table(t), p, n) : \E r \in R(m) : e = ItemThen(m, r)
  BY InMembers
<1>5. \A s, v : R(F(s, v)) = R(v)
  OBVIOUS
<1> HIDE DEF F, C, M, V, R
<1>6. \A m : m \in Member(t, Table(t), p, n) <=>
        \E s \in C : \E k \in M(s) : \E j \in Gaps(t, k + 1) : \E v \in V(j) : m = F(s, v)
  BY <1>2, <1>3
<1>7. e \in Members(t, Table(t), p, n) <=>
        \E s \in C : \E k \in M(s) : \E j \in Gaps(t, k + 1) : \E v \in V(j) :
          \E r \in R(v) : e = ItemThen(F(s, v), r)
  <2> DEFINE Q(m) == \E r \in R(m) : e = ItemThen(m, r)
             P(s, v) == \E r \in R(v) : e = ItemThen(F(s, v), r)
  <2>1. \A s, v : Q(F(s, v)) <=> P(s, v)
    BY <1>5, Zenon
  <2>2. e \in Members(t, Table(t), p, n) <=> \E m \in Member(t, Table(t), p, n) : Q(m)
    BY <1>4, Zenon
  <2> HIDE DEF Q, P
  <2>3. (\E m \in Member(t, Table(t), p, n) : Q(m)) <=>
          \E s \in C : \E k \in M(s) : \E j \in Gaps(t, k + 1) : \E v \in V(j) : Q(F(s, v))
    BY <1>6
  <2>4. e \in Members(t, Table(t), p, n) <=>
          \E s \in C : \E k \in M(s) : \E j \in Gaps(t, k + 1) : \E v \in V(j) : P(s, v)
    BY <2>1, <2>2, <2>3, Zenon
  <2> QED BY <2>4, Zenon DEF P
<1> QED
  BY <1>7, Zenon DEF F, C, M, V, R, FromKey

LEMMA KeyBegins ==
  ASSUME NEW t \in Seq(STRING), NEW p \in 1..Len(t), t[p] = Quote,
         NEW S, Len(S) \in Nat, NEW v0
  PROVE  Keyed(t, S, p, v0) <=> SpellKey(t, S, p + 1, <<>>, v0)
<1> DEFINE n == Len(S)
           o == S[n].obj
           G(q, w) == Outer(t, S, n - 1, q, [obj |-> w], v0)
           F(s, v) == <<v[1], [name |-> s[2], val |-> v[2]]>>
           C == CharsAt(t, p + 1)
           M(s) == Marks(t, s[1], Colon)
           V(j) == Values(t, Table(t), j, n)
           R(v) == MoreMembers(t, Table(t), v[1], n)
           Good(s, v, r) == G(r[1], Overlay(WithMember(o, s[2], v[2]), r[2]))
<1>1. p + 1 \in 1..(Len(t) + 1)
  OBVIOUS
<1>2. Keyed(t, S, p, v0) <=> \E e \in Members(t, Table(t), p, n) : G(e[1], Overlay(o, e[2]))
  BY Zenon DEF Keyed
<1>3. \A e : e \in Members(t, Table(t), p, n) <=>
        \E s \in C : \E k \in M(s) : \E j \in Gaps(t, k + 1) : \E v \in V(j) :
          \E r \in R(v) : e = ItemThen(F(s, v), r)
  <2> SUFFICES ASSUME NEW e
               PROVE  e \in Members(t, Table(t), p, n) <=>
                        \E s \in C : \E k \in M(s) : \E j \in Gaps(t, k + 1) : \E v \in V(j) :
                          \E r \in R(v) : e = ItemThen(F(s, v), r)
    BY Zenon
  <2>1. e \in Members(t, Table(t), p, n) <=> FromKey(t, p, n, e)
    BY MembersAre, Zenon
  <2>2. FromKey(t, p, n, e) <=>
          \E s \in C : \E k \in M(s) : \E j \in Gaps(t, k + 1) : \E v \in V(j) :
            \E r \in R(v) : e = ItemThen(F(s, v), r)
    BY Zenon DEF FromKey
  <2> HIDE DEF F, C, M, V, R, n
  <2> QED BY <2>1, <2>2, Zenon
<1>4. \A s \in C : s[1] \in 1..(Len(t) + 1) /\ IsList(s[2])
  BY <1>1, CharsAreTyped
<1>5. ASSUME NEW s \in C, NEW k \in M(s), NEW j \in Gaps(t, k + 1), NEW v \in V(j), NEW r \in R(v)
      PROVE  /\ ItemThen(F(s, v), r)[1] = r[1]
             /\ Overlay(o, ItemThen(F(s, v), r)[2]) = Overlay(WithMember(o, s[2], v[2]), r[2])
  <2>1. s[1] \in 1..(Len(t) + 1)
    BY <1>4
  <2>2. k + 1 \in 1..(Len(t) + 1)
    BY <2>1, MarkBounds
  <2>3. j \in 1..(Len(t) + 1)
    BY <2>2, GapBounds
  <2>4. IsList(r[2])
    BY <2>3, MoreTyped
  <2> DEFINE m == [name |-> s[2], val |-> v[2]]
             d == r[2]
  <2>5. m.name = s[2] /\ m.val = v[2] /\ F(s, v)[2] = m
    OBVIOUS
  <2>6. ItemThen(F(s, v), r)[1] = r[1] /\ ItemThen(F(s, v), r)[2] = <<F(s, v)[2]>> \o r[2]
    BY ThenIs
  <2> HIDE DEF F, m, d
  <2>7. ItemThen(F(s, v), r)[2] = Prefixed(m, d)
    BY <2>5, <2>6, Zenon DEF Prefixed, d
  <2>8. Overlay(o, Prefixed(m, d)) = Overlay(WithMember(o, m.name, m.val), d)
    <3>1. IsList(d)
      BY <2>4, Zenon DEF d
    <3> HIDE DEF o
    <3> QED BY <3>1, OverlayMore
  <2> QED BY <2>5, <2>6, <2>7, <2>8, Zenon DEF d
<1>6. Keyed(t, S, p, v0) <=>
        \E s \in C : \E k \in M(s) : \E j \in Gaps(t, k + 1) : \E v \in V(j) :
          \E r \in R(v) : Good(s, v, r)
  <2> HIDE DEF o, G, F, C, M, V, R
  <2> QED BY <1>2, <1>3, <1>5
<1>7. \A s \in C : Both(<<>>, s) = s[2]
  BY <1>4, FromNothing
<1>8. \A s \in C : KeyRead(t, S, s[1], Both(<<>>, s), v0) <=>
        \E k \in M(s) : \E j \in Gaps(t, k + 1) : \E v \in V(j) : \E r \in R(v) : Good(s, v, r)
  BY <1>7, Zenon DEF KeyRead
<1> HIDE DEF C, M, V, R, Good
<1>9. SpellKey(t, S, p + 1, <<>>, v0) <=>
        \E s \in C : KeyRead(t, S, s[1], Both(<<>>, s), v0)
  BY Zenon DEF SpellKey, C
<1> QED
  BY <1>6, <1>8, <1>9, Zenon

----------------------------------------------------------------------------
(* After a key *)

LEMMA NoColon ==
  ASSUME NEW t \in Seq(STRING), NEW p \in 1..(Len(t) + 1), NEW i, Skips(t, p, i),
         ~Has(t, i, Colon), NEW S, NEW key, NEW v0
  PROVE  ~KeyRead(t, S, p, key, v0)
<1>1. \A k : k \notin Marks(t, p, Colon)
  BY OneMark, ClosingIs
<1> QED
  BY <1>1, Zenon DEF KeyRead

LEMMA KeyGoesOn ==
  ASSUME NEW t \in Seq(STRING), NEW p \in 1..(Len(t) + 1), NEW i, Skips(t, p, i),
         Has(t, i, Colon), NEW j, Skips(t, i + 1, j),
         NEW S, NEW R, NEW n \in Nat \ {0}, SameBelow(S, R, n),
         "arr" \notin DOMAIN R[n], R[n].obj = S[n].obj, NEW v0
  PROVE  KeyRead(t, S, p, R[n].key, v0) <=> Valued(t, R, j, v0)
<1> DEFINE o == WithMember(S[n].obj, R[n].key, v0)
           G(q, v, d) == Outer(t, S, n - 1, q, [obj |-> Overlay(WithMember(S[n].obj, R[n].key, v), d)], v0)
           V(k) == Values(t, Table(t), k, n)
           M(v) == MoreMembers(t, Table(t), v[1], n)
<1>1. i + 1 \in 1..(Len(t) + 1)
  BY OneMark, ClosingIs
<1>2. Len(S) = n /\ Len(R) = n
  BY Zenon DEF SameBelow
<1>3. \A k : k \in Marks(t, p, Colon) <=> k = i
  BY OneMark, ClosingIs
<1>4. \A k \in Gaps(t, i + 1) : \A x \in V(k) : k = j
  BY <1>1, GapBeforeValue
<1>5. j \in Gaps(t, i + 1)
  BY <1>1, SkipIsGap
<1>6. KeyRead(t, S, p, R[n].key, v0) <=>
        \E k \in Marks(t, p, Colon) : \E l \in Gaps(t, k + 1) :
          \E v \in V(l) : \E r \in M(v) : G(r[1], v[2], r[2])
  BY <1>2, Zenon DEF KeyRead
<1>7. \A v : Outer(t, R, n, v[1], v[2], v0) <=> \E r \in M(v) : G(r[1], v[2], r[2])
  <2>1. \A q, w : Outer(t, S, n - 1, q, w, v0) <=> Outer(t, R, n - 1, q, w, v0)
    BY OuterBelow, Zenon
  <2>2. \A v : Outer(t, R, n, v[1], v[2], v0) <=>
          \E r \in M(v) : Outer(t, R, n - 1, r[1],
                            [obj |-> Overlay(WithMember(R[n].obj, R[n].key, v[2]), r[2])], v0)
    BY OuterObject
  <2> QED BY <2>1, <2>2, Zenon
<1>8. Valued(t, R, j, v0) <=> \E v \in V(j) : Outer(t, R, n, v[1], v[2], v0)
  BY <1>2, Zenon DEF Valued
<1> HIDE DEF G, V, M
<1> QED
  BY <1>3, <1>4, <1>5, <1>6, <1>7, <1>8, Zenon

----------------------------------------------------------------------------
(* What the parser has read and what is left determine what the text means *)

\* From here on the text can still be found to mean v0.
Leads(t, c, p, S, s, o, v0) ==
  \/ c = "start" /\ v0 \in Meaning(t)
  \/ c = "value" /\ Valued(t, S, p, v0)
  \/ c = "key" /\ Keyed(t, S, p, v0)
  \/ c = "string" /\ Spell(t, S, p, s, v0)
  \/ c = "keystring" /\ SpellKey(t, S, p, s, v0)
  \/ c = "returned" /\ Outer(t, S, Len(S), p, o, v0)
  \/ c = "ok" /\ v0 = o

LEMMA LeadsIs ==
  ASSUME NEW t, NEW p, NEW S, NEW s, NEW o, NEW v0
  PROVE  /\ Leads(t, "start", p, S, s, o, v0) <=> v0 \in Meaning(t)
         /\ Leads(t, "value", p, S, s, o, v0) <=> Valued(t, S, p, v0)
         /\ Leads(t, "key", p, S, s, o, v0) <=> Keyed(t, S, p, v0)
         /\ Leads(t, "string", p, S, s, o, v0) <=> Spell(t, S, p, s, v0)
         /\ Leads(t, "keystring", p, S, s, o, v0) <=> SpellKey(t, S, p, s, v0)
         /\ Leads(t, "returned", p, S, s, o, v0) <=> Outer(t, S, Len(S), p, o, v0)
         /\ Leads(t, "ok", p, S, s, o, v0) <=> v0 = o
         /\ ~Leads(t, "failed", p, S, s, o, v0)
BY DEF Leads

ArraysAreLists(S) == \A k \in DOMAIN S : "arr" \in DOMAIN S[k] => IsList(S[k].arr)

MeansInv ==
  /\ IsList(str)
  /\ ArraysAreLists(stack)
  /\ ctl = "start" => stack = <<>> /\ pos_ = 1
  /\ \A v0 : v0 \in Meaning(text) <=> Leads(text, ctl, pos_, stack, str, out, v0)

\* The step does not change what the text can be found to mean.
Faithful ==
  /\ IsList(str') /\ ArraysAreLists(stack')
  /\ text' = text /\ ctl' # "start"
  /\ \A v0 : Leads(text, ctl, pos_, stack, str, out, v0) <=>
             Leads(text, ctl', pos_', stack', str', out', v0)

LEMMA FaithfulKeeps ==
  ASSUME MeansInv, Faithful
  PROVE  MeansInv'
<1>1. IsList(str') /\ ArraysAreLists(stack') /\ text' = text /\ ctl' # "start"
  BY Zenon DEF Faithful
<1>2. \A v0 : v0 \in Meaning(text') <=> Leads(text', ctl', pos_', stack', str', out', v0)
  BY <1>1, Zenon DEF Faithful, MeansInv
<1> QED
  BY <1>1, <1>2, Zenon DEF MeansInv

LEMMA State ==
  ASSUME JsonInv
  PROVE  /\ text \in Seq(STRING) /\ Len(text) \in Nat
         /\ pos_ \in 1..(Len(text) + 1) /\ pos_ \in Nat \ {0} /\ pos_ \in 1..End
         /\ Len(stack) \in Nat /\ DOMAIN stack = 1..Len(stack) /\ IsList(stack)
         /\ Len(stack) <= kMaxDepth + 1 /\ Len(stack) \in Depths
<1>1. /\ text \in Seq(STRING) /\ Len(text) \in Nat
      /\ pos_ \in 1..(Len(text) + 1) /\ pos_ \in Nat \ {0} /\ pos_ \in 1..End
  BY DEF JsonInv, JsonTypeOK, End
<1>2. Len(stack) \in Nat /\ DOMAIN stack = 1..Len(stack) /\ IsList(stack)
  BY Pushed DEF JsonInv
<1>3. Len(stack) <= kMaxDepth + 1
  BY DEF JsonInv, RecursionIsBounded
<1> QED
  BY <1>1, <1>2, <1>3, JsonAssumption DEF Depths

LEMMA FailsFaithful ==
  ASSUME MeansInv, NEW msg, JsonFails(msg),
         \A v0 : ~Leads(text, ctl, pos_, stack, str, out, v0)
  PROVE  Faithful
<1>1. ctl' = "failed" /\ UNCHANGED <<text, pos_, stack, str, out>>
  BY DEF JsonFails
<1>2. \A v0 : ~Leads(text, ctl', pos_', stack', str', out', v0)
  BY <1>1, LeadsIs, Zenon
<1> QED
  BY <1>1, <1>2 DEF Faithful, MeansInv

LEMMA ReturnsFaithful ==
  ASSUME MeansInv, NEW v, NEW i, JsonReturns(v, i), UNCHANGED stack,
         \A v0 : Leads(text, ctl, pos_, stack, str, out, v0) <=>
                 Outer(text, stack, Len(stack), i, v, v0)
  PROVE  Faithful
<1>1. ctl' = "returned" /\ out' = v /\ pos_' = i /\ text' = text /\ str' = str
  BY DEF JsonReturns
<1>2. \A v0 : Leads(text, ctl', pos_', stack', str', out', v0) <=>
              Outer(text, stack, Len(stack), i, v, v0)
  BY <1>1, LeadsIs, Zenon
<1> QED
  BY <1>1, <1>2 DEF Faithful, MeansInv

LEMMA ReadsFaithful ==
  ASSUME JsonInv, MeansInv, InString, NEW b, NEW i, Reads(b, i), ~Has(text, pos_, Quote),
         Characters(text, pos_) = {<<i, b>>}
  PROVE  Faithful
<1>1. str' = str \o b /\ pos_' = i /\ UNCHANGED <<text, ctl, stack, out>>
  BY DEF Reads
<1>2. IsList(str)
  BY DEF MeansInv
<1>3. \A v0 : /\ Spell(text, stack, pos_, str, v0) <=> Spell(text, stack, i, str', v0)
              /\ SpellKey(text, stack, pos_, str, v0) <=> SpellKey(text, stack, i, str', v0)
  BY <1>1, <1>2, State, SpellGoesOn, Zenon
<1>4. IsList(str')
  BY <1>1, <1>2, State, SpellGoesOn, Zenon
<1>5. ctl \in {"string", "keystring"}
  BY DEF InString
<1>6. \A v0 : Leads(text, ctl, pos_, stack, str, out, v0) <=>
              Leads(text, ctl, i, stack, str', out, v0)
  <2>1. CASE ctl = "string"
    BY <1>3, <2>1, LeadsIs
  <2>2. CASE ctl = "keystring"
    BY <1>3, <2>2, LeadsIs
  <2> QED BY <1>5, <2>1, <2>2, Zenon
<1> QED
  BY <1>1, <1>4, <1>5, <1>6 DEF Faithful, MeansInv

LEMMA DiesFaithful ==
  ASSUME JsonInv, MeansInv, InString, NEW msg, JsonFails(msg), ~Has(text, pos_, Quote),
         Characters(text, pos_) = {}
  PROVE  Faithful
<1>1. \A v0 : ~Spell(text, stack, pos_, str, v0) /\ ~SpellKey(text, stack, pos_, str, v0)
  BY SpellDies, Zenon
<1>2. ctl \in {"string", "keystring"}
  BY DEF InString
<1>3. \A v0 : ~Leads(text, ctl, pos_, stack, str, out, v0)
  <2>1. CASE ctl = "string"
    BY <1>1, <2>1, LeadsIs
  <2>2. CASE ctl = "keystring"
    BY <1>1, <2>2, LeadsIs
  <2> QED BY <1>2, <2>1, <2>2, Zenon
<1> QED
  BY <1>3, FailsFaithful

LEMMA NoValueFaithful ==
  ASSUME JsonInv, MeansInv, ctl = "value", NEW msg, JsonFails(msg),
         \A x : x \notin Values(text, Table(text), pos_, Len(stack))
  PROVE  Faithful
<1>1. \A v0 : ~Valued(text, stack, pos_, v0)
  BY Zenon DEF Valued
<1>2. \A v0 : ~Leads(text, ctl, pos_, stack, str, out, v0)
  BY <1>1, LeadsIs, Zenon
<1> QED
  BY <1>2, FailsFaithful

LEMMA ValueFaithful ==
  ASSUME JsonInv, MeansInv, ctl = "value", NEW v, NEW i, JsonReturns(v, i), UNCHANGED stack,
         \A x : x \in Values(text, Table(text), pos_, Len(stack)) <=> x = <<i, v>>
  PROVE  Faithful
<1> DEFINE y == <<i, v>>
<1>0. y[1] = i /\ y[2] = v
  OBVIOUS
<1> HIDE DEF y
<1>1. \A v0 : Valued(text, stack, pos_, v0) <=> Outer(text, stack, Len(stack), i, v, v0)
  <2>1. \A x : x \in Values(text, Table(text), pos_, Len(stack)) <=> x = y
    BY Zenon DEF y
  <2> QED BY <1>0, <2>1, Zenon DEF Valued
<1>2. \A v0 : Leads(text, ctl, pos_, stack, str, out, v0) <=>
              Outer(text, stack, Len(stack), i, v, v0)
  BY <1>1, LeadsIs, Zenon
<1> QED
  BY <1>2, ReturnsFaithful

----------------------------------------------------------------------------
(* Step by step: values *)

LEMMA AtNow ==
  ASSUME JsonInv, NEW i \in Nat \ {0}
  PROVE  /\ \A c : c # "end" => (At(i) = c <=> Has(text, i, c))
         /\ i <= Len(text) => At(i) = text[i]
         /\ i > Len(text) => At(i) = "end"
         /\ At(i) # "end" => i \in 1..Len(text) /\ At(i) = text[i]
<1>1. JsonTypeOK /\ Len(text) \in Nat
  BY State DEF JsonInv
<1>2. i <= Len(text) \/ i > Len(text)
  BY <1>1
<1>3. i <= Len(text) => i \in 1..Len(text)
  BY <1>1
<1> QED
  BY <1>1, <1>2, <1>3, AtIs, Zenon

LEMMA CharactersAreMarks ==
  \A c \in {OpenBracket, CloseBracket, OpenBrace, CloseBrace, Comma, Colon, Quote, Backslash} : c # "end"
BY Zenon DEF OpenBracket, CloseBracket, OpenBrace, CloseBrace, Comma, Colon, Quote, Backslash

LEMMA SkipsNow ==
  ASSUME JsonInv, NEW i \in 1..(Len(text) + 1)
  PROVE  Skips(text, i, skip_ws(i)) /\ skip_ws(i) \in i..(Len(text) + 1)
         /\ skip_ws(i) \in Nat \ {0}
<1>1. JsonTypeOK /\ i \in 1..End /\ Len(text) \in Nat
  BY State DEF JsonInv, End
<1>2. Skips(text, i, skip_ws(i)) /\ skip_ws(i) \in i..(Len(text) + 1)
  BY <1>1, SkipIs DEF End
<1> QED
  BY <1>1, <1>2

LEMMA MeaningIs ==
  ASSUME NEW t \in Seq(STRING), NEW i, Skips(t, 1, i), NEW v0
  PROVE  v0 \in Meaning(t) <=> Valued(t, <<>>, i, v0)
<1> DEFINE V(k) == Values(t, Table(t), k, 0)
<1>1. 1 \in 1..(Len(t) + 1) /\ Len(<<>>) = 0
  OBVIOUS
<1>2. \A k \in Gaps(t, 1) : \A x \in V(k) : k = i
  BY <1>1, GapBeforeValue
<1>3. i \in Gaps(t, 1)
  BY <1>1, SkipIsGap
<1>4. v0 \in Meaning(t) <=>
        \E w \in UNION {V(k) : k \in Gaps(t, 1)} : Len(t) + 1 \in Gaps(t, w[1]) /\ v0 = w[2]
  BY Zenon DEF Meaning
<1>5. Valued(t, <<>>, i, v0) <=> \E w \in V(i) : Outer(t, <<>>, 0, w[1], w[2], v0)
  BY <1>1, Zenon DEF Valued
<1>6. \A w : Outer(t, <<>>, 0, w[1], w[2], v0) <=> w[2] = v0 /\ Len(t) + 1 \in Gaps(t, w[1])
  <2>1. \A q, v : Outer(t, <<>>, 0, q, v, v0) <=> v = v0 /\ Len(t) + 1 \in Gaps(t, q)
    BY Outermost
  <2> QED BY <2>1, Zenon
<1> HIDE DEF V
<1>7. \A w : w \in UNION {V(k) : k \in Gaps(t, 1)} <=> w \in V(i)
  BY <1>2, <1>3, Zenon
<1> QED
  BY <1>4, <1>5, <1>6, <1>7, Zenon

LEMMA ParseFaithful == JsonInv /\ MeansInv /\ parse => Faithful
<1> SUFFICES ASSUME JsonInv, MeansInv, parse PROVE Faithful
  OBVIOUS
<1>1. /\ ctl = "start" /\ ctl' = "value" /\ pos_' = skip_ws(pos_)
      /\ UNCHANGED <<text, stack, str, out>> /\ stack = <<>> /\ pos_ = 1
  BY DEF parse, MeansInv
<1>2. text \in Seq(STRING) /\ Skips(text, 1, pos_')
  BY <1>1, State, SkipsNow
<1>3. \A v0 : Leads(text, ctl, pos_, stack, str, out, v0) <=> v0 \in Meaning(text)
  BY <1>1, LeadsIs, Zenon
<1>4. \A v0 : Leads(text, ctl', pos_', stack', str', out', v0) <=> Valued(text, <<>>, pos_', v0)
  BY <1>1, LeadsIs, Zenon
<1>5. \A v0 : v0 \in Meaning(text) <=> Valued(text, <<>>, pos_', v0)
  BY <1>2, MeaningIs, Zenon
<1>6. \A v0 : Leads(text, ctl, pos_, stack, str, out, v0) <=>
              Leads(text, ctl', pos_', stack', str', out', v0)
  BY <1>3, <1>4, <1>5, Zenon
<1> QED
  BY <1>1, <1>6 DEF Faithful, MeansInv

LEMMA TooDeepFaithful == JsonInv /\ MeansInv /\ TooDeep => Faithful
<1> SUFFICES ASSUME JsonInv, MeansInv, TooDeep PROVE Faithful
  OBVIOUS
<1>1. ctl = "value" /\ Len(stack) > kMaxDepth /\ JsonFails("JSON nesting too deep")
  BY DEF TooDeep, Depth
<1>2. \A x : x \notin Values(text, Table(text), pos_, Len(stack))
  BY <1>1, State, NoValues
<1> QED
  BY <1>1, <1>2, NoValueFaithful

LEMMA EndOfInputFaithful == JsonInv /\ MeansInv /\ EndOfInput => Faithful
<1> SUFFICES ASSUME JsonInv, MeansInv, EndOfInput PROVE Faithful
  OBVIOUS
<1>1. ctl = "value" /\ At(pos_) = "end" /\ JsonFails("unexpected end of input")
  BY DEF EndOfInput, ValueAt
<1>2. pos_ = Len(text) + 1 \/ text[pos_] = "end"
  <2>1. pos_ \in 1..(Len(text) + 1) /\ Len(text) \in Nat /\ pos_ \in Nat \ {0}
    BY State
  <2>2. pos_ <= Len(text) => At(pos_) = text[pos_]
    BY <2>1, AtNow
  <2>3. pos_ <= Len(text) \/ pos_ = Len(text) + 1
    BY <2>1
  <2> QED BY <1>1, <2>2, <2>3, Zenon
<1>3. \A x : x \notin Values(text, Table(text), pos_, Len(stack))
  BY <1>2, State, NoValues
<1> QED
  BY <1>1, <1>3, NoValueFaithful

\* The parser looks at a value that begins with a character of the text.
LEMMA ValueNow ==
  ASSUME JsonInv, NEW c, c # "end", ValueAt(c)
  PROVE  /\ ctl = "value" /\ Len(stack) \in Nat /\ Len(stack) <= kMaxDepth
         /\ pos_ \in 1..Len(text) /\ text[pos_] = c
         /\ pos_ + 1 \in 1..(Len(text) + 1)
<1>1. ctl = "value" /\ Len(stack) <= kMaxDepth /\ At(pos_) = c
  BY DEF ValueAt, Depth
<1>2. pos_ \in Nat \ {0} /\ Len(stack) \in Nat /\ Len(text) \in Nat
  BY State
<1>3. pos_ \in 1..Len(text) /\ text[pos_] = c
  BY <1>1, <1>2, AtNow
<1> QED
  BY <1>1, <1>2, <1>3

LEMMA LiteralFaithful == JsonInv /\ MeansInv /\ parse_literal => Faithful
<1> SUFFICES ASSUME JsonInv, MeansInv, parse_literal PROVE Faithful
  OBVIOUS
<1>1. CASE \E lit \in {"true", "false", "null"} :
             /\ ValueAt(lit)
             /\ JsonReturns(IF lit = "null" THEN Null ELSE [bool |-> lit = "true"], pos_ + 1)
             /\ UNCHANGED stack
  <2>1. PICK lit \in {"true", "false", "null"} :
             /\ ValueAt(lit)
             /\ JsonReturns(IF lit = "null" THEN Null ELSE [bool |-> lit = "true"], pos_ + 1)
             /\ UNCHANGED stack
    BY <1>1
  <2>2. lit # "end"
    OBVIOUS
  <2>3. /\ ctl = "value" /\ Len(stack) \in Nat /\ Len(stack) <= kMaxDepth
        /\ pos_ \in 1..Len(text) /\ text[pos_] = lit
    BY <2>1, <2>2, ValueNow
  <2> DEFINE v == IF lit = "null" THEN Null ELSE [bool |-> lit = "true"]
  <2>4. text \in Seq(STRING) /\ text[pos_] \in {"true", "false", "null"}
    BY <2>3, State
  <2>5. \A x : x \in Values(text, Table(text), pos_, Len(stack)) <=> x = <<pos_ + 1, v>>
    BY <2>3, <2>4, LiteralValues
  <2>6. JsonReturns(v, pos_ + 1) /\ UNCHANGED stack
    BY <2>1
  <2> HIDE DEF v
  <2> QED BY <2>3, <2>5, <2>6, ValueFaithful
<1>2. CASE \E c \in BadLiteral : ValueAt(c) /\ JsonFails("invalid literal")
  <2>1. PICK c \in BadLiteral : ValueAt(c) /\ JsonFails("invalid literal")
    BY <1>2
  <2>2. c # "end"
    BY Roles, SyntaxIs, Zenon
  <2>3. ctl = "value" /\ text[pos_] \in BadLiteral
    BY <2>1, <2>2, ValueNow
  <2>4. \A x : x \notin Values(text, Table(text), pos_, Len(stack))
    BY <2>3, State, NoValues
  <2> QED BY <2>1, <2>3, <2>4, NoValueFaithful
<1> QED
  BY <1>1, <1>2 DEF parse_literal

LEMMA InNumbers ==
  ASSUME NEW t, NEW p, NEW x
  PROVE  x \in Numbers(t, p) <=>
           \E j \in (p + 1)..(Len(t) + 1) :
             /\ IsNumber(t, p, j) /\ ~OutOfRange(SubSeq(t, p, j - 1))
             /\ x = <<j, [num |-> SubSeq(t, p, j - 1)]>>
BY Zenon DEF Numbers

LEMMA WorthlessFaithful ==
  ASSUME JsonInv, MeansInv, ctl = "value", NEW msg, JsonFails(msg),
         \A v0 : ~Valued(text, stack, pos_, v0)
  PROVE  Faithful
<1>1. \A v0 : ~Leads(text, ctl, pos_, stack, str, out, v0)
  BY LeadsIs, Zenon
<1> QED
  BY <1>1, FailsFaithful

LEMMA NumberFaithful == JsonInv /\ MeansInv /\ parse_number => Faithful
<1> SUFFICES ASSUME JsonInv, MeansInv, parse_number PROVE Faithful
  OBVIOUS
<1> DEFINE e == Exponent(Fraction(Whole(pos_)))
           number == SubSeq(text, pos_, e - 1)
           n == Len(stack)
<1>1. /\ ctl = "value" /\ n <= kMaxDepth /\ At(pos_) # "end"
      /\ At(pos_) \notin {OpenBracket, OpenBrace, Quote}
      /\ At(pos_) \notin {"true", "false", "null"}
  BY Zenon DEF parse_number, OpenBracket, OpenBrace, Quote, Depth
<1>2. /\ JsonTypeOK /\ text \in Seq(STRING) /\ n \in Nat /\ pos_ \in Nat \ {0} /\ Len(text) \in Nat
  BY State DEF JsonInv
<1>3. pos_ \in 1..Len(text) /\ At(pos_) = text[pos_]
  BY <1>1, <1>2, AtNow
<1>4. \A x : x \in Values(text, Table(text), pos_, n) <=> x \in Numbers(text, pos_)
  BY <1>1, <1>2, <1>3, NumberValues
<1>5. ASSUME NEW j \in (pos_ + 1)..(Len(text) + 1), NEW v, NEW v0,
             IsNumber(text, pos_, j), Outer(text, stack, n, j, v, v0)
      PROVE  Whole(pos_) # Signed(pos_) /\ j = e
  <2>1. j \in 1..(Len(text) + 1) /\ j \in (pos_ + 1)..End
    BY <1>2 DEF End
  <2>2. Follows(text, j)
    BY <1>2, <1>5, <2>1, OuterFollows
  <2> QED BY <1>2, <1>5, <2>1, <2>2, NumberEnds
<1> DEFINE G(j, v0) == Outer(text, stack, n, j, [num |-> SubSeq(text, pos_, j - 1)], v0)
           Fine(j) == IsNumber(text, pos_, j) /\ ~OutOfRange(SubSeq(text, pos_, j - 1))
           J == (pos_ + 1)..(Len(text) + 1)
<1>6. \A v0 : Valued(text, stack, pos_, v0) <=> \E j \in J : Fine(j) /\ G(j, v0)
  <2> DEFINE F(j) == <<j, [num |-> SubSeq(text, pos_, j - 1)]>>
             H(q, w, v0) == Outer(text, stack, n, q, w, v0)
             V == Values(text, Table(text), pos_, n)
  <2>1. \A j, v0 : H(F(j)[1], F(j)[2], v0) <=> G(j, v0)
    OBVIOUS
  <2>2. \A x : x \in V <=> \E j \in J : Fine(j) /\ x = F(j)
    BY <1>4, InNumbers, Zenon
  <2>3. \A v0 : Valued(text, stack, pos_, v0) <=> \E x \in V : H(x[1], x[2], v0)
    BY Zenon DEF Valued
  <2> HIDE DEF F, H, V, G, Fine, J
  <2> QED BY <2>1, <2>2, <2>3, Zenon
<1>7. \A v0 : \A j \in J : Fine(j) /\ G(j, v0) => Whole(pos_) # Signed(pos_) /\ j = e
  BY <1>5, Zenon
<1>8. CASE Whole(pos_) = Signed(pos_)
  <2>1. JsonFails("invalid number")
    BY <1>8 DEF parse_number
  <2>2. \A v0 : ~Valued(text, stack, pos_, v0)
    BY <1>6, <1>7, <1>8, Zenon
  <2>3. ctl = "value"
    BY <1>1
  <2> QED BY <2>1, <2>2, <2>3, WorthlessFaithful
<1>9. CASE Whole(pos_) # Signed(pos_) /\ OutOfRange(number)
  <2>1. JsonFails("number out of range")
    BY <1>9 DEF parse_number
  <2>0. ~Fine(e)
    BY <1>9, Zenon
  <2> HIDE DEF G, Fine, J
  <2>2. \A v0 : ~Valued(text, stack, pos_, v0)
    <3>1. \A v0 : \A j \in J : ~(Fine(j) /\ G(j, v0))
      BY <1>7, <2>0
    <3> QED BY <1>6, <3>1, Zenon
  <2>3. ctl = "value"
    BY <1>1
  <2> QED BY <2>1, <2>2, <2>3, WorthlessFaithful
<1>10. CASE Whole(pos_) # Signed(pos_) /\ ~OutOfRange(number)
  <2>1. JsonReturns([num |-> number], e) /\ UNCHANGED stack
    BY <1>10 DEF parse_number
  <2>2. IsNumber(text, pos_, e) /\ e \in J
    BY <1>2, <1>10, NumberIs DEF End
  <2>3. Fine(e)
    BY <1>10, <2>2, Zenon
  <2> HIDE DEF G, Fine, J
  <2>4. \A v0 : Valued(text, stack, pos_, v0) <=> G(e, v0)
    BY <1>6, <1>7, <2>2, <2>3, Zenon
  <2>5. \A v0 : Leads(text, ctl, pos_, stack, str, out, v0) <=>
                Outer(text, stack, Len(stack), e, [num |-> number], v0)
    BY <1>1, <2>4, LeadsIs, Zenon DEF G
  <2> QED BY <2>1, <2>5, ReturnsFaithful
<1> QED
  BY <1>8, <1>9, <1>10, Zenon

----------------------------------------------------------------------------
(* Step by step: brackets and strings *)

LEMMA PushedFaithful ==
  ASSUME JsonInv, MeansInv, NEW f, "arr" \in DOMAIN f => IsList(f.arr),
         stack' = Append(stack, f)
  PROVE  /\ ArraysAreLists(stack')
         /\ Len(stack') = Len(stack) + 1 /\ stack'[Len(stack) + 1] = f
         /\ \A k \in 1..Len(stack) : stack'[k] = stack[k]
<1>1. /\ Len(stack) \in Nat /\ DOMAIN stack = 1..Len(stack)
      /\ Len(stack') = Len(stack) + 1
      /\ DOMAIN stack' = 1..(Len(stack) + 1)
      /\ \A k \in 1..Len(stack) : stack'[k] = stack[k]
      /\ stack'[Len(stack) + 1] = f
  BY State, Pushed
<1>2. ArraysAreLists(stack)
  BY DEF MeansInv
<1>3. ASSUME NEW k \in DOMAIN stack', "arr" \in DOMAIN stack'[k] PROVE IsList(stack'[k].arr)
  <2>1. CASE k \in 1..Len(stack)
    BY <1>1, <1>2, <1>3, <2>1, Zenon DEF ArraysAreLists
  <2>2. CASE k = Len(stack) + 1
    BY <1>1, <1>3, <2>2, Zenon
  <2>3. k \in 1..Len(stack) \/ k = Len(stack) + 1
    BY <1>1
  <2> QED BY <2>1, <2>2, <2>3
<1> QED
  BY <1>1, <1>3, Zenon DEF ArraysAreLists

LEMMA OpenArrayFaithful == JsonInv /\ MeansInv /\ OpenArray => Faithful
<1> SUFFICES ASSUME JsonInv, MeansInv, OpenArray PROVE Faithful
  OBVIOUS
<1> DEFINE i == skip_ws(pos_ + 1)
           f == [arr |-> <<>>]
<1>1. Open(OpenBracket, CloseBracket, f, f, "value")
  BY Zenon DEF OpenArray, OpenBracket, CloseBracket
<1>2. /\ ctl = "value" /\ Len(stack) \in Nat /\ Len(stack) <= kMaxDepth
      /\ pos_ \in 1..Len(text) /\ text[pos_] = OpenBracket
      /\ pos_ + 1 \in 1..(Len(text) + 1)
  <2>1. ValueAt(OpenBracket) /\ OpenBracket # "end"
    BY <1>1, CharactersAreMarks, Zenon DEF Open
  <2> QED BY <2>1, ValueNow
<1>3. text \in Seq(STRING) /\ Skips(text, pos_ + 1, i) /\ i \in Nat \ {0}
  BY <1>2, State, SkipsNow
<1>4. At(i) = CloseBracket <=> Has(text, i, CloseBracket)
  BY <1>3, AtNow, CharactersAreMarks
<1> HIDE DEF i
<1>5. CASE At(i) = CloseBracket
  <2>1. JsonReturns(f, i + 1) /\ UNCHANGED stack
    BY <1>1, <1>5, Zenon DEF Open, i
  <2>2. Has(text, i, CloseBracket)
    BY <1>4, <1>5
  <2>3. \A x : x \in Values(text, Table(text), pos_, Len(stack)) <=> x = <<i + 1, f>>
    BY <1>2, <1>3, <2>2, NoneOpens
  <2> HIDE DEF f
  <2> QED BY <1>2, <2>1, <2>3, ValueFaithful
<1>6. CASE At(i) # CloseBracket
  <2>1. /\ stack' = Append(stack, f) /\ pos_' = i /\ ctl' = "value"
        /\ UNCHANGED <<text, str, out>>
    BY <1>1, <1>6, Zenon DEF Open, i
  <2>2. "arr" \in DOMAIN f => IsList(f.arr)
    BY Single
  <2>3. /\ ArraysAreLists(stack')
        /\ Len(stack') = Len(stack) + 1 /\ stack'[Len(stack) + 1] = f
        /\ \A k \in 1..Len(stack) : stack'[k] = stack[k]
    <3> HIDE DEF f
    <3> QED BY <2>1, <2>2, PushedFaithful
  <2>4. ~Has(text, i, CloseBracket)
    BY <1>4, <1>6
  <2>5. \A v0 : Valued(text, stack, pos_, v0) <=> Valued(text, stack', i, v0)
    BY <1>2, <1>3, <2>3, <2>4, ArrayOpens
  <2>6. \A v0 : Leads(text, ctl, pos_, stack, str, out, v0) <=> Valued(text, stack, pos_, v0)
    BY <1>2, LeadsIs, Zenon
  <2>7. \A v0 : Leads(text, ctl', pos_', stack', str', out', v0) <=> Valued(text, stack', i, v0)
    <3>1. pos_' = i
      BY <2>1
    <3>2. ctl' = "value"
      BY <2>1
    <3> QED BY <3>1, <3>2, LeadsIs
  <2>8. \A v0 : Leads(text, ctl, pos_, stack, str, out, v0) <=>
                Leads(text, ctl', pos_', stack', str', out', v0)
    BY <2>5, <2>6, <2>7, Zenon
  <2>9. IsList(str') /\ text' = text /\ ctl' # "start"
    BY <2>1 DEF MeansInv
  <2> QED BY <2>3, <2>8, <2>9, Zenon DEF Faithful
<1> QED
  BY <1>5, <1>6

LEMMA OpenObjectFaithful == JsonInv /\ MeansInv /\ OpenObject => Faithful
<1> SUFFICES ASSUME JsonInv, MeansInv, OpenObject PROVE Faithful
  OBVIOUS
<1> DEFINE i == skip_ws(pos_ + 1)
           e == [obj |-> <<>>]
           f == [obj |-> <<>>, key |-> <<>>]
<1>1. Open(OpenBrace, CloseBrace, e, f, "key")
  BY Zenon DEF OpenObject, OpenBrace, CloseBrace
<1>2. /\ ctl = "value" /\ Len(stack) \in Nat /\ Len(stack) <= kMaxDepth
      /\ pos_ \in 1..Len(text) /\ text[pos_] = OpenBrace
      /\ pos_ + 1 \in 1..(Len(text) + 1)
  <2>1. ValueAt(OpenBrace) /\ OpenBrace # "end"
    BY <1>1, CharactersAreMarks, Zenon DEF Open
  <2> QED BY <2>1, ValueNow
<1>3. text \in Seq(STRING) /\ Skips(text, pos_ + 1, i) /\ i \in Nat \ {0}
  BY <1>2, State, SkipsNow
<1>4. At(i) = CloseBrace <=> Has(text, i, CloseBrace)
  BY <1>3, AtNow, CharactersAreMarks
<1> HIDE DEF i
<1>5. CASE At(i) = CloseBrace
  <2>1. JsonReturns(e, i + 1) /\ UNCHANGED stack
    BY <1>1, <1>5, Zenon DEF Open, i
  <2>2. Has(text, i, CloseBrace)
    BY <1>4, <1>5
  <2>3. \A x : x \in Values(text, Table(text), pos_, Len(stack)) <=> x = <<i + 1, e>>
    BY <1>2, <1>3, <2>2, NoneOpens
  <2> HIDE DEF e
  <2> QED BY <1>2, <2>1, <2>3, ValueFaithful
<1>6. CASE At(i) # CloseBrace
  <2>1. /\ stack' = Append(stack, f) /\ pos_' = i /\ ctl' = "key"
        /\ UNCHANGED <<text, str, out>>
    BY <1>1, <1>6, Zenon DEF Open, i
  <2>2. ("arr" \in DOMAIN f => IsList(f.arr)) /\ f.obj = <<>>
    OBVIOUS
  <2>3. /\ ArraysAreLists(stack')
        /\ Len(stack') = Len(stack) + 1 /\ stack'[Len(stack) + 1] = f
        /\ \A k \in 1..Len(stack) : stack'[k] = stack[k]
    <3> HIDE DEF f
    <3> QED BY <2>1, <2>2, PushedFaithful
  <2>4. ~Has(text, i, CloseBrace)
    BY <1>4, <1>6
  <2>5. \A v0 : Valued(text, stack, pos_, v0) <=> Keyed(text, stack', i, v0)
    <3> HIDE DEF f
    <3> QED BY <1>2, <1>3, <2>2, <2>3, <2>4, ObjectOpens
  <2>6. \A v0 : Leads(text, ctl, pos_, stack, str, out, v0) <=> Valued(text, stack, pos_, v0)
    BY <1>2, LeadsIs, Zenon
  <2>7. \A v0 : Leads(text, ctl', pos_', stack', str', out', v0) <=> Keyed(text, stack', i, v0)
    <3>1. pos_' = i
      BY <2>1
    <3>2. ctl' = "key"
      BY <2>1
    <3> QED BY <3>1, <3>2, LeadsIs
  <2>8. \A v0 : Leads(text, ctl, pos_, stack, str, out, v0) <=>
                Leads(text, ctl', pos_', stack', str', out', v0)
    BY <2>5, <2>6, <2>7, Zenon
  <2>9. IsList(str') /\ text' = text /\ ctl' # "start"
    BY <2>1 DEF MeansInv
  <2> QED BY <2>3, <2>8, <2>9, Zenon DEF Faithful
<1> QED
  BY <1>5, <1>6

LEMMA StringFaithful == JsonInv /\ MeansInv /\ parse_string => Faithful
<1> SUFFICES ASSUME JsonInv, MeansInv, parse_string PROVE Faithful
  OBVIOUS
<1>0. /\ text \in Seq(STRING) /\ pos_ \in Nat \ {0} /\ pos_ \in 1..(Len(text) + 1)
      /\ Len(stack) \in Nat
  BY State
<1>1. \/ /\ ctl' = IF ctl = "key" THEN "keystring" ELSE "string"
         /\ str' = <<>> /\ pos_' = pos_ + 1 /\ UNCHANGED <<text, stack, out>>
         /\ ValueAt(Quote) \/ (ctl = "key" /\ At(pos_) = Quote)
      \/ ctl = "key" /\ At(pos_) # Quote /\ JsonFails("expected string")
  BY Zenon DEF parse_string, Quote
<1>2. ASSUME str' = <<>>, UNCHANGED <<text, stack, out>>, ctl' # "start",
             \A v0 : Leads(text, ctl, pos_, stack, str, out, v0) <=>
                     Leads(text, ctl', pos_', stack, <<>>, out, v0)
      PROVE  Faithful
  <2>1. IsList(str') /\ ArraysAreLists(stack')
    BY <1>2, Single DEF MeansInv
  <2> QED BY <1>2, <2>1, Zenon DEF Faithful
<1>3. CASE /\ ctl' = IF ctl = "key" THEN "keystring" ELSE "string"
           /\ str' = <<>> /\ pos_' = pos_ + 1 /\ UNCHANGED <<text, stack, out>>
           /\ ValueAt(Quote)
  <2>1. /\ ctl = "value" /\ Len(stack) <= kMaxDepth
        /\ pos_ \in 1..Len(text) /\ text[pos_] = Quote
    BY <1>3, ValueNow, CharactersAreMarks
  <2>2. \A v0 : Valued(text, stack, pos_, v0) <=> Spell(text, stack, pos_ + 1, <<>>, v0)
    BY <1>0, <2>1, StringBegins
  <2>3. ctl' = "string" /\ pos_' = pos_ + 1
    BY <1>3, <2>1
  <2>4. \A v0 : Leads(text, ctl, pos_, stack, str, out, v0) <=>
                Leads(text, ctl', pos_', stack, <<>>, out, v0)
    BY <2>1, <2>2, <2>3, LeadsIs, Zenon
  <2> QED BY <1>2, <1>3, <2>3, <2>4
<1>4. CASE /\ ctl' = IF ctl = "key" THEN "keystring" ELSE "string"
           /\ str' = <<>> /\ pos_' = pos_ + 1 /\ UNCHANGED <<text, stack, out>>
           /\ ctl = "key" /\ At(pos_) = Quote
  <2>1. pos_ \in 1..Len(text) /\ text[pos_] = Quote
    BY <1>0, <1>4, AtNow, CharactersAreMarks
  <2>2. \A v0 : Keyed(text, stack, pos_, v0) <=> SpellKey(text, stack, pos_ + 1, <<>>, v0)
    BY <1>0, <2>1, KeyBegins
  <2>3. ctl = "key" /\ ctl' = "keystring" /\ pos_' = pos_ + 1
    BY <1>4
  <2>4. \A v0 : Leads(text, ctl, pos_, stack, str, out, v0) <=>
                Leads(text, ctl', pos_', stack, <<>>, out, v0)
    BY <2>2, <2>3, LeadsIs, Zenon
  <2> QED BY <1>2, <1>4, <2>3, <2>4
<1>5. CASE ctl = "key" /\ At(pos_) # Quote /\ JsonFails("expected string")
  <2>1. ~Has(text, pos_, Quote)
    BY <1>0, <1>5, AtNow, CharactersAreMarks
  <2>2. \A v0 : ~Keyed(text, stack, pos_, v0)
    BY <1>0, <2>1, KeyFails
  <2>3. \A v0 : ~Leads(text, ctl, pos_, stack, str, out, v0)
    <3>1. ctl = "key"
      BY <1>5
    <3> QED BY <2>2, <3>1, LeadsIs, Zenon
  <2> QED BY <1>5, <2>3, FailsFaithful
<1> QED
  BY <1>1, <1>3, <1>4, <1>5

----------------------------------------------------------------------------
(* Step by step: the characters of a string *)

LEMMA QuoteOrBackslash ==
  ASSUME NEW t, NEW p, Has(t, p, Backslash)
  PROVE  /\ ~Has(t, p, Quote)
         /\ \A c : Has(t, p, c) => c = Quote \/ c = Backslash
BY HasOnce, Distinct, Zenon

LEMMA NoEnd ==
  /\ "end" \notin DOMAIN Bytes /\ "end" \notin DOMAIN Escapes /\ "end" \notin DOMAIN Unit
  /\ "u" \notin DOMAIN Escapes /\ "u" # "end"
BY JsonAssumption

LEMMA PlainFaithful == JsonInv /\ MeansInv /\ PlainCharacter => Faithful
<1> SUFFICES ASSUME JsonInv, MeansInv, PlainCharacter PROVE Faithful
  OBVIOUS
<1> DEFINE c == At(pos_)
<1>1. InString /\ c \in DOMAIN Bytes /\ c # Quote /\ c # Backslash /\ Reads(Bytes[c], pos_ + 1)
  BY Zenon DEF PlainCharacter, Quote, Backslash
<1>2. pos_ \in Nat \ {0}
  BY State
<1>3. Has(text, pos_, c)
  BY <1>1, <1>2, NoEnd, AtNow, Zenon
<1> HIDE DEF c
<1>4. ~Has(text, pos_, Quote)
  BY <1>1, <1>3, HasOnce, Zenon
<1>5. Characters(text, pos_) = {<<pos_ + 1, Bytes[c]>>}
  BY <1>1, <1>3, PlainCharacters, Zenon
<1> QED
  BY <1>1, <1>4, <1>5, ReadsFaithful, Zenon

\* An escape begins at pos_.
LEMMA EscapeNow ==
  ASSUME JsonInv, At(pos_) = Backslash
  PROVE  /\ Has(text, pos_, Backslash) /\ ~Has(text, pos_, Quote)
         /\ pos_ + 1 \in Nat \ {0} /\ pos_ + 2 \in Nat \ {0}
         /\ pos_ + 3 \in Nat \ {0} /\ pos_ + 4 \in Nat \ {0} /\ pos_ + 5 \in Nat \ {0}
<1>1. pos_ \in Nat \ {0}
  BY State
<1>2. Has(text, pos_, Backslash)
  BY <1>1, AtNow, CharactersAreMarks, Zenon
<1> QED
  BY <1>1, <1>2, QuoteOrBackslash

LEMMA SimpleEscapeFaithful == JsonInv /\ MeansInv /\ SimpleEscape => Faithful
<1> SUFFICES ASSUME JsonInv, MeansInv, SimpleEscape PROVE Faithful
  OBVIOUS
<1> DEFINE c == At(pos_ + 1)
<1>1. InString /\ At(pos_) = Backslash /\ c \in DOMAIN Escapes /\ Reads(Escapes[c], pos_ + 2)
  BY Zenon DEF SimpleEscape, Backslash
<1>2. Has(text, pos_, Backslash) /\ ~Has(text, pos_, Quote) /\ pos_ + 1 \in Nat \ {0}
  BY <1>1, EscapeNow, Zenon
<1>3. Has(text, pos_ + 1, c)
  BY <1>1, <1>2, NoEnd, AtNow, Zenon
<1> HIDE DEF c
<1>4. Characters(text, pos_) = {<<pos_ + 2, Escapes[c]>>}
  BY <1>1, <1>2, <1>3, EscapeCharacters, Zenon
<1> QED
  BY <1>1, <1>2, <1>4, ReadsFaithful, Zenon

LEMMA BadEscapeFaithful == JsonInv /\ MeansInv /\ BadEscape => Faithful
<1> SUFFICES ASSUME JsonInv, MeansInv, BadEscape PROVE Faithful
  OBVIOUS
<1>1. /\ InString /\ At(pos_) = Backslash /\ JsonFails("invalid escape sequence")
      /\ At(pos_ + 1) \notin DOMAIN Escapes /\ At(pos_ + 1) # "u"
  BY Zenon DEF BadEscape, Backslash
<1>2. Has(text, pos_, Backslash) /\ ~Has(text, pos_, Quote) /\ pos_ + 1 \in Nat \ {0}
  BY <1>1, EscapeNow, Zenon
<1>3. \A c \in DOMAIN Escapes : ~Has(text, pos_ + 1, c)
  BY <1>1, <1>2, NoEnd, AtNow, Zenon
<1>4. ~Has(text, pos_ + 1, "u")
  BY <1>1, <1>2, NoEnd, AtNow, Zenon
<1>5. Characters(text, pos_) = {}
  BY <1>2, <1>3, <1>4, QuoteOrBackslash, NoCharacters, Zenon
<1> QED
  BY <1>1, <1>2, <1>5, DiesFaithful, Zenon

LEMMA UnterminatedFaithful == JsonInv /\ MeansInv /\ Unterminated => Faithful
<1> SUFFICES ASSUME JsonInv, MeansInv, Unterminated PROVE Faithful
  OBVIOUS
<1>1. /\ InString /\ JsonFails("unterminated string")
      /\ At(pos_) = "end" \/ (At(pos_) = Backslash /\ At(pos_ + 1) = "end")
  BY Zenon DEF Unterminated, Backslash
<1>2. CASE At(pos_) = "end"
  <2>1. pos_ \in Nat \ {0}
    BY State
  <2>2. ~Has(text, pos_, Quote) /\ ~Has(text, pos_, Backslash)
    BY <1>2, <2>1, CharactersAreMarks, AtNow, Zenon
  <2>3. \A c \in DOMAIN Bytes : ~Has(text, pos_, c)
    BY <1>2, <2>1, NoEnd, AtNow, Zenon
  <2>4. Characters(text, pos_) = {}
    BY <2>2, <2>3, NoCharacters, Zenon
  <2> QED BY <1>1, <2>2, <2>4, DiesFaithful, Zenon
<1>3. CASE At(pos_) = Backslash /\ At(pos_ + 1) = "end"
  <2>1. Has(text, pos_, Backslash) /\ ~Has(text, pos_, Quote) /\ pos_ + 1 \in Nat \ {0}
    BY <1>3, EscapeNow, Zenon
  <2>2. \A c : c # "end" => ~Has(text, pos_ + 1, c)
    BY <1>3, <2>1, AtNow, Zenon
  <2>3. Characters(text, pos_) = {}
    BY <2>1, <2>2, NoEnd, QuoteOrBackslash, NoCharacters, Zenon
  <2> QED BY <1>1, <2>1, <2>3, DiesFaithful, Zenon
<1> QED
  BY <1>1, <1>2, <1>3, Zenon

LEMMA NoPairs ==
  ASSUME NEW t, NEW p,
         \/ \A h \in Units(t, p) : ~IsHigh(h)
         \/ \A l \in Units(t, p + 3) : ~IsLow(l)
  PROVE  Pairs(t, p) = {}
<1>1. \A x : x \notin Pairs(t, p)
  BY InPairs, Zenon
<1> QED
  BY <1>1, Zenon

\* The low half of a pair that begins at p, if four digits are there.
LEMMA NextUnits ==
  ASSUME JsonInv, NEW p \in Nat \ {0}
  PROVE  /\ ~(At(p) = Backslash /\ At(p + 1) = "u" /\ At(p + 2) \in DOMAIN Unit) => Units(text, p) = {}
         /\ At(p) = Backslash /\ At(p + 1) = "u" /\ At(p + 2) \in DOMAIN Unit =>
              /\ Has(text, p, Backslash) /\ Has(text, p + 1, "u") /\ Has(text, p + 2, At(p + 2))
              /\ Units(text, p) = {Unit[At(p + 2)]}
<1>1. p + 1 \in Nat \ {0} /\ p + 2 \in Nat \ {0}
  OBVIOUS
<1>2. At(p) = Backslash <=> Has(text, p, Backslash)
  BY AtNow, CharactersAreMarks
<1>3. At(p + 1) = "u" <=> Has(text, p + 1, "u")
  BY <1>1, NoEnd, AtNow, Zenon
<1>4. \A q \in DOMAIN Unit : At(p + 2) = q <=> Has(text, p + 2, q)
  BY <1>1, NoEnd, AtNow, Zenon
<1>5. ASSUME ~(At(p) = Backslash /\ At(p + 1) = "u" /\ At(p + 2) \in DOMAIN Unit)
      PROVE  Units(text, p) = {}
  <2>1. ~(Has(text, p, Backslash) /\ Has(text, p + 1, "u") /\ \E q \in DOMAIN Unit : Has(text, p + 2, q))
    BY <1>2, <1>3, <1>4, <1>5, Zenon
  <2> QED BY <2>1, NoUnits, Zenon
<1>6. ASSUME At(p) = Backslash, At(p + 1) = "u", At(p + 2) \in DOMAIN Unit
      PROVE  /\ Has(text, p, Backslash) /\ Has(text, p + 1, "u") /\ Has(text, p + 2, At(p + 2))
             /\ Units(text, p) = {Unit[At(p + 2)]}
  <2>1. Has(text, p, Backslash) /\ Has(text, p + 1, "u") /\ Has(text, p + 2, At(p + 2))
    BY <1>2, <1>3, <1>4, <1>6, Zenon
  <2> QED BY <1>6, <2>1, UnitsAre, Zenon
<1> QED
  BY <1>5, <1>6, Zenon

LEMMA UnicodeFaithful == JsonInv /\ MeansInv /\ UnicodeEscape => Faithful
<1> SUFFICES ASSUME JsonInv, MeansInv, UnicodeEscape PROVE Faithful
  OBVIOUS
<1> DEFINE q == At(pos_ + 2)
           next == pos_ + 3
           low == At(next + 2)
           Pair == IsHigh(Unit[q]) /\ At(next) = Backslash /\ At(next + 1) = "u"
<1>1. /\ InString /\ At(pos_) = Backslash /\ At(pos_ + 1) = "u"
      /\ IF ~IsHex4(q) THEN JsonFails("invalid \\u escape")
         ELSE IF ~Pair THEN Reads(append_utf8(Unit[q]), next)
         ELSE IF ~IsHex4(low) THEN Reads(append_utf8(Unit[q]), next)
         ELSE IF IsLow(Unit[low])
         THEN Reads(append_utf8(Combined(Unit[q], Unit[low])), next + 3)
         ELSE Reads(append_utf8(Unit[q]), next)
  BY Zenon DEF UnicodeEscape, Backslash, Resume
<1>2. /\ Has(text, pos_, Backslash) /\ ~Has(text, pos_, Quote)
      /\ pos_ \in Nat \ {0} /\ next \in Nat \ {0}
  BY <1>1, EscapeNow, State
<1>3. Has(text, pos_ + 1, "u")
  <2>1. pos_ + 1 \in Nat \ {0}
    BY <1>2
  <2> QED BY <1>1, <2>1, NoEnd, AtNow, Zenon
<1>4. CASE ~IsHex4(q)
  <2>1. JsonFails("invalid \\u escape")
    BY <1>1, <1>4, Zenon
  <2>2. pos_ + 2 \in Nat \ {0}
    BY <1>2
  <2>3. \A e \in DOMAIN Unit : ~Has(text, pos_ + 2, e)
    BY <1>4, <2>2, NoEnd, AtNow, Zenon DEF IsHex4
  <2>4. \A c \in DOMAIN Escapes : ~Has(text, pos_ + 1, c)
    BY <1>3, NoEnd, HasOnce, Zenon
  <2>5. Characters(text, pos_) = {}
    BY <1>2, <2>3, <2>4, QuoteOrBackslash, NoCharacters, Zenon
  <2> QED BY <1>1, <1>2, <2>1, <2>5, DiesFaithful, Zenon
<1>5. ASSUME IsHex4(q)
      PROVE  q \in DOMAIN Unit /\ Has(text, pos_ + 2, q) /\ Units(text, pos_) = {Unit[q]}
  <2>1. q \in DOMAIN Unit
    BY <1>5, Zenon DEF IsHex4
  <2> QED BY <1>1, <1>2, <2>1, NextUnits, Zenon
<1>6. ASSUME IsHex4(q), Pairs(text, pos_) = {}, Reads(append_utf8(Unit[q]), next)
      PROVE  Faithful
  <2>1. Characters(text, pos_) = {<<next, append_utf8(Unit[q])>>}
    BY <1>2, <1>3, <1>5, <1>6, SingleUnit, Zenon
  <2> QED BY <1>1, <1>2, <1>6, <2>1, ReadsFaithful, Zenon
<1>7. next + 1 = pos_ + 4 /\ next + 2 = pos_ + 5 /\ next + 3 = pos_ + 6
  BY <1>2
<1>8. CASE IsHex4(q) /\ ~Pair
  <2>1. Reads(append_utf8(Unit[q]), next)
    BY <1>1, <1>8, Zenon
  <2>2. Pairs(text, pos_) = {}
    <3>1. CASE ~IsHigh(Unit[q])
      <4>1. \A h \in Units(text, pos_) : ~IsHigh(h)
        BY <1>5, <1>8, <3>1
      <4> QED BY <4>1, NoPairs, Zenon
    <3>2. CASE IsHigh(Unit[q])
      <4>1. Units(text, next) = {}
        BY <1>2, <1>8, <3>2, NextUnits, Zenon
      <4> QED BY <4>1, NoPairs, Zenon
    <3> QED BY <3>1, <3>2, Zenon
  <2> QED BY <1>6, <1>8, <2>1, <2>2, Zenon
<1>9. CASE IsHex4(q) /\ Pair /\ ~IsHex4(low)
  <2>1. Reads(append_utf8(Unit[q]), next)
    BY <1>1, <1>9, Zenon
  <2>2. Units(text, next) = {}
    BY <1>2, <1>9, NextUnits, Zenon DEF IsHex4
  <2>3. Pairs(text, pos_) = {}
    BY <2>2, NoPairs, Zenon
  <2> QED BY <1>6, <1>9, <2>1, <2>3, Zenon
<1>10. CASE IsHex4(q) /\ Pair /\ IsHex4(low)
  <2>1. low \in DOMAIN Unit /\ Units(text, next) = {Unit[low]}
    BY <1>2, <1>10, NextUnits, Zenon DEF IsHex4
  <2>2. CASE IsLow(Unit[low])
    <3>1. Reads(append_utf8(Combined(Unit[q], Unit[low])), next + 3)
      BY <1>1, <1>10, <2>2, Zenon
    <3>2. Characters(text, pos_) = {<<pos_ + 6, append_utf8(Combined(Unit[q], Unit[low]))>>}
      <4>1. /\ Has(text, pos_, Backslash) /\ Has(text, pos_ + 1, "u")
            /\ q \in DOMAIN Unit /\ Has(text, pos_ + 2, q) /\ IsHigh(Unit[q])
        BY <1>2, <1>3, <1>5, <1>10, Zenon
      <4>2. low \in DOMAIN Unit /\ Units(text, pos_ + 3) = {Unit[low]} /\ IsLow(Unit[low])
        BY <2>1, <2>2, Zenon
      <4> HIDE DEF q, low, next, Pair
      <4> QED BY <4>1, <4>2, PairOfUnits
    <3> QED BY <1>1, <1>2, <1>7, <3>1, <3>2, ReadsFaithful, Zenon
  <2>3. CASE ~IsLow(Unit[low])
    <3>1. Reads(append_utf8(Unit[q]), next)
      BY <1>1, <1>10, <2>3, Zenon
    <3>2. \A l \in Units(text, next) : ~IsLow(l)
      BY <2>1, <2>3
    <3>3. Pairs(text, pos_) = {}
      BY <3>2, NoPairs, Zenon
    <3> QED BY <1>6, <1>10, <3>1, <3>3, Zenon
  <2> QED BY <2>2, <2>3, Zenon
<1> QED
  BY <1>4, <1>8, <1>9, <1>10, Zenon

----------------------------------------------------------------------------
(* Step by step: the end of a string, of an entry and of the text *)

LEMMA StringEndsFaithful == JsonInv /\ MeansInv /\ StringEnds => Faithful
<1> SUFFICES ASSUME JsonInv, MeansInv, StringEnds PROVE Faithful
  OBVIOUS
<1>1. /\ ctl = "string" /\ At(pos_) = Quote
      /\ JsonReturns([str |-> str], pos_ + 1) /\ UNCHANGED stack
  BY Zenon DEF StringEnds, Quote
<1>2. text \in Seq(STRING) /\ pos_ \in 1..(Len(text) + 1) /\ pos_ \in Nat \ {0} /\ IsList(str)
  BY State DEF MeansInv
<1>3. Has(text, pos_, Quote)
  BY <1>1, <1>2, AtNow, CharactersAreMarks
<1>4. \A v0 : Spell(text, stack, pos_, str, v0) <=>
              Outer(text, stack, Len(stack), pos_ + 1, [str |-> str], v0)
  BY <1>2, <1>3, SpellEnds
<1>5. \A v0 : Leads(text, ctl, pos_, stack, str, out, v0) <=>
              Outer(text, stack, Len(stack), pos_ + 1, [str |-> str], v0)
  BY <1>1, <1>4, LeadsIs, Zenon
<1> QED
  BY <1>1, <1>5, ReturnsFaithful

\* The frame on top is replaced by f.
LEMMA ReplacedFaithful ==
  ASSUME JsonInv, MeansInv, stack # <<>>, NEW f, "arr" \in DOMAIN f => IsList(f.arr),
         stack' = Append(Popped, f)
  PROVE  /\ ArraysAreLists(stack') /\ Len(stack) \in Nat \ {0} /\ Len(stack) \in Depths
         /\ SameBelow(stack, stack', Len(stack))
         /\ stack'[Len(stack)] = f /\ Top = stack[Len(stack)]
<1> DEFINE n == Len(stack)
<1>1. /\ IsList(Popped)
      /\ n \in Nat \ {0} /\ DOMAIN stack = 1..n
      /\ Len(Popped) = n - 1
      /\ DOMAIN Popped = 1..(n - 1)
      /\ \A k \in 1..(n - 1) : Popped[k] = stack[k]
  BY State, Popping DEF Popped
<1>2. /\ Len(stack') = Len(Popped) + 1
      /\ DOMAIN stack' = 1..(Len(Popped) + 1)
      /\ \A k \in 1..Len(Popped) : stack'[k] = Popped[k]
      /\ stack'[Len(Popped) + 1] = f
  <2> DEFINE s == Popped
  <2>1. stack' = Append(s, f) /\ IsList(s)
    BY <1>1
  <2> HIDE DEF s
  <2>2. /\ Len(stack') = Len(s) + 1
        /\ DOMAIN stack' = 1..(Len(s) + 1)
        /\ \A k \in 1..Len(s) : stack'[k] = s[k]
        /\ stack'[Len(s) + 1] = f
    BY <2>1, Pushed
  <2> QED BY <2>2, Zenon DEF s
<1> HIDE DEF n
<1>3. Len(stack') = n /\ DOMAIN stack' = 1..n /\ stack'[n] = f
  BY <1>1, <1>2
<1>4. \A k \in 1..(n - 1) : stack'[k] = stack[k] /\ k \in 1..n
  BY <1>1, <1>2
<1>5. ArraysAreLists(stack)
  BY DEF MeansInv
<1>6. ASSUME NEW k \in DOMAIN stack', "arr" \in DOMAIN stack'[k] PROVE IsList(stack'[k].arr)
  <2>1. CASE k \in 1..(n - 1)
    BY <1>1, <1>4, <1>5, <1>6, <2>1, Zenon DEF ArraysAreLists
  <2>2. CASE k = n
    BY <1>3, <1>6, <2>2, Zenon
  <2>3. k \in 1..(n - 1) \/ k = n
    BY <1>1, <1>3
  <2> QED BY <2>1, <2>2, <2>3
<1>7. SameBelow(stack, stack', n)
  BY <1>3, <1>4, Zenon DEF SameBelow, n
<1>8. n \in Depths
  BY State DEF n
<1> QED
  BY <1>1, <1>3, <1>6, <1>7, <1>8, Zenon DEF ArraysAreLists, Top, n

LEMMA KeyEndsFaithful == JsonInv /\ MeansInv /\ KeyEnds => Faithful
<1> SUFFICES ASSUME JsonInv, MeansInv, KeyEnds PROVE Faithful
  OBVIOUS
<1> DEFINE i == skip_ws(pos_ + 1)
           f == [obj |-> Top.obj, key |-> str]
           n == Len(stack)
<1>1. /\ ctl = "keystring" /\ At(pos_) = Quote
      /\ IF At(i) # Colon THEN JsonFails("expected ':' after object key")
         ELSE /\ stack' = Append(Popped, f)
              /\ ctl' = "value" /\ pos_' = skip_ws(i + 1)
              /\ UNCHANGED <<text, err_, str, out>>
  BY Zenon DEF KeyEnds, Quote, Colon
<1>2. text \in Seq(STRING) /\ pos_ \in 1..(Len(text) + 1) /\ pos_ \in Nat \ {0} /\ IsList(str)
  BY State DEF MeansInv
<1>3. Has(text, pos_, Quote)
  BY <1>1, <1>2, AtNow, CharactersAreMarks
<1>4. pos_ + 1 \in 1..(Len(text) + 1)
  BY <1>2, <1>3 DEF Has
<1>5. Skips(text, pos_ + 1, i) /\ i \in Nat \ {0}
  BY <1>4, SkipsNow
<1>6. \A v0 : Leads(text, ctl, pos_, stack, str, out, v0) <=> KeyRead(text, stack, pos_ + 1, str, v0)
  <2>1. \A v0 : SpellKey(text, stack, pos_, str, v0) <=> KeyRead(text, stack, pos_ + 1, str, v0)
    BY <1>2, <1>3, SpellEnds
  <2>2. ctl = "keystring"
    BY <1>1, Zenon
  <2> QED BY <2>1, <2>2, LeadsIs, Zenon
<1>7. At(i) = Colon <=> Has(text, i, Colon)
  BY <1>5, AtNow, CharactersAreMarks
<1> HIDE DEF i
<1>8. CASE At(i) # Colon
  <2>1. JsonFails("expected ':' after object key")
    BY <1>1, <1>8, Zenon
  <2>2. ~Has(text, i, Colon)
    BY <1>7, <1>8, Zenon
  <2>3. \A v0 : ~KeyRead(text, stack, pos_ + 1, str, v0)
    BY <1>2, <1>4, <1>5, <2>2, NoColon
  <2>4. \A v0 : ~Leads(text, ctl, pos_, stack, str, out, v0)
    BY <1>6, <2>3, Zenon
  <2> QED BY <2>1, <2>4, FailsFaithful, Zenon
<1>9. CASE At(i) = Colon
  <2>1. stack' = Append(Popped, f)
    BY <1>1, <1>9, Zenon
  <2>2. ctl' = "value" /\ pos_' = skip_ws(i + 1) /\ text' = text /\ str' = str /\ out' = out
    BY <1>1, <1>9, Zenon
  <2>3. stack # <<>>
    <3>1. ctl = "keystring"
      BY <1>1, Zenon
    <3> QED BY <3>1 DEF JsonInv, JsonTypeOK
  <2>4. "arr" \notin DOMAIN f /\ f.key = str /\ f.obj = Top.obj
    OBVIOUS
  <2> HIDE DEF f
  <2>5. /\ ArraysAreLists(stack') /\ n \in Nat \ {0} /\ n \in Depths
        /\ SameBelow(stack, stack', n)
        /\ stack'[n] = f /\ Top = stack[n]
    BY <2>1, <2>3, <2>4, ReplacedFaithful
  <2>6. Has(text, i, Colon)
    BY <1>7, <1>9, Zenon
  <2>7. i + 1 \in 1..(Len(text) + 1)
    BY <1>2, <1>5, <2>6 DEF Has
  <2>8. Skips(text, i + 1, pos_')
    BY <2>2, <2>7, SkipsNow
  <2>9. stack'[n].key = str /\ stack'[n].obj = stack[n].obj /\ "arr" \notin DOMAIN stack'[n]
    BY <2>4, <2>5, Zenon
  <2>10. \A v0 : KeyRead(text, stack, pos_ + 1, stack'[n].key, v0) <=> Valued(text, stack', pos_', v0)
    <3> HIDE DEF n
    <3> QED BY <1>2, <1>4, <1>5, <2>5, <2>6, <2>8, <2>9, KeyGoesOn
  <2>11. \A v0 : KeyRead(text, stack, pos_ + 1, str, v0) <=> Valued(text, stack', pos_', v0)
    BY <2>9, <2>10
  <2>12. \A v0 : Leads(text, ctl', pos_', stack', str', out', v0) <=> Valued(text, stack', pos_', v0)
    <3>1. ctl' = "value"
      BY <2>2, Zenon
    <3> QED BY <3>1, LeadsIs
  <2>13. \A v0 : Leads(text, ctl, pos_, stack, str, out, v0) <=>
                 Leads(text, ctl', pos_', stack', str', out', v0)
    BY <1>6, <2>11, <2>12, Zenon
  <2>14. IsList(str') /\ ctl' # "start"
    BY <1>2, <2>2
  <2> QED BY <2>2, <2>5, <2>13, <2>14, Zenon DEF Faithful
<1> QED
  BY <1>8, <1>9

----------------------------------------------------------------------------
(* The loops: after an entry there is a comma, the end or neither *)

\* After the entry out of the innermost container, at depth n, comes a comma,
\* its end or neither; in the first case frame takes its place on the stack.
LEMMA EntryFaithful ==
  ASSUME JsonInv, MeansInv, ctl = "returned", stack # <<>>,
         NEW filled, NEW frame, NEW next, next \in {"value", "key"},
         NEW closing, closing \in {CloseBracket, CloseBrace},
         "arr" \in DOMAIN frame => IsList(frame.arr),
         Continue(filled, frame, next, closing),
         NEW n, n = Len(stack), NEW i, i = skip_ws(pos_),
         \A j : /\ Has(text, i, Comma) /\ Skips(text, i + 1, j)
                /\ SameBelow(stack, stack', n) /\ stack'[n] = frame
                => \A v0 : Outer(text, stack, n, pos_, out, v0) <=>
                           Leads(text, next, j, stack', str, out, v0),
         Has(text, i, closing) =>
           \A v0 : Outer(text, stack, n, pos_, out, v0) <=>
                   Outer(text, Popped, n - 1, i + 1, filled, v0),
         ~Has(text, i, Comma) /\ ~Has(text, i, closing) =>
           \A v0 : ~Outer(text, stack, n, pos_, out, v0)
  PROVE  Faithful
<1>1. /\ text \in Seq(STRING) /\ pos_ \in 1..(Len(text) + 1) /\ Len(text) \in Nat
      /\ Skips(text, pos_, i) /\ i \in Nat \ {0}
  BY State, SkipsNow
<1>2. (At(i) = Comma <=> Has(text, i, Comma)) /\ (At(i) = closing <=> Has(text, i, closing))
  <2>1. Comma # "end" /\ closing # "end"
    BY CharactersAreMarks, Zenon
  <2> QED BY <1>1, <2>1, AtNow, Zenon
<1>3. IF At(i) = Comma
      THEN /\ stack' = Append(Popped, frame)
           /\ ctl' = next /\ pos_' = skip_ws(i + 1)
           /\ UNCHANGED <<text, err_, str, out>>
      ELSE IF At(i) = closing
      THEN JsonReturns(filled, i + 1) /\ stack' = Popped
      ELSE JsonFails("expected ',' or the end of the container")
  BY Zenon DEF Continue, Comma
<1>4. \A v0 : Leads(text, ctl, pos_, stack, str, out, v0) <=> Outer(text, stack, n, pos_, out, v0)
  BY LeadsIs, Zenon
<1>5. CASE At(i) = Comma
  <2>1. stack' = Append(Popped, frame) /\ ctl' = next /\ pos_' = skip_ws(i + 1)
    BY <1>3, <1>5, Zenon
  <2>2. text' = text /\ str' = str /\ out' = out
    BY <1>3, <1>5, Zenon
  <2>3. ArraysAreLists(stack') /\ SameBelow(stack, stack', n) /\ stack'[n] = frame
    BY <2>1, ReplacedFaithful, Zenon
  <2>4. Has(text, i, Comma)
    BY <1>2, <1>5, Zenon
  <2>5. i + 1 \in 1..(Len(text) + 1)
    BY <1>1, <2>4 DEF Has
  <2>6. Skips(text, i + 1, pos_')
    BY <2>1, <2>5, SkipsNow
  <2>7. \A v0 : Outer(text, stack, n, pos_, out, v0) <=>
                Leads(text, next, pos_', stack', str, out, v0)
    BY <2>3, <2>4, <2>6, Zenon
  <2>8. \A v0 : Leads(text, ctl, pos_, stack, str, out, v0) <=>
                Leads(text, ctl', pos_', stack', str', out', v0)
    BY <1>4, <2>1, <2>2, <2>7, Zenon
  <2>9. IsList(str') /\ ctl' # "start"
    BY <2>1, <2>2 DEF MeansInv
  <2> QED BY <2>2, <2>3, <2>8, <2>9, Zenon DEF Faithful
<1>6. CASE At(i) # Comma /\ At(i) = closing
  <2>1. JsonReturns(filled, i + 1) /\ stack' = Popped
    BY <1>3, <1>6, Zenon
  <2>2. ctl' = "returned" /\ out' = filled /\ pos_' = i + 1 /\ text' = text /\ str' = str
    BY <2>1, Zenon DEF JsonReturns
  <2>3. /\ Len(Popped) = n - 1 /\ DOMAIN Popped = 1..(n - 1) /\ DOMAIN stack = 1..n /\ n \in Nat \ {0}
        /\ \A k \in 1..(n - 1) : Popped[k] = stack[k]
    BY State, Popping DEF Popped
  <2>4. ArraysAreLists(stack')
    <3>1. \A k \in 1..(n - 1) : k \in 1..n
      BY <2>3
    <3>2. ArraysAreLists(stack)
      BY DEF MeansInv
    <3> QED BY <2>1, <2>3, <3>1, <3>2, Zenon DEF ArraysAreLists
  <2>5. \A v0 : Outer(text, stack, n, pos_, out, v0) <=>
                Outer(text, stack', Len(stack'), i + 1, filled, v0)
    BY <1>2, <1>6, <2>1, <2>3, Zenon
  <2>6. \A v0 : Leads(text, ctl', pos_', stack', str', out', v0) <=>
                Outer(text, stack', Len(stack'), i + 1, filled, v0)
    <3>1. ctl' = "returned"
      BY <2>2, Zenon
    <3> QED BY <2>2, <3>1, LeadsIs
  <2>7. \A v0 : Leads(text, ctl, pos_, stack, str, out, v0) <=>
                Leads(text, ctl', pos_', stack', str', out', v0)
    BY <1>4, <2>5, <2>6, Zenon
  <2>8. IsList(str') /\ ctl' # "start"
    BY <2>2 DEF MeansInv
  <2> QED BY <2>2, <2>4, <2>7, <2>8, Zenon DEF Faithful
<1>7. CASE At(i) # Comma /\ At(i) # closing
  <2>1. JsonFails("expected ',' or the end of the container")
    BY <1>3, <1>7, Zenon
  <2>2. \A v0 : ~Outer(text, stack, n, pos_, out, v0)
    BY <1>2, <1>7, Zenon
  <2>3. \A v0 : ~Leads(text, ctl, pos_, stack, str, out, v0)
    BY <1>4, <2>2, Zenon
  <2> QED BY <2>1, <2>3, FailsFaithful, Zenon
<1> QED
  BY <1>5, <1>6, <1>7, Zenon

LEMMA ElementFaithful == JsonInv /\ MeansInv /\ TakeElement => Faithful
<1> SUFFICES ASSUME JsonInv, MeansInv, TakeElement PROVE Faithful
  OBVIOUS
<1> DEFINE n == Len(stack)
           i == skip_ws(pos_)
           a == Append(Top.arr, out)
           f == [arr |-> a]
<1>1. ctl = "returned" /\ stack # <<>> /\ IsArray
  BY DEF TakeElement
<1>2. Continue(f, f, "value", CloseBracket)
  BY Zenon DEF TakeElement, CloseBracket
<1>3. /\ text \in Seq(STRING) /\ pos_ \in 1..(Len(text) + 1) /\ Skips(text, pos_, i)
      /\ n \in Nat \ {0} /\ n \in Depths
      /\ Top = stack[n] /\ n \in DOMAIN stack /\ "arr" \in DOMAIN stack[n]
  <2>1. n \in Nat \ {0}
    BY <1>1, State, Popping
  <2> QED BY <1>1, <2>1, State, SkipsNow DEF Top, IsArray
<1>4. IsList(stack[n].arr) /\ IsList(a)
  <2>1. IsList(stack[n].arr)
    BY <1>3 DEF MeansInv, ArraysAreLists
  <2> QED BY <1>3, <2>1, Appended, Zenon
<1>5. f.arr = a /\ "arr" \in DOMAIN f /\ a = Append(stack[n].arr, out)
  BY <1>3
<1> HIDE DEF n, i
<1>6. ASSUME NEW j, Has(text, i, Comma), Skips(text, i + 1, j),
             SameBelow(stack, stack', n), stack'[n] = f
      PROVE  \A v0 : Outer(text, stack, n, pos_, out, v0) <=>
                     Leads(text, "value", j, stack', str, out, v0)
  <2> HIDE DEF f
  <2>1. stack'[n].arr = a /\ "arr" \in DOMAIN stack'[n]
    BY <1>5, <1>6, Zenon
  <2>2. stack'[n].arr = Append(stack[n].arr, out) /\ IsList(stack'[n].arr)
    BY <1>4, <1>5, <2>1, Zenon
  <2>3. \A v0 : Outer(text, stack, n, pos_, out, v0) <=> Valued(text, stack', j, v0)
    BY <1>3, <1>6, <2>1, <2>2, ArrayGoesOn, Zenon
  <2> QED BY <2>3, LeadsIs, Zenon
<1>7. ASSUME Has(text, i, CloseBracket)
      PROVE  \A v0 : Outer(text, stack, n, pos_, out, v0) <=>
                     Outer(text, Popped, n - 1, i + 1, f, v0)
  <2>1. \A k \in 1..(n - 1) : stack[k] = Popped[k]
    BY <1>1, State, Popping DEF Popped, n
  <2> DEFINE b == Append(stack[n].arr, out)
  <2>2. IsList(b) /\ f = [arr |-> b]
    BY <1>4, <1>5
  <2>3. \A v0 : Outer(text, stack, n, pos_, out, v0) <=>
                Outer(text, Popped, n - 1, i + 1, [arr |-> b], v0)
    <3> HIDE DEF f, a
    <3> QED BY <1>3, <1>7, <2>1, <2>2, ArrayEnds
  <2> HIDE DEF f, b
  <2> QED BY <2>2, <2>3, Zenon
<1>8. ASSUME ~Has(text, i, Comma), ~Has(text, i, CloseBracket)
      PROVE  \A v0 : ~Outer(text, stack, n, pos_, out, v0)
  BY <1>3, <1>8, ContainerBreaks
<1>9. n = Len(stack) /\ i = skip_ws(pos_)
  BY DEF n, i
<1> HIDE DEF f
<1> QED
  BY <1>1, <1>2, <1>4, <1>5, <1>6, <1>7, <1>8, <1>9, EntryFaithful, Zenon

LEMMA MemberFaithful == JsonInv /\ MeansInv /\ TakeMember => Faithful
<1> SUFFICES ASSUME JsonInv, MeansInv, TakeMember PROVE Faithful
  OBVIOUS
<1> DEFINE n == Len(stack)
           i == skip_ws(pos_)
           o == WithMember(Top.obj, Top.key, out)
           e == [obj |-> o]
           f == [obj |-> o, key |-> <<>>]
<1>1. ctl = "returned" /\ stack # <<>> /\ ~IsArray
  BY DEF TakeMember
<1>2. Continue(e, f, "key", CloseBrace)
  BY Zenon DEF TakeMember, CloseBrace
<1>3. /\ text \in Seq(STRING) /\ pos_ \in 1..(Len(text) + 1) /\ Skips(text, pos_, i)
      /\ n \in Nat \ {0} /\ n \in Depths
      /\ Top = stack[n] /\ "arr" \notin DOMAIN stack[n]
  <2>1. n \in Nat \ {0}
    BY <1>1, State, Popping
  <2> QED BY <1>1, <2>1, State, SkipsNow DEF Top, IsArray
<1>5. f.obj = o /\ "arr" \notin DOMAIN f /\ o = WithMember(stack[n].obj, stack[n].key, out)
  BY <1>3
<1> HIDE DEF n, i, o
<1>6. ASSUME NEW j, Has(text, i, Comma), Skips(text, i + 1, j),
             SameBelow(stack, stack', n), stack'[n] = f
      PROVE  \A v0 : Outer(text, stack, n, pos_, out, v0) <=>
                     Leads(text, "key", j, stack', str, out, v0)
  <2> HIDE DEF f
  <2>1. stack'[n].obj = WithMember(stack[n].obj, stack[n].key, out)
    BY <1>5, <1>6, Zenon
  <2>3. \A v0 : Outer(text, stack, n, pos_, out, v0) <=> Keyed(text, stack', j, v0)
    BY <1>3, <1>6, <2>1, ObjectGoesOn, Zenon
  <2> QED BY <2>3, LeadsIs, Zenon
<1>7. ASSUME Has(text, i, CloseBrace)
      PROVE  \A v0 : Outer(text, stack, n, pos_, out, v0) <=>
                     Outer(text, Popped, n - 1, i + 1, e, v0)
  <2>1. \A k \in 1..(n - 1) : stack[k] = Popped[k]
    BY <1>1, State, Popping DEF Popped, n
  <2> DEFINE w == WithMember(stack[n].obj, stack[n].key, out)
  <2>2. e = [obj |-> w]
    BY <1>5
  <2>3. \A v0 : Outer(text, stack, n, pos_, out, v0) <=>
                Outer(text, Popped, n - 1, i + 1, [obj |-> w], v0)
    <3> HIDE DEF f, e
    <3> QED BY <1>3, <1>7, <2>1, ObjectEnds
  <2> HIDE DEF e, w
  <2> QED BY <2>2, <2>3, Zenon
<1>8. ASSUME ~Has(text, i, Comma), ~Has(text, i, CloseBrace)
      PROVE  \A v0 : ~Outer(text, stack, n, pos_, out, v0)
  BY <1>3, <1>8, ContainerBreaks
<1>9. n = Len(stack) /\ i = skip_ws(pos_)
  BY DEF n, i
<1> HIDE DEF e, f
<1> QED
  BY <1>1, <1>2, <1>5, <1>6, <1>7, <1>8, <1>9, EntryFaithful, Zenon

LEMMA FinishedFaithful == JsonInv /\ MeansInv /\ Finished => Faithful
<1> SUFFICES ASSUME JsonInv, MeansInv, Finished PROVE Faithful
  OBVIOUS
<1>1. ctl = "returned" /\ stack = <<>> /\ pos_' = skip_ws(pos_)
  BY DEF Finished
<1>2. UNCHANGED <<text, stack, str, out>>
  BY DEF Finished
<1>3. IF pos_' = Len(text) + 1 THEN ctl' = "ok" ELSE ctl' = "failed"
  BY Zenon DEF Finished
<1>4. text \in Seq(STRING) /\ pos_ \in 1..(Len(text) + 1) /\ Len(text) \in Nat /\ Skips(text, pos_, pos_')
  BY <1>1, State, SkipsNow
<1>5. Len(text) + 1 \in Gaps(text, pos_) <=> pos_' = Len(text) + 1
  <2>1. ASSUME Len(text) + 1 \in Gaps(text, pos_) PROVE pos_' = Len(text) + 1
    <3>1. Skips(text, pos_, Len(text) + 1)
      BY <1>4, <2>1 DEF Skips
    <3> QED BY <1>4, <3>1, SkipsOnce
  <2>2. ASSUME pos_' = Len(text) + 1 PROVE Len(text) + 1 \in Gaps(text, pos_)
    BY <1>4, <2>2, Zenon DEF Skips
  <2> QED BY <2>1, <2>2
<1>6. \A v0 : Leads(text, ctl, pos_, stack, str, out, v0) <=>
              out = v0 /\ pos_' = Len(text) + 1
  <2>1. Len(stack) = 0 /\ ctl = "returned"
    BY <1>1
  <2>2. \A v0 : Outer(text, stack, 0, pos_, out, v0) <=> out = v0 /\ Len(text) + 1 \in Gaps(text, pos_)
    BY Outermost
  <2>3. \A v0 : Leads(text, ctl, pos_, stack, str, out, v0) <=> Outer(text, stack, 0, pos_, out, v0)
    BY <2>1, LeadsIs, Zenon
  <2> QED BY <1>5, <2>2, <2>3, Zenon
<1>7. \A v0 : Leads(text, ctl', pos_', stack', str', out', v0) <=>
              out = v0 /\ pos_' = Len(text) + 1
  <2>1. CASE pos_' = Len(text) + 1
    <3>1. ctl' = "ok" /\ out' = out
      BY <1>2, <1>3, <2>1
    <3> QED BY <2>1, <3>1, LeadsIs
  <2>2. CASE pos_' # Len(text) + 1
    <3>1. ctl' = "failed"
      BY <1>3, <2>2
    <3> QED BY <2>2, <3>1, LeadsIs
  <2> QED BY <2>1, <2>2, Zenon
<1>8. \A v0 : Leads(text, ctl, pos_, stack, str, out, v0) <=>
              Leads(text, ctl', pos_', stack', str', out', v0)
  BY <1>6, <1>7, Zenon
<1>9. IsList(str') /\ ArraysAreLists(stack') /\ text' = text /\ ctl' # "start"
  BY <1>2, <1>3 DEF MeansInv
<1> QED
  BY <1>8, <1>9, Zenon DEF Faithful

----------------------------------------------------------------------------
(* The theorem *)

LEMMA StepFaithful == JsonInv /\ MeansInv /\ JsonStep => Faithful
BY ParseFaithful, TooDeepFaithful, EndOfInputFaithful, OpenArrayFaithful, OpenObjectFaithful,
   LiteralFaithful, NumberFaithful, StringFaithful, PlainFaithful, SimpleEscapeFaithful,
   BadEscapeFaithful, UnicodeFaithful, UnterminatedFaithful, StringEndsFaithful,
   KeyEndsFaithful, ElementFaithful, MemberFaithful, FinishedFaithful, Zenon DEF JsonStep

LEMMA MeansInvStarts ==
  ASSUME NEW t, JsonInit(t)
  PROVE  MeansInv
<1>1. text = t /\ pos_ = 1 /\ ctl = "start" /\ stack = <<>> /\ str = <<>>
  BY DEF JsonInit
<1>2. IsList(str) /\ ArraysAreLists(stack)
  <2>1. DOMAIN stack = {}
    BY <1>1
  <2> QED BY <1>1, <2>1, Single DEF ArraysAreLists
<1>3. \A v0 : v0 \in Meaning(text) <=> Leads(text, ctl, pos_, stack, str, out, v0)
  BY <1>1, LeadsIs, Zenon
<1> QED
  BY <1>1, <1>2, <1>3 DEF MeansInv

LEMMA MeansInvInit == JsonStart => MeansInv
BY MeansInvStarts DEF JsonStart

LEMMA MeansInvStutters ==
  ASSUME MeansInv, UNCHANGED jsonVars
  PROVE  MeansInv'
<1>1. UNCHANGED <<text, pos_, ctl, stack, str, out>>
  BY DEF jsonVars
<1> QED
  BY <1>1, Zenon DEF MeansInv

LEMMA MeansInvStep == JsonInv /\ MeansInv /\ [JsonNext]_jsonVars => MeansInv'
<1>1. JsonInv /\ MeansInv /\ JsonStep => MeansInv'
  BY StepFaithful, FaithfulKeeps, Zenon
<1> QED
  BY <1>1, MeansInvStutters DEF JsonNext

LEMMA MeaningIsFound ==
  ASSUME MeansInv
  PROVE  ParsesWhatIsMeant
<1>1. ASSUME ctl = "ok" PROVE Meaning(text) = {out}
  <2>1. \A v0 : v0 \in Meaning(text) <=> v0 = out
    <3>1. \A v0 : v0 \in Meaning(text) <=> Leads(text, "ok", pos_, stack, str, out, v0)
      BY <1>1 DEF MeansInv
    <3> QED BY <3>1, LeadsIs
  <2> QED BY <2>1
<1>2. ASSUME ctl = "failed" PROVE Meaning(text) = {}
  <2>1. \A v0 : v0 \notin Meaning(text)
    <3>1. \A v0 : v0 \in Meaning(text) <=> Leads(text, "failed", pos_, stack, str, out, v0)
      BY <1>2 DEF MeansInv
    <3> QED BY <3>1, LeadsIs
  <2> QED BY <2>1
<1> QED
  BY <1>1, <1>2 DEF ParsesWhatIsMeant

(* Whatever the text, the alphabets and the depth cap: the parser accepts  *)
(* the text exactly if the grammar gives it a meaning, that meaning is the *)
(* only one, and it is what parse() returns (json.cpp:12-178).             *)
THEOREM ParserIsRight == JsonSpec => []ParsesWhatIsMeant
<1>1. JsonStart => MeansInv
  BY MeansInvInit
<1>2. JsonInv /\ MeansInv /\ [JsonNext]_jsonVars => MeansInv'
  BY MeansInvStep
<1>3. MeansInv => ParsesWhatIsMeant
  BY MeaningIsFound
<1> QED
  BY <1>1, <1>2, <1>3, JsonInvariant, PTL DEF JsonSpec, JsonStart

----------------------------------------------------------------------------
(* A text that begins with another one: at no place can the two be read  *)
(* as different values, unless a number goes on in the longer one.         *)

Begins(t, u) == Len(t) <= Len(u) /\ \A i \in DOMAIN t : t[i] = u[i]

LEMMA HasMore ==
  ASSUME NEW t \in Seq(STRING), NEW u \in Seq(STRING), Begins(t, u), NEW i, NEW c, Has(t, i, c)
  PROVE  Has(u, i, c)
BY DEF Begins, Has

LEMMA HereIs ==
  ASSUME NEW t \in Seq(STRING), NEW u \in Seq(STRING), Begins(t, u), NEW i \in 1..Len(t)
  PROVE  i \in 1..Len(u) /\ t[i] = u[i] /\ \A c : Has(u, i, c) => Has(t, i, c)
BY DEF Begins, Has

LEMMA GapsMeet ==
  ASSUME NEW t \in Seq(STRING), NEW u \in Seq(STRING), Begins(t, u), NEW i \in 1..(Len(t) + 1),
         NEW k \in Gaps(t, i), k \in 1..Len(t), t[k] \notin Whitespace,
         NEW m \in Gaps(u, i), m \in 1..Len(u), u[m] \notin Whitespace
  PROVE  k = m
<1>1. i \in 1..(Len(u) + 1) /\ Len(u) \in Nat /\ Len(t) \in Nat
  BY DEF Begins
<1>2. Skips(u, i, m)
  BY Zenon DEF Skips
<1>3. k \in i..(Len(t) + 1) /\ \A j \in i..(k - 1) : t[j] \in Whitespace
  BY DEF Gaps, InRun
<1>4. \A j \in i..(k - 1) : u[j] \in Whitespace
  <2> SUFFICES ASSUME NEW j \in i..(k - 1) PROVE u[j] \in Whitespace
    OBVIOUS
  <2>1. j \in 1..Len(t)
    BY <1>1
  <2>2. t[j] = u[j]
    BY <2>1, HereIs
  <2> QED BY <2>2, <1>3
<1>5. u[k] = t[k] /\ k \in 1..Len(u)
  BY HereIs
<1>6. k \in i..(Len(u) + 1)
  BY <1>1, <1>3, <1>5
<1>7. k \in Gaps(u, i)
  BY <1>4, <1>6 DEF Gaps, InRun
<1>8. Skips(u, i, k)
  BY <1>5, <1>7, Zenon DEF Skips
<1> QED
  BY <1>1, <1>2, <1>8, SkipsOnce, Zenon

LEMMA MarksMeet ==
  ASSUME NEW t \in Seq(STRING), NEW u \in Seq(STRING), Begins(t, u), NEW i \in 1..(Len(t) + 1),
         NEW c \in Syntax, NEW k \in Marks(t, i, c), NEW e \in Syntax, NEW m \in Marks(u, i, e)
  PROVE  k = m /\ c = e
<1>1. k \in Gaps(t, i) /\ k \in DOMAIN t /\ t[k] = c
  BY Zenon DEF Marks, Has
<1>2. m \in Gaps(u, i) /\ m \in DOMAIN u /\ u[m] = e
  BY Zenon DEF Marks, Has
<1>3. c \notin Whitespace /\ e \notin Whitespace
  BY Roles, Zenon
<1>4. k = m
  BY <1>1, <1>2, <1>3, GapsMeet
<1> QED
  BY <1>1, <1>2, <1>4, HereIs

\* At p the two texts go on with the same phrases, if at all.
Alike(X, Y) == \A x \in X, y \in Y : x = y

Meets(t, u, p) ==
  /\ Alike(Table(t)[p].chars, Table(u)[p].chars)
  /\ \A d \in Depths : Alike(Table(t)[p].elements[d], Table(u)[p].elements[d])
  /\ \A d \in Depths : Alike(Table(t)[p].members[d], Table(u)[p].members[d])

MeetLater(t, u, p) == \A q \in (p + 1)..(Len(t) + 1) : Meets(t, u, q)

LEMMA CharactersMeet ==
  ASSUME NEW t \in Seq(STRING), NEW u \in Seq(STRING), Begins(t, u), NEW p \in 1..Len(t),
         NEW c \in Characters(t, p), NEW e \in Characters(u, p), NEW r \in CharsAt(t, c[1])
  PROVE  c = e
<1>1. CASE PlainAt(t, p, c)
  <2>1. PICK b \in DOMAIN Bytes \ {Quote, Backslash} : Has(t, p, b) /\ c = <<p + 1, Bytes[b]>>
    BY <1>1, Zenon DEF PlainAt
  <2>2. Has(u, p, b) /\ b \in DOMAIN Bytes /\ b # Quote /\ b # Backslash
    BY <2>1, HasMore, Zenon
  <2>3. Characters(u, p) = {<<p + 1, Bytes[b]>>}
    BY <2>2, PlainCharacters, Zenon
  <2> QED BY <2>1, <2>3
<1>2. CASE EscapeAt(t, p, c)
  <2>1. PICK b \in DOMAIN Escapes :
          Has(t, p, Backslash) /\ Has(t, p + 1, b) /\ c = <<p + 2, Escapes[b]>>
    BY <1>2, Zenon DEF EscapeAt
  <2>2. Has(u, p, Backslash) /\ Has(u, p + 1, b)
    BY <2>1, HasMore, Zenon
  <2>3. Characters(u, p) = {<<p + 2, Escapes[b]>>}
    BY <2>2, EscapeCharacters, Zenon
  <2> QED BY <2>1, <2>3
<1>3. ASSUME NEW z, UnitAt(t, p, z) \/ PairAt(t, p, z)
      PROVE  \E q \in DOMAIN Unit : /\ Has(t, p, Backslash) /\ Has(t, p + 1, "u") /\ Has(t, p + 2, q)
                                    /\ Has(u, p, Backslash) /\ Has(u, p + 1, "u") /\ Has(u, p + 2, q)
  <2>1. \E v : v \in Units(t, p)
    BY <1>3, InPairs, Zenon DEF UnitAt, PairAt
  <2> QED BY <2>1, InUnits, HasMore
<1>4. CASE PairAt(t, p, c)
  <2>1. PICK q \in DOMAIN Unit : /\ Has(t, p, Backslash) /\ Has(t, p + 1, "u") /\ Has(t, p + 2, q)
                                 /\ Has(u, p, Backslash) /\ Has(u, p + 1, "u") /\ Has(u, p + 2, q)
    BY <1>3, <1>4
  <2>2. PICK high \in Units(t, p) : \E low \in Units(t, p + 3) : IsHigh(high) /\ IsLow(low)
    BY <1>4, InPairs, Zenon DEF PairAt
  <2>3. PICK low \in Units(t, p + 3) : IsHigh(high) /\ IsLow(low)
    BY <2>2
  <2>4. PICK l \in DOMAIN Unit : /\ Has(t, p + 3, Backslash) /\ Has(t, (p + 3) + 1, "u")
                                 /\ Has(t, (p + 3) + 2, l) /\ low = Unit[l]
    BY InUnits
  <2>5. Units(t, p) = {Unit[q]} /\ Units(t, p + 3) = {Unit[l]}
    BY <2>1, <2>4, UnitsAre, Zenon
  <2>6. Units(u, p + 3) = {Unit[l]}
    BY <2>4, HasMore, UnitsAre
  <2>7. IsHigh(Unit[q]) /\ IsLow(Unit[l])
    BY <2>2, <2>3, <2>4, <2>5, Zenon
  <2>8. /\ Characters(t, p) = {<<p + 6, append_utf8(Combined(Unit[q], Unit[l]))>>}
        /\ Characters(u, p) = {<<p + 6, append_utf8(Combined(Unit[q], Unit[l]))>>}
    BY <2>1, <2>5, <2>6, <2>7, PairOfUnits
  <2> QED BY <2>8, Zenon
<1>5. CASE UnitAt(t, p, c)
  <2>1. PICK q \in DOMAIN Unit : /\ Has(t, p, Backslash) /\ Has(t, p + 1, "u") /\ Has(t, p + 2, q)
                                 /\ Has(u, p, Backslash) /\ Has(u, p + 1, "u") /\ Has(u, p + 2, q)
    BY <1>3, <1>5
  <2>2. Pairs(t, p) = {}
    BY <1>5, Zenon DEF UnitAt
  <2>3. Characters(t, p) = {<<p + 3, append_utf8(Unit[q])>>}
    BY <2>1, <2>2, SingleUnit, Zenon
  <2>4. CASE Pairs(u, p) = {}
    <3>1. Characters(u, p) = {<<p + 3, append_utf8(Unit[q])>>}
      BY <2>1, <2>4, SingleUnit, Zenon
    <3> QED BY <2>3, <3>1, Zenon
  <2>5. CASE Pairs(u, p) # {}
    <3>1. PICK high \in Units(u, p) : \E low \in Units(u, p + 3) : IsHigh(high) /\ IsLow(low)
      BY <2>5, InPairs, Zenon
    <3>2. PICK low \in Units(u, p + 3) : IsHigh(high) /\ IsLow(low)
      BY <3>1
    <3>3. PICK l \in DOMAIN Unit : /\ Has(u, p + 3, Backslash) /\ Has(u, (p + 3) + 1, "u")
                                   /\ Has(u, (p + 3) + 2, l) /\ low = Unit[l]
      BY InUnits
    <3>4. Units(t, p) = {Unit[q]} /\ Units(u, p) = {Unit[q]}
      BY <2>1, UnitsAre, Zenon
    <3>5. high \in Units(t, p)
      BY <3>4, Zenon
    <3>6. low \notin Units(t, p + 3)
      <4>1. <<high, low>> \notin Pairs(t, p)
        BY <2>2
      <4> QED BY <4>1, <3>2, <3>5, InPairs, Zenon
    <3>7. \A b : Has(t, p + 3, b) => b = Backslash
      BY <3>3, HasMore, HasOnce
    <3>8. \A b : Has(t, (p + 3) + 1, b) => b = "u"
      BY <3>3, HasMore, HasOnce
    <3>9. \A b : Has(t, (p + 3) + 2, b) => b = l
      BY <3>3, HasMore, HasOnce
    <3>10. "u" \notin DOMAIN Escapes
      BY JsonAssumption
    <3>11. Has(t, p + 3, Backslash) => (Has(t, (p + 3) + 1, "u") => ~Has(t, (p + 3) + 2, l))
      BY <3>3, <3>6, InUnits, Zenon
    <3>12. Characters(t, p + 3) = {}
      BY <3>7, <3>8, <3>9, <3>10, <3>11, NoCharacters, Zenon
    <3>13. ~Has(t, p + 3, Quote)
      BY <3>7, Distinct, Zenon
    <3>14. r \notin CharsAt(t, p + 3)
      BY <3>12, <3>13, CharsDead, Zenon
    <3>15. c[1] = p + 3
      BY <2>3
    <3> QED BY <3>14, <3>15, Zenon
  <2> QED BY <2>4, <2>5, Zenon
<1> QED
  BY <1>1, <1>2, <1>4, <1>5, InCharacters, Zenon

LEMMA CharsMeet ==
  ASSUME NEW t \in Seq(STRING), NEW u \in Seq(STRING), Begins(t, u), NEW p \in 1..(Len(t) + 1),
         MeetLater(t, u, p)
  PROVE  Alike(CharsAt(t, p), CharsAt(u, p))
<1>0. p \in 1..(Len(u) + 1) /\ Len(t) \in Nat /\ Len(u) \in Nat /\ Len(t) <= Len(u)
  BY DEF Begins
<1> SUFFICES ASSUME NEW x \in CharsAt(t, p), NEW y \in CharsAt(u, p) PROVE x = y
  BY Zenon DEF Alike
<1>1. CASE Has(t, p, Quote)
  <2>1. Has(u, p, Quote)
    BY <1>1, HasMore, Zenon
  <2> QED BY <1>0, <1>1, <2>1, CharsEnd
<1>2. CASE ~Has(t, p, Quote)
  <2>1. PICK c \in Characters(t, p) : \E r \in Table(t)[c[1]].chars : x = ListThen(c, r)
    BY <1>2, InChars DEF CharsAt
  <2>2. PICK r \in Table(t)[c[1]].chars : x = ListThen(c, r)
    BY <2>1
  <2>3. c[1] \in (p + 1)..(Len(t) + 1)
    BY CharacterBounds
  <2>4. p \in 1..Len(t) /\ c[1] \in 1..(Len(t) + 1)
    BY <2>3, <1>0
  <2>5. ~Has(u, p, Quote)
    BY <2>4, <1>2, HereIs
  <2>6. PICK e \in Characters(u, p) : \E s \in Table(u)[e[1]].chars : y = ListThen(e, s)
    BY <2>5, InChars DEF CharsAt
  <2>7. PICK s \in Table(u)[e[1]].chars : y = ListThen(e, s)
    BY <2>6
  <2>8. r \in CharsAt(t, c[1])
    BY <2>4, CharsAreTyped
  <2>9. c = e
    BY <2>4, <2>8, CharactersMeet, Zenon
  <2>10. Alike(Table(t)[c[1]].chars, Table(u)[c[1]].chars)
    BY <2>3, Zenon DEF MeetLater, Meets
  <2>11. r = s
    BY <2>9, <2>10, Zenon DEF Alike
  <2> QED BY <2>2, <2>7, <2>9, <2>11, Zenon
<1> QED
  BY <1>1, <1>2

\* What a number is made of.
InNumber == Plus \cup Digit \cup {".", "e"}

LEMMA NumberChars ==
  ASSUME NEW t \in Seq(STRING), NEW p \in 1..Len(t), NEW j, IsNumber(t, p, j),
         j \in (p + 1)..(Len(t) + 1)
  PROVE  \A k \in p..(j - 1) : t[k] \in InNumber
<1>1. PICK a \in Signs(t, p) : \E q \in (a + 1)..j : \E e \in q..j :
        /\ InRun(t, a, q, Digit)
        /\ q < e => Has(t, q, ".") /\ InRun(t, q + 1, e, Digit)
        /\ e < j => Has(t, e, "e") /\ \E b \in Signs(t, e + 1) : b <= j /\ InRun(t, b, j, Digit)
  BY Zenon DEF IsNumber
<1>2. PICK q \in (a + 1)..j : \E e \in q..j :
        /\ InRun(t, a, q, Digit)
        /\ q < e => Has(t, q, ".") /\ InRun(t, q + 1, e, Digit)
        /\ e < j => Has(t, e, "e") /\ \E b \in Signs(t, e + 1) : b <= j /\ InRun(t, b, j, Digit)
  BY <1>1
<1>3. PICK e \in q..j :
        /\ InRun(t, a, q, Digit)
        /\ q < e => Has(t, q, ".") /\ InRun(t, q + 1, e, Digit)
        /\ e < j => Has(t, e, "e") /\ \E b \in Signs(t, e + 1) : b <= j /\ InRun(t, b, j, Digit)
  BY <1>2
<1>4. \A i \in Int : \A b \in Signs(t, i) : b = i \/ (b = i + 1 /\ t[i] \in Plus)
  BY DEF Signs
<1>5. a = p \/ (a = p + 1 /\ t[p] \in Plus)
  BY <1>4
<1>6. a \in Int /\ q \in Int /\ e \in Int /\ j \in Int /\ a <= q /\ q <= e /\ e <= j
  BY <1>5
<1> SUFFICES ASSUME NEW k \in p..(j - 1) PROVE t[k] \in InNumber
  OBVIOUS
<1>7. CASE k < q
  <2>1. k \in a..(q - 1) \/ (k = p /\ a = p + 1)
    BY <1>5, <1>6, <1>7
  <2>2. \A i \in a..(q - 1) : t[i] \in Digit
    BY <1>3 DEF InRun
  <2> QED BY <1>5, <2>1, <2>2 DEF InNumber
<1>8. CASE q <= k /\ k < e
  <2>1. Has(t, q, ".") /\ \A i \in (q + 1)..(e - 1) : t[i] \in Digit
    BY <1>3, <1>6, <1>8 DEF InRun
  <2>2. k = q \/ k \in (q + 1)..(e - 1)
    BY <1>6, <1>8
  <2> QED BY <2>1, <2>2 DEF Has, InNumber
<1>9. CASE e <= k
  <2>1. Has(t, e, "e") /\ \E b \in Signs(t, e + 1) : b <= j /\ InRun(t, b, j, Digit)
    BY <1>3, <1>6, <1>9
  <2>2. PICK b \in Signs(t, e + 1) : \A i \in b..(j - 1) : t[i] \in Digit
    BY <2>1 DEF InRun
  <2>3. b = e + 1 \/ (b = (e + 1) + 1 /\ t[e + 1] \in Plus)
    BY <1>4, <1>6
  <2>4. k = e \/ k \in b..(j - 1) \/ (k = e + 1 /\ t[e + 1] \in Plus)
    BY <1>6, <1>9, <2>3
  <2> QED BY <2>1, <2>2, <2>4 DEF Has, InNumber
<1> QED
  BY <1>6, <1>7, <1>8, <1>9

LEMMA NoNumberFollows ==
  ASSUME NEW t \in Seq(STRING), NEW j \in 1..Len(t), Follows(t, j)
  PROVE  t[j] \notin InNumber
<1>1. t[j] \in Whitespace \cup {CloseBracket, CloseBrace, Comma}
  BY DEF Follows
<1>2. \A c \in {CloseBracket, CloseBrace, Comma} : c \notin InNumber
  <2>1. \A c \in {CloseBracket, CloseBrace, Comma} : c \notin Plus /\ c \notin Digit
    BY Roles, SyntaxIs, Zenon
  <2> QED BY <2>1, Distinct, Zenon DEF InNumber
<1>3. \A c \in Whitespace : c \notin InNumber
  <2>1. \A c \in Whitespace : c \notin Plus /\ c \notin Digit /\ c # "." /\ c # "e"
    BY Roles, SyntaxIs, Zenon
  <2> QED BY <2>1, Zenon DEF InNumber
<1> QED
  BY <1>1, <1>2, <1>3

LEMMA NumbersMeet ==
  ASSUME NEW t \in Seq(STRING), NEW u \in Seq(STRING), Begins(t, u), NEW p \in 1..Len(t),
         NEW x \in Numbers(t, p), NEW y \in Numbers(u, p), Follows(u, x[1]), Follows(u, y[1])
  PROVE  x = y
<1>0. Len(t) \in Nat /\ Len(u) \in Nat /\ Len(t) <= Len(u) /\ p \in 1..Len(u)
  BY DEF Begins
<1>1. PICK j \in (p + 1)..(Len(t) + 1) :
        IsNumber(t, p, j) /\ x = <<j, [num |-> SubSeq(t, p, j - 1)]>>
  BY InNumbers
<1>2. PICK k \in (p + 1)..(Len(u) + 1) :
        IsNumber(u, p, k) /\ y = <<k, [num |-> SubSeq(u, p, k - 1)]>>
  BY InNumbers
<1>3. \A i \in p..(j - 1) : t[i] \in InNumber
  BY <1>1, NumberChars
<1>4. \A i \in p..(k - 1) : u[i] \in InNumber
  BY <1>0, <1>2, NumberChars
<1>5. Follows(u, j) /\ Follows(u, k)
  BY <1>1, <1>2
<1>6. ~(j < k)
  <2> SUFFICES ASSUME j < k PROVE FALSE
    OBVIOUS
  <2>1. j \in 1..Len(u) /\ j \in p..(k - 1)
    BY <1>0
  <2> QED BY <2>1, <1>4, <1>5, NoNumberFollows
<1>7. ~(k < j)
  <2> SUFFICES ASSUME k < j PROVE FALSE
    OBVIOUS
  <2>1. k \in 1..Len(t) /\ k \in p..(j - 1)
    BY <1>0
  <2>2. k \in 1..Len(u) /\ t[k] = u[k]
    BY <2>1, HereIs
  <2> QED BY <2>1, <2>2, <1>3, <1>5, NoNumberFollows
<1>8. j = k
  BY <1>0, <1>6, <1>7
<1>9. SubSeq(t, p, j - 1) = SubSeq(u, p, j - 1)
  <2>1. \A i \in p..(j - 1) : t[i] = u[i]
    <3> SUFFICES ASSUME NEW i \in p..(j - 1) PROVE t[i] = u[i]
      OBVIOUS
    <3>1. i \in 1..Len(t)
      BY <1>0
    <3> QED BY <3>1, HereIs
  <2>2. SubSeq(t, p, j - 1) = [i \in 1..(j - p) |-> t[p + i - 1]]
    BY <1>0
  <2>3. SubSeq(u, p, j - 1) = [i \in 1..(j - p) |-> u[p + i - 1]]
    BY <1>0
  <2>4. \A i \in 1..(j - p) : p + i - 1 \in p..(j - 1)
    BY <1>0
  <2> QED BY <2>1, <2>2, <2>3, <2>4
<1> QED
  BY <1>1, <1>2, <1>8, <1>9, Zenon

\* An entry of a container begins with neither whitespace nor a closing mark.
LEMMA EntryBegins ==
  ASSUME NEW t \in Seq(STRING), NEW k \in 1..(Len(t) + 1), NEW d \in Depths, NEW x,
         x \in Table(t)[k].elements[d] \/ x \in Table(t)[k].members[d]
  PROVE  k \in 1..Len(t) /\ t[k] \notin Whitespace /\ t[k] \notin Closing
<1>1. /\ Table(t)[k].elements[d] = Elements(t, Table(t), k, d)
      /\ Table(t)[k].members[d] = Members(t, Table(t), k, d)
  BY TableIs
<1> QED
  BY <1>1, ElementsBegin, MembersBegin

LEMMA EntriesMeet ==
  ASSUME NEW t \in Seq(STRING), NEW u \in Seq(STRING), Begins(t, u), NEW p \in 1..(Len(t) + 1),
         MeetLater(t, u, p), NEW i \in (p + 1)..(Len(t) + 1), NEW d \in Depths,
         NEW k \in Gaps(t, i), NEW m \in Gaps(u, i), NEW x, NEW y,
         \/ x \in Table(t)[k].elements[d] /\ y \in Table(u)[m].elements[d]
         \/ x \in Table(t)[k].members[d] /\ y \in Table(u)[m].members[d]
  PROVE  x = y
<1>1. Len(t) \in Nat /\ Len(u) \in Nat /\ i \in 1..(Len(t) + 1) /\ i \in 1..(Len(u) + 1)
  BY DEF Begins
<1>2. k \in 1..(Len(t) + 1) /\ m \in 1..(Len(u) + 1) /\ k \in i..(Len(t) + 1)
  BY <1>1, GapBounds
<1>3. /\ k \in 1..Len(t) /\ t[k] \notin Whitespace
      /\ m \in 1..Len(u) /\ u[m] \notin Whitespace
  BY <1>2, EntryBegins
<1>4. k = m
  BY <1>1, <1>3, GapsMeet
<1>5. k \in (p + 1)..(Len(t) + 1)
  BY <1>1, <1>2
<1>6. Meets(t, u, k)
  BY <1>5 DEF MeetLater
<1>7. /\ Alike(Table(t)[k].elements[d], Table(u)[k].elements[d])
      /\ Alike(Table(t)[k].members[d], Table(u)[k].members[d])
  BY <1>6, Zenon DEF Meets
<1> QED
  BY <1>4, <1>7, Zenon DEF Alike

\* After the same place, one text does not close what the other goes on with.
LEMMA EntryOrClosing ==
  ASSUME NEW t \in Seq(STRING), NEW u \in Seq(STRING), Begins(t, u), NEW i \in 1..(Len(t) + 1),
         NEW d \in Depths, NEW c \in Closing, NEW x
  PROVE  /\ \A k \in Gaps(t, i), m \in Marks(u, i, c) :
              x \notin Table(t)[k].elements[d] /\ x \notin Table(t)[k].members[d]
         /\ \A k \in Marks(t, i, c), m \in Gaps(u, i) :
              x \notin Table(u)[m].elements[d] /\ x \notin Table(u)[m].members[d]
<1>0. i \in 1..(Len(u) + 1) /\ c \notin Whitespace
  <2>1. c \in Syntax
    BY SyntaxIs, Zenon DEF Closing
  <2> QED BY <2>1, Roles DEF Begins
<1>1. ASSUME NEW k \in Gaps(t, i), NEW m \in Marks(u, i, c),
             x \in Table(t)[k].elements[d] \/ x \in Table(t)[k].members[d]
      PROVE  FALSE
  <2>1. k \in 1..(Len(t) + 1)
    BY GapBounds
  <2>2. k \in 1..Len(t) /\ t[k] \notin Whitespace /\ t[k] \notin Closing
    BY <1>1, <2>1, EntryBegins
  <2>3. m \in Gaps(u, i) /\ m \in 1..Len(u) /\ u[m] = c
    BY DEF Marks, Has
  <2>4. k = m
    BY <1>0, <2>2, <2>3, GapsMeet
  <2> QED BY <2>2, <2>3, <2>4, HereIs
<1>2. ASSUME NEW k \in Marks(t, i, c), NEW m \in Gaps(u, i),
             x \in Table(u)[m].elements[d] \/ x \in Table(u)[m].members[d]
      PROVE  FALSE
  <2>1. m \in 1..(Len(u) + 1)
    BY <1>0, GapBounds
  <2>2. m \in 1..Len(u) /\ u[m] \notin Whitespace /\ u[m] \notin Closing
    BY <1>2, <2>1, EntryBegins
  <2>3. k \in Gaps(t, i) /\ k \in 1..Len(t) /\ t[k] = c
    BY DEF Marks, Has
  <2>4. k = m
    BY <1>0, <2>2, <2>3, GapsMeet
  <2> QED BY <2>2, <2>3, <2>4, HereIs
<1> QED
  BY <1>1, <1>2

LEMMA MoreMeet ==
  ASSUME NEW t \in Seq(STRING), NEW u \in Seq(STRING), Begins(t, u), NEW p \in 1..(Len(t) + 1),
         MeetLater(t, u, p), NEW i \in (p + 1)..(Len(t) + 1), NEW d \in Depths
  PROVE  /\ Alike(MoreElements(t, Table(t), i, d), MoreElements(u, Table(u), i, d))
         /\ Alike(MoreMembers(t, Table(t), i, d), MoreMembers(u, Table(u), i, d))
<1>1. i \in 1..(Len(t) + 1) /\ i \in 1..(Len(u) + 1)
  BY DEF Begins
<1>2. ASSUME NEW k \in Marks(t, i, Comma), NEW j \in Gaps(t, k + 1),
             NEW m \in Marks(u, i, Comma), NEW l \in Gaps(u, m + 1), NEW x, NEW y,
             \/ x \in Table(t)[j].elements[d] /\ y \in Table(u)[l].elements[d]
             \/ x \in Table(t)[j].members[d] /\ y \in Table(u)[l].members[d]
      PROVE  x = y
  <2>1. k = m
    BY <1>1, MarksMeet, SyntaxIs
  <2>2. k + 1 \in (i + 1)..(Len(t) + 1) /\ Len(t) \in Nat
    BY <1>1, MarkBounds
  <2>3. k + 1 \in (p + 1)..(Len(t) + 1)
    BY <2>2
  <2> QED BY <1>2, <2>1, <2>3, EntriesMeet
<1>3. ASSUME NEW c \in {CloseBracket, CloseBrace}, NEW k \in Marks(t, i, c), NEW m \in Marks(u, i, c)
      PROVE  k = m
  BY <1>1, <1>3, MarksMeet, SyntaxIs
<1>4. ASSUME NEW c \in {CloseBracket, CloseBrace}, NEW e \in {CloseBracket, CloseBrace, Comma},
             c # e, NEW k, NEW m,
             \/ k \in Marks(t, i, c) /\ m \in Marks(u, i, e)
             \/ k \in Marks(t, i, e) /\ m \in Marks(u, i, c)
      PROVE  FALSE
  <2>1. c \in Syntax /\ e \in Syntax
    BY SyntaxIs, Zenon
  <2> QED BY <1>1, <1>4, <2>1, MarksMeet
<1>5. CloseBracket # Comma /\ CloseBrace # Comma
  BY Distinct, Zenon
<1>6. ASSUME NEW x \in MoreElements(t, Table(t), i, d), NEW y \in MoreElements(u, Table(u), i, d)
      PROVE  x = y
  <2>1. \/ \E k \in Marks(t, i, CloseBracket) : x = <<k + 1, <<>>>>
        \/ \E k \in Marks(t, i, Comma) : \E j \in Gaps(t, k + 1) : x \in Table(t)[j].elements[d]
    BY InMoreElements
  <2>2. \/ \E k \in Marks(u, i, CloseBracket) : y = <<k + 1, <<>>>>
        \/ \E k \in Marks(u, i, Comma) : \E j \in Gaps(u, k + 1) : y \in Table(u)[j].elements[d]
    BY InMoreElements
  <2> QED BY <2>1, <2>2, <1>2, <1>3, <1>4, <1>5, Zenon
<1>7. ASSUME NEW x \in MoreMembers(t, Table(t), i, d), NEW y \in MoreMembers(u, Table(u), i, d)
      PROVE  x = y
  <2>1. \/ \E k \in Marks(t, i, CloseBrace) : x = <<k + 1, <<>>>>
        \/ \E k \in Marks(t, i, Comma) : \E j \in Gaps(t, k + 1) : x \in Table(t)[j].members[d]
    BY InMoreMembers
  <2>2. \/ \E k \in Marks(u, i, CloseBrace) : y = <<k + 1, <<>>>>
        \/ \E k \in Marks(u, i, Comma) : \E j \in Gaps(u, k + 1) : y \in Table(u)[j].members[d]
    BY InMoreMembers
  <2> QED BY <2>1, <2>2, <1>2, <1>3, <1>4, <1>5, Zenon
<1> QED
  BY <1>6, <1>7 DEF Alike

LEMMA ContainersMeet ==
  ASSUME NEW t \in Seq(STRING), NEW u \in Seq(STRING), Begins(t, u), NEW p \in 1..Len(t),
         MeetLater(t, u, p), NEW d \in Nat, d <= kMaxDepth
  PROVE  /\ Alike(Arrays(t, Table(t), p, d), Arrays(u, Table(u), p, d))
         /\ Alike(Objects(t, Table(t), p, d), Objects(u, Table(u), p, d))
<1>1. /\ p \in 1..(Len(t) + 1) /\ p + 1 \in (p + 1)..(Len(t) + 1) /\ p + 1 \in 1..(Len(t) + 1)
      /\ d + 1 \in Depths
  BY JsonAssumption DEF Depths
<1>2. CloseBracket \in Closing /\ CloseBrace \in Closing /\ CloseBracket \in Syntax /\ CloseBrace \in Syntax
  BY SyntaxIs DEF Closing
<1>3. ASSUME NEW k \in Gaps(t, p + 1), NEW m \in Gaps(u, p + 1), NEW x, NEW y,
         \/ x \in Table(t)[k].elements[d + 1] /\ y \in Table(u)[m].elements[d + 1]
         \/ x \in Table(t)[k].members[d + 1] /\ y \in Table(u)[m].members[d + 1]
      PROVE  x = y
  BY <1>1, <1>3, EntriesMeet
<1>4. ASSUME NEW c \in {CloseBracket, CloseBrace}, NEW k \in Marks(t, p + 1, c),
             NEW m \in Marks(u, p + 1, c)
      PROVE  k = m
  BY <1>1, <1>2, <1>4, MarksMeet
<1>5. ASSUME NEW c \in {CloseBracket, CloseBrace}, NEW e
      PROVE  /\ \A k \in Gaps(t, p + 1), m \in Marks(u, p + 1, c) :
                  e \notin Table(t)[k].elements[d + 1] /\ e \notin Table(t)[k].members[d + 1]
             /\ \A k \in Marks(t, p + 1, c), m \in Gaps(u, p + 1) :
                  e \notin Table(u)[m].elements[d + 1] /\ e \notin Table(u)[m].members[d + 1]
  <2>1. c \in Closing
    BY <1>2, <1>5
  <2> QED BY <1>1, <2>1, EntryOrClosing
<1>6. ASSUME NEW x \in Arrays(t, Table(t), p, d), NEW y \in Arrays(u, Table(u), p, d)
      PROVE  x = y
  <2>1. \/ \E k \in Marks(t, p + 1, CloseBracket) : x = <<k + 1, [arr |-> <<>>]>>
        \/ \E k \in Gaps(t, p + 1) : \E e \in Table(t)[k].elements[d + 1] : x = <<e[1], [arr |-> e[2]]>>
    BY InArrays
  <2>2. \/ \E k \in Marks(u, p + 1, CloseBracket) : y = <<k + 1, [arr |-> <<>>]>>
        \/ \E k \in Gaps(u, p + 1) : \E e \in Table(u)[k].elements[d + 1] : y = <<e[1], [arr |-> e[2]]>>
    BY InArrays
  <2> QED BY <2>1, <2>2, <1>3, <1>4, <1>5, Zenon
<1>7. ASSUME NEW x \in Objects(t, Table(t), p, d), NEW y \in Objects(u, Table(u), p, d)
      PROVE  x = y
  <2>1. \/ \E k \in Marks(t, p + 1, CloseBrace) : x = <<k + 1, [obj |-> <<>>]>>
        \/ \E k \in Gaps(t, p + 1) : \E e \in Table(t)[k].members[d + 1] : x = <<e[1], [obj |-> Object(e[2])]>>
    BY InObjects
  <2>2. \/ \E k \in Marks(u, p + 1, CloseBrace) : y = <<k + 1, [obj |-> <<>>]>>
        \/ \E k \in Gaps(u, p + 1) : \E e \in Table(u)[k].members[d + 1] : y = <<e[1], [obj |-> Object(e[2])]>>
    BY InObjects
  <2> QED BY <2>1, <2>2, <1>3, <1>4, <1>5, Zenon
<1> QED
  BY <1>6, <1>7 DEF Alike

LEMMA ValuesMeet ==
  ASSUME NEW t \in Seq(STRING), NEW u \in Seq(STRING), Begins(t, u), NEW p \in 1..(Len(t) + 1),
         MeetLater(t, u, p), NEW d \in Depths,
         NEW x \in Values(t, Table(t), p, d), NEW y \in Values(u, Table(u), p, d),
         x \in Numbers(t, p) => Follows(u, x[1]), y \in Numbers(u, p) => Follows(u, y[1])
  PROVE  x = y
<1>1. /\ p \in 1..Len(t) /\ Len(t) \in Nat /\ d \in Nat /\ d <= kMaxDepth
  <2>1. ~(d > kMaxDepth)
    BY InValues
  <2>2. d \in Nat /\ d <= kMaxDepth
    BY <2>1, JsonAssumption DEF Depths
  <2> QED BY <2>2, ValueBegins
<1>2. /\ p \in 1..Len(u) /\ t[p] = u[p] /\ p \in 1..(Len(u) + 1)
      /\ p + 1 \in (p + 1)..(Len(t) + 1) /\ p + 1 \in 1..(Len(t) + 1) /\ p + 1 \in 1..(Len(u) + 1)
  <2>1. p \in 1..Len(u) /\ t[p] = u[p]
    BY <1>1, HereIs
  <2> QED BY <1>1, <2>1
<1>3. CASE t[p] = Quote
  <2>1. Has(t, p, Quote) /\ Has(u, p, Quote)
    BY <1>1, <1>2, <1>3 DEF Has
  <2>2. PICK r \in CharsAt(t, p + 1) : x = <<r[1], [str |-> r[2]]>>
    BY <1>1, <2>1, StringValues
  <2>3. PICK s \in CharsAt(u, p + 1) : y = <<s[1], [str |-> s[2]]>>
    BY <1>1, <1>2, <2>1, StringValues
  <2>4. r \in Table(t)[p + 1].chars /\ s \in Table(u)[p + 1].chars
    BY <1>2, CharsAreTyped
  <2>5. Alike(Table(t)[p + 1].chars, Table(u)[p + 1].chars)
    BY <1>2, Zenon DEF MeetLater, Meets
  <2>6. r = s
    BY <2>4, <2>5, Zenon DEF Alike
  <2> QED BY <2>2, <2>3, <2>6, Zenon
<1>4. CASE t[p] \in {"true", "false", "null"}
  <2>1. x = <<p + 1, IF t[p] = "null" THEN Null ELSE [bool |-> t[p] = "true"]>>
    BY <1>1, <1>4, LiteralValues
  <2>2. y = <<p + 1, IF u[p] = "null" THEN Null ELSE [bool |-> u[p] = "true"]>>
    BY <1>1, <1>2, <1>4, LiteralValues
  <2> QED BY <1>2, <2>1, <2>2, Zenon
<1>5. CASE t[p] = OpenBracket \/ t[p] = OpenBrace
  <2>1. /\ Alike(Arrays(t, Table(t), p, d), Arrays(u, Table(u), p, d))
        /\ Alike(Objects(t, Table(t), p, d), Objects(u, Table(u), p, d))
    BY <1>1, ContainersMeet
  <2>2. /\ t[p] = OpenBracket => x \in Arrays(t, Table(t), p, d)
        /\ t[p] = OpenBrace => x \in Objects(t, Table(t), p, d)
    BY <1>1, BracketValues
  <2>3. /\ t[p] = OpenBracket => y \in Arrays(u, Table(u), p, d)
        /\ t[p] = OpenBrace => y \in Objects(u, Table(u), p, d)
    BY <1>1, <1>2, BracketValues
  <2> QED BY <1>5, <2>1, <2>2, <2>3, Zenon DEF Alike
<1>6. CASE t[p] \notin {OpenBracket, OpenBrace, Quote} /\ t[p] \notin {"true", "false", "null"}
  <2>1. x \in Numbers(t, p)
    BY <1>1, <1>6, NumberValues
  <2>2. y \in Numbers(u, p)
    BY <1>1, <1>2, <1>6, NumberValues
  <2> QED BY <1>1, <2>1, <2>2, NumbersMeet
<1> QED
  BY <1>3, <1>4, <1>5, <1>6, Zenon

LEMMA MoreFollows ==
  ASSUME NEW t \in Seq(STRING), NEW p \in 1..(Len(t) + 1), NEW d, NEW r,
         r \in MoreElements(t, Table(t), p, d) \/ r \in MoreMembers(t, Table(t), p, d)
  PROVE  p \in 1..Len(t) /\ Follows(t, p)
<1>1. \E c \in {CloseBracket, CloseBrace, Comma} : \E k : k \in Marks(t, p, c)
  BY InMoreElements, InMoreMembers, Zenon
<1>2. PICK c \in {CloseBracket, CloseBrace, Comma} : \E k : k \in Marks(t, p, c)
  BY <1>1
<1>3. p \in DOMAIN t /\ t[p] \in Whitespace \cup {c}
  BY <1>2, MarkFollows
<1> QED
  BY <1>3 DEF Follows

LEMMA FollowsAfter ==
  ASSUME NEW t \in Seq(STRING), NEW u \in Seq(STRING), Begins(t, u), NEW p \in 1..Len(t), Follows(t, p)
  PROVE  Follows(u, p)
<1>1. p \in 1..Len(u) /\ t[p] = u[p]
  BY HereIs
<1> QED
  BY <1>1 DEF Follows

LEMMA ElementsMeet ==
  ASSUME NEW t \in Seq(STRING), NEW u \in Seq(STRING), Begins(t, u), NEW p \in 1..(Len(t) + 1),
         MeetLater(t, u, p), NEW d \in Depths
  PROVE  Alike(Elements(t, Table(t), p, d), Elements(u, Table(u), p, d))
<1> SUFFICES ASSUME NEW x \in Elements(t, Table(t), p, d), NEW y \in Elements(u, Table(u), p, d)
             PROVE  x = y
  BY Zenon DEF Alike
<1>0. p \in 1..(Len(u) + 1)
  BY DEF Begins
<1>1. PICK v \in Values(t, Table(t), p, d) : \E r \in MoreElements(t, Table(t), v[1], d) :
        x = ItemThen(v, r)
  BY InElements
<1>2. PICK r \in MoreElements(t, Table(t), v[1], d) : x = ItemThen(v, r)
  BY <1>1
<1>3. PICK w \in Values(u, Table(u), p, d) : \E s \in MoreElements(u, Table(u), w[1], d) :
        y = ItemThen(w, s)
  BY InElements
<1>4. PICK s \in MoreElements(u, Table(u), w[1], d) : y = ItemThen(w, s)
  BY <1>3
<1>5. v[1] \in (p + 1)..(Len(t) + 1) /\ v[1] \in 1..(Len(t) + 1)
  BY TableIs, ValueBounds
<1>6. w[1] \in 1..(Len(u) + 1)
  BY <1>0, TableIs, ValueBounds
<1>7. Follows(u, v[1])
  BY <1>5, MoreFollows, FollowsAfter
<1>8. Follows(u, w[1])
  BY <1>6, MoreFollows
<1>9. v = w
  BY <1>7, <1>8, ValuesMeet
<1>10. Alike(MoreElements(t, Table(t), v[1], d), MoreElements(u, Table(u), v[1], d))
  BY <1>5, MoreMeet
<1>11. r = s
  BY <1>9, <1>10, Zenon DEF Alike
<1> QED
  BY <1>2, <1>4, <1>9, <1>11, Zenon

LEMMA MemberMeets ==
  ASSUME NEW t \in Seq(STRING), NEW u \in Seq(STRING), Begins(t, u), NEW p \in 1..(Len(t) + 1),
         MeetLater(t, u, p), NEW d \in Depths,
         NEW x \in Member(t, Table(t), p, d), NEW y \in Member(u, Table(u), p, d),
         Follows(u, x[1]), Follows(u, y[1])
  PROVE  x = y
<1>0. p \in 1..(Len(u) + 1) /\ Len(t) \in Nat /\ Len(u) \in Nat
  BY DEF Begins
<1>1. PICK r \in StringAt(t, Table(t), p) :
        \E k \in Marks(t, r[1], Colon) : \E j \in Gaps(t, k + 1) :
          \E v \in Values(t, Table(t), j, d) :
          x = <<v[1], [name |-> r[2], val |-> v[2]]>>
  BY InMember
<1>2. PICK k \in Marks(t, r[1], Colon) :
        \E j \in Gaps(t, k + 1) : \E v \in Values(t, Table(t), j, d) :
          x = <<v[1], [name |-> r[2], val |-> v[2]]>>
  BY <1>1
<1>3. PICK j \in Gaps(t, k + 1) :
        \E v \in Values(t, Table(t), j, d) :
          x = <<v[1], [name |-> r[2], val |-> v[2]]>>
  BY <1>2
<1>4. PICK v \in Values(t, Table(t), j, d) : x = <<v[1], [name |-> r[2], val |-> v[2]]>>
  BY <1>3
<1>5. PICK s \in StringAt(u, Table(u), p) :
        \E m \in Marks(u, s[1], Colon) : \E l \in Gaps(u, m + 1) :
          \E w \in Values(u, Table(u), l, d) :
          y = <<w[1], [name |-> s[2], val |-> w[2]]>>
  BY InMember
<1>6. PICK m \in Marks(u, s[1], Colon) :
        \E l \in Gaps(u, m + 1) : \E w \in Values(u, Table(u), l, d) :
          y = <<w[1], [name |-> s[2], val |-> w[2]]>>
  BY <1>5
<1>7. PICK l \in Gaps(u, m + 1) :
        \E w \in Values(u, Table(u), l, d) :
          y = <<w[1], [name |-> s[2], val |-> w[2]]>>
  BY <1>6
<1>8. PICK w \in Values(u, Table(u), l, d) : y = <<w[1], [name |-> s[2], val |-> w[2]]>>
  BY <1>7
<1>9. /\ Has(t, p, Quote) /\ p + 1 \in 1..(Len(t) + 1) /\ r \in Table(t)[p + 1].chars
      /\ r[1] \in (p + 1)..(Len(t) + 1) /\ r[1] \in 1..(Len(t) + 1)
  BY TableIs, StringBounds
<1>10. s \in Table(u)[p + 1].chars /\ s[1] \in 1..(Len(u) + 1)
  BY TableIs, StringBounds
<1>11. r = s
  <2>1. p + 1 \in (p + 1)..(Len(t) + 1)
    BY <1>9
  <2>2. Alike(Table(t)[p + 1].chars, Table(u)[p + 1].chars)
    BY <2>1, Zenon DEF MeetLater, Meets
  <2> QED BY <1>9, <1>10, <2>2, Zenon DEF Alike
<1>12. k = m
  BY <1>9, <1>11, SyntaxIs, MarksMeet
<1>13. /\ k + 1 \in (p + 1)..(Len(t) + 1) /\ k + 1 \in 1..(Len(t) + 1) /\ k + 1 \in 1..(Len(u) + 1)
  <2>1. k \in r[1]..Len(t) /\ k + 1 \in 1..(Len(t) + 1)
    BY <1>9, MarkBounds
  <2>2. m + 1 \in 1..(Len(u) + 1)
    BY <1>10, MarkBounds
  <2> QED BY <1>0, <1>9, <1>12, <2>1, <2>2
<1>14. j \in (k + 1)..(Len(t) + 1) /\ j \in 1..(Len(t) + 1) /\ l \in 1..(Len(u) + 1)
  BY <1>12, <1>13, GapBounds
<1>15. j = l
  <2>1. j \in 1..Len(t) /\ t[j] \notin Whitespace
    BY <1>14, ValueBegins
  <2>2. l \in 1..Len(u) /\ u[l] \notin Whitespace
    BY <1>14, ValueBegins
  <2> QED BY <1>12, <1>13, <2>1, <2>2, GapsMeet
<1>16. MeetLater(t, u, j)
  <2> SUFFICES ASSUME NEW q \in (j + 1)..(Len(t) + 1) PROVE Meets(t, u, q)
    BY DEF MeetLater
  <2>1. q \in (p + 1)..(Len(t) + 1)
    BY <1>0, <1>13, <1>14
  <2> QED BY <2>1 DEF MeetLater
<1>17. Follows(u, v[1]) /\ Follows(u, w[1])
  BY <1>4, <1>8
<1>18. w \in Values(u, Table(u), j, d)
  BY <1>15, Zenon
<1>19. v = w
  BY <1>14, <1>16, <1>17, <1>18, ValuesMeet
<1> QED
  BY <1>4, <1>8, <1>11, <1>19, Zenon

LEMMA MembersMeet ==
  ASSUME NEW t \in Seq(STRING), NEW u \in Seq(STRING), Begins(t, u), NEW p \in 1..(Len(t) + 1),
         MeetLater(t, u, p), NEW d \in Depths
  PROVE  Alike(Members(t, Table(t), p, d), Members(u, Table(u), p, d))
<1> SUFFICES ASSUME NEW x \in Members(t, Table(t), p, d), NEW y \in Members(u, Table(u), p, d)
             PROVE  x = y
  BY Zenon DEF Alike
<1>0. p \in 1..(Len(u) + 1)
  BY DEF Begins
<1>1. PICK v \in Member(t, Table(t), p, d) : \E r \in MoreMembers(t, Table(t), v[1], d) :
        x = ItemThen(v, r)
  BY InMembers
<1>2. PICK r \in MoreMembers(t, Table(t), v[1], d) : x = ItemThen(v, r)
  BY <1>1
<1>3. PICK w \in Member(u, Table(u), p, d) : \E s \in MoreMembers(u, Table(u), w[1], d) :
        y = ItemThen(w, s)
  BY InMembers
<1>4. PICK s \in MoreMembers(u, Table(u), w[1], d) : y = ItemThen(w, s)
  BY <1>3
<1>5. v[1] \in (p + 1)..(Len(t) + 1) /\ v[1] \in 1..(Len(t) + 1)
  BY TableIs, MemberBounds
<1>6. w[1] \in 1..(Len(u) + 1)
  BY <1>0, TableIs, MemberBounds
<1>7. Follows(u, v[1])
  BY <1>5, MoreFollows, FollowsAfter
<1>8. Follows(u, w[1])
  BY <1>6, MoreFollows
<1>9. v = w
  BY <1>7, <1>8, MemberMeets
<1>10. Alike(MoreMembers(t, Table(t), v[1], d), MoreMembers(u, Table(u), v[1], d))
  BY <1>5, MoreMeet
<1>11. r = s
  BY <1>9, <1>10, Zenon DEF Alike
<1> QED
  BY <1>2, <1>4, <1>9, <1>11, Zenon

LEMMA PhrasesMeet ==
  ASSUME NEW t \in Seq(STRING), NEW u \in Seq(STRING), Begins(t, u), NEW p \in 1..(Len(t) + 1),
         MeetLater(t, u, p)
  PROVE  Meets(t, u, p)
<1>1. p \in 1..(Len(u) + 1)
  BY DEF Begins
<1>2. /\ Table(t)[p].chars = CharsAt(t, p) /\ Table(u)[p].chars = CharsAt(u, p)
      /\ \A d \in Depths : Table(t)[p].elements[d] = Elements(t, Table(t), p, d)
      /\ \A d \in Depths : Table(u)[p].elements[d] = Elements(u, Table(u), p, d)
      /\ \A d \in Depths : Table(t)[p].members[d] = Members(t, Table(t), p, d)
      /\ \A d \in Depths : Table(u)[p].members[d] = Members(u, Table(u), p, d)
  BY <1>1, TableIs DEF CharsAt
<1>3. Alike(CharsAt(t, p), CharsAt(u, p))
  BY CharsMeet
<1>4. \A d \in Depths : Alike(Elements(t, Table(t), p, d), Elements(u, Table(u), p, d))
  BY ElementsMeet
<1>5. \A d \in Depths : Alike(Members(t, Table(t), p, d), Members(u, Table(u), p, d))
  BY MembersMeet
<1> QED
  BY <1>2, <1>3, <1>4, <1>5, Zenon DEF Meets

LEMMA AllMeet ==
  ASSUME NEW t \in Seq(STRING), NEW u \in Seq(STRING), Begins(t, u)
  PROVE  \A p \in 1..(Len(t) + 1) : Meets(t, u, p)
<1> DEFINE Odd == {n \in 0..Len(t) : ~Meets(t, u, Len(t) + 1 - n)}
<1>0. Len(t) \in Nat
  OBVIOUS
<1>1. Odd = {}
  <2> SUFFICES ASSUME Odd # {} PROVE FALSE
    OBVIOUS
  <2>1. PICK n \in Odd : \A k \in Odd : n <= k
    <3>1. Odd \subseteq Nat
      OBVIOUS
    <3> HIDE DEF Odd
    <3> QED BY <3>1, MinExists
  <2>2. n \in 0..Len(t) /\ ~Meets(t, u, Len(t) + 1 - n)
    OBVIOUS
  <2>3. ASSUME NEW q \in (Len(t) + 1 - n + 1)..(Len(t) + 1) PROVE Meets(t, u, q)
    <3>1. Len(t) + 1 - q \in 0..Len(t) /\ Len(t) + 1 - q < n /\ Len(t) + 1 - (Len(t) + 1 - q) = q
      BY <1>0, <2>2
    <3>2. Len(t) + 1 - q \notin Odd
      <4> HIDE DEF Odd
      <4> QED BY <2>1, <2>2, <3>1
    <3> QED BY <3>1, <3>2
  <2>4. MeetLater(t, u, Len(t) + 1 - n)
    BY <2>3 DEF MeetLater
  <2>5. Len(t) + 1 - n \in 1..(Len(t) + 1)
    BY <1>0, <2>2
  <2> QED BY <2>2, <2>4, <2>5, PhrasesMeet
<1> SUFFICES ASSUME NEW p \in 1..(Len(t) + 1) PROVE Meets(t, u, p)
  OBVIOUS
<1>2. Len(t) + 1 - p \in 0..Len(t) /\ Len(t) + 1 - (Len(t) + 1 - p) = p
  BY <1>0
<1> QED
  BY <1>1, <1>2

LEMMA InMeaning ==
  ASSUME NEW t \in Seq(STRING), NEW v \in Meaning(t)
  PROVE  \E k \in Gaps(t, 1) : \E x \in Values(t, Table(t), k, 0) :
           Len(t) + 1 \in Gaps(t, x[1]) /\ v = x[2]
<1> DEFINE V(k) == Values(t, Table(t), k, 0)
<1>1. \E w \in UNION {V(k) : k \in Gaps(t, 1)} : Len(t) + 1 \in Gaps(t, w[1]) /\ v = w[2]
  BY Zenon DEF Meaning
<1> HIDE DEF V
<1>2. \E k \in Gaps(t, 1) : \E x \in V(k) : Len(t) + 1 \in Gaps(t, x[1]) /\ v = x[2]
  BY <1>1
<1> QED
  BY <1>2 DEF V

LEMMA MeaningsMeet ==
  ASSUME NEW t \in Seq(STRING), NEW u \in Seq(STRING), Begins(t, u),
         NEW v \in Meaning(t), NEW w \in Meaning(u), t = u \/ \A n : v # [num |-> n]
  PROVE  v = w
<1>0. 1 \in 1..(Len(t) + 1) /\ 1 \in 1..(Len(u) + 1) /\ 0 \in Depths /\ Len(t) \in Nat
  BY JsonAssumption DEF Depths
<1>1. PICK k \in Gaps(t, 1) : \E x \in Values(t, Table(t), k, 0) :
        Len(t) + 1 \in Gaps(t, x[1]) /\ v = x[2]
  BY InMeaning
<1>2. PICK x \in Values(t, Table(t), k, 0) : Len(t) + 1 \in Gaps(t, x[1]) /\ v = x[2]
  BY <1>1
<1>3. PICK m \in Gaps(u, 1) : \E y \in Values(u, Table(u), m, 0) :
        Len(u) + 1 \in Gaps(u, y[1]) /\ w = y[2]
  BY InMeaning
<1>4. PICK y \in Values(u, Table(u), m, 0) : Len(u) + 1 \in Gaps(u, y[1]) /\ w = y[2]
  BY <1>3
<1>5. k \in 1..(Len(t) + 1) /\ m \in 1..(Len(u) + 1)
  BY <1>0, GapBounds
<1>6. k \in 1..Len(t) /\ t[k] \notin Whitespace /\ m \in 1..Len(u) /\ u[m] \notin Whitespace
  BY <1>5, ValueBegins
<1>7. k = m
  BY <1>0, <1>6, GapsMeet
<1>8. x[1] \in 1..(Len(t) + 1) /\ y[1] \in 1..(Len(u) + 1)
  BY <1>0, <1>5, TableIs, ValueBounds
<1>9. Follows(t, x[1]) /\ Follows(u, y[1])
  BY <1>2, <1>4, <1>8, GapFollows DEF Follows
<1>10. x \in Numbers(t, k) => \E n : v = [num |-> n]
  <2> SUFFICES ASSUME x \in Numbers(t, k) PROVE \E n : v = [num |-> n]
    OBVIOUS
  <2>1. PICK j : x = <<j, [num |-> SubSeq(t, k, j - 1)]>>
    BY InNumbers
  <2> QED BY <1>2, <2>1
<1>11. x \in Numbers(t, k) => Follows(u, x[1])
  BY <1>9, <1>10
<1>12. MeetLater(t, u, k)
  <2>1. \A q \in (k + 1)..(Len(t) + 1) : q \in 1..(Len(t) + 1)
    BY <1>0, <1>5
  <2> QED BY <2>1, AllMeet DEF MeetLater
<1>13. y \in Values(u, Table(u), k, 0)
  BY <1>7, Zenon
<1>14. x = y
  BY <1>0, <1>5, <1>9, <1>11, <1>12, <1>13, ValuesMeet
<1> QED
  BY <1>2, <1>4, <1>14, Zenon

LEMMA ObjectsAre ==
  ASSUME NEW t, NEW T, NEW p, NEW d, NEW x \in Objects(t, T, p, d)
  PROVE  "arr" \notin DOMAIN x[2]
<1>1. CASE \E k \in Marks(t, p + 1, CloseBrace) : x = <<k + 1, [obj |-> <<>>]>>
  BY <1>1
<1>2. CASE \E k \in Gaps(t, p + 1) : \E m \in T[k].members[d + 1] : x = <<m[1], [obj |-> Object(m[2])]>>
  <2>1. PICK k \in Gaps(t, p + 1) : \E m \in T[k].members[d + 1] : x = <<m[1], [obj |-> Object(m[2])]>>
    BY <1>2
  <2>2. PICK m \in T[k].members[d + 1] : x = <<m[1], [obj |-> Object(m[2])]>>
    BY <2>1
  <2> DEFINE o == Object(m[2])
  <2>3. x = <<m[1], [obj |-> o]>>
    BY <2>2
  <2> HIDE DEF o
  <2> QED BY <2>3
<1>3. \/ \E k \in Marks(t, p + 1, CloseBrace) : x = <<k + 1, [obj |-> <<>>]>>
      \/ \E k \in Gaps(t, p + 1) : \E m \in T[k].members[d + 1] : x = <<m[1], [obj |-> Object(m[2])]>>
  BY InObjects
<1> QED
  BY <1>1, <1>2, <1>3, Zenon

\* An array is no number, and its text begins with a bracket.
LEMMA ArrayBegins ==
  ASSUME NEW t \in Seq(STRING), NEW v \in Meaning(t), "arr" \in DOMAIN v
  PROVE  /\ \E k : k \in Marks(t, 1, OpenBracket)
         /\ \A n : v # [num |-> n]
<1>1. PICK k \in Gaps(t, 1) : \E x \in Values(t, Table(t), k, 0) :
        Len(t) + 1 \in Gaps(t, x[1]) /\ v = x[2]
  BY InMeaning
<1>2. PICK x \in Values(t, Table(t), k, 0) : v = x[2]
  BY <1>1
<1>3. \A n : v # [num |-> n]
  OBVIOUS
<1>4. x \notin Literals(t, k)
  <2>1. \A w : x \in Literals(t, k) => x[2] = Null \/ \E b : x[2] = [bool |-> b]
    BY DEF Literals
  <2>2. "arr" \notin DOMAIN Null /\ \A b : "arr" \notin DOMAIN [bool |-> b]
    BY DEF Null
  <2> QED BY <1>2, <2>1, <2>2
<1>5. x \notin Numbers(t, k)
  <2> SUFFICES ASSUME x \in Numbers(t, k) PROVE FALSE
    OBVIOUS
  <2>1. PICK j : x = <<j, [num |-> SubSeq(t, k, j - 1)]>>
    BY InNumbers
  <2> QED BY <1>2, <1>3, <2>1
<1>6. \A s : x # <<s[1], [str |-> s[2]]>>
  BY <1>2
<1>7. x \notin Objects(t, Table(t), k, 0)
  <2> SUFFICES ASSUME x \in Objects(t, Table(t), k, 0) PROVE FALSE
    OBVIOUS
  <2> QED BY <1>2, ObjectsAre
<1>8. t[k] = OpenBracket /\ ~(k > Len(t))
  BY <1>2, <1>4, <1>5, <1>6, <1>7, InValues, Zenon
<1>9. k \in DOMAIN t
  <2>1. k \in 1..(Len(t) + 1) /\ Len(t) \in Nat
    BY DEF Gaps
  <2> QED BY <1>8, <2>1
<1>10. k \in Marks(t, 1, OpenBracket)
  BY <1>8, <1>9, Zenon DEF Marks, Has
<1> QED
  BY <1>3, <1>10, Zenon

LEMMA MarkOfMore ==
  ASSUME NEW t \in Seq(STRING), NEW u \in Seq(STRING), Begins(t, u), NEW c, NEW k \in Marks(t, 1, c)
  PROVE  k \in Marks(u, 1, c)
<1>1. k \in Gaps(t, 1) /\ Has(t, k, c)
  BY Zenon DEF Marks
<1>2. k \in 1..(Len(t) + 1) /\ InRun(t, 1, k, Whitespace)
  BY <1>1, Zenon DEF Gaps
<1>3. /\ Len(t) \in Nat /\ Len(u) \in Nat /\ Len(t) <= Len(u) /\ \A i \in 1..Len(t) : t[i] = u[i]
  BY DEF Begins
<1>4. k \in 1..Len(t) /\ t[k] = c
  BY <1>1 DEF Has
<1>5. k \in 1..(Len(u) + 1) /\ InRun(u, 1, k, Whitespace)
  BY <1>2, <1>3, <1>4 DEF InRun
<1>6. Has(u, k, c)
  BY <1>3, <1>4 DEF Has
<1> QED
  BY <1>5, <1>6, Zenon DEF Marks, Gaps

(* No text has two meanings: the grammar is unambiguous, so that what the  *)
(* parser returns is the one thing the text can be read as                 *)
(* (json.cpp:12-178).                                                      *)
THEOREM MeaningIsOne ==
  ASSUME NEW t \in Seq(STRING), NEW v \in Meaning(t), NEW w \in Meaning(t)
  PROVE  v = w
<1>1. Begins(t, t)
  BY DEF Begins
<1> QED
  BY <1>1, MeaningsMeet

(* A document that is not a number cannot be cut short and be taken for    *)
(* another one: if what came of it is a document at all, it means the same *)
(* (json.cpp:12-178, docker_api.cpp:108-166).                              *)
THEOREM CutMeansTheSame ==
  ASSUME NEW t \in Seq(STRING), NEW n \in 0..Len(t),
         NEW v \in Meaning(SubSeq(t, 1, n)), NEW w \in Meaning(t), \A m : v # [num |-> m]
  PROVE  v = w
<1> DEFINE s == SubSeq(t, 1, n)
<1>1. s \in Seq(STRING) /\ Len(s) = n /\ \A i \in 1..n : s[i] = t[i]
  OBVIOUS
<1>2. Begins(s, t)
  <2> HIDE DEF s
  <2> QED BY <1>1 DEF Begins
<1> HIDE DEF s
<1>3. v \in Meaning(s)
  BY DEF s
<1> QED
  BY <1>1, <1>2, <1>3, MeaningsMeet
=============================================================================
