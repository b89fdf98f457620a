----------------------------- MODULE JsonGrammar -----------------------------
(***************************************************************************)
(* What a text means, by a grammar and not by a scan from left to right:   *)
(* Meaning(t) is the set of the values that t can be divided up into.  The *)
(* parser has to find the only one there is, or none if there is none.     *)
(*                                                                         *)
(* The grammar is the parser's own where it is wider than RFC 8259: a      *)
(* number may have a plus sign, leading zeros and empty digits after the   *)
(* point or the e, and a string any character.                             *)
(*                                                                         *)
(* A phrase of the grammar that begins at a place of t is a pair: the      *)
(* place after it, and what it stands for.  Each rule gives the phrases at *)
(* p from those at later places, which a table T holds.                    *)
(***************************************************************************)
EXTENDS Json

CONSTANT
  Utf8  \* Utf8[<<u>>], Utf8[<<high, low>>]: the bytes, by the Unicode tables

Has(t, i, c) == i \in DOMAIN t /\ t[i] = c
InRun(t, i, j, S) == \A k \in i..(j - 1) : t[k] \in S

\* Where whitespace that begins at i may end.
Gaps(t, i) == {j \in i..(Len(t) + 1) : InRun(t, i, j, Whitespace)}
\* The places of c after such whitespace.
Marks(t, i, c) == {j \in Gaps(t, i) : Has(t, j, c)}

----------------------------------------------------------------------------
\* Where an optional sign that begins at i may end.
Signs(t, i) == {i} \cup {j \in {i + 1} : i \in DOMAIN t /\ t[i] \in Plus}

\* An optional sign, digits, then perhaps a point and perhaps an e.
IsNumber(t, i, j) ==
  \E a \in Signs(t, i) : \E p \in (a + 1)..j : \E e \in p..j :
    /\ InRun(t, a, p, Digit)
    /\ p < e => Has(t, p, ".") /\ InRun(t, p + 1, e, Digit)
    /\ e < j => Has(t, e, "e") /\ \E b \in Signs(t, e + 1) :
                                     b <= j /\ InRun(t, b, j, Digit)

Numbers(t, p) ==
  {<<j, [num |-> SubSeq(t, p, j - 1)]>> :
     j \in {j \in (p + 1)..(Len(t) + 1) :
              IsNumber(t, p, j) /\ ~OutOfRange(SubSeq(t, p, j - 1))}}

Literals(t, p) ==
  {<<p + 1, v>> : v \in UNION { {Null : c \in {"null"} \cap {t[p]}},
                               {[bool |-> c = "true"] : c \in {"true", "false"} \cap {t[p]}} }}

----------------------------------------------------------------------------
(* The characters of a string: each is itself, an escape or a UTF-16 unit; *)
(* a high half and the low half right after it are one character.          *)

(* UTF-8: six bits to each byte after the first. *)
IsUtf8(b, cp) ==
  /\ b \in Seq(Nat) /\ \A k \in 2..Len(b) : 128 <= b[k] /\ b[k] < 192
  /\ \/ Len(b) = 1 /\ cp < 128 /\ cp = b[1]
     \/ Len(b) = 2 /\ 128 <= cp /\ cp < 2048 /\ cp = 64 * (b[1] - 192) + (b[2] - 128)
     \/ /\ Len(b) = 3 /\ 2048 <= cp /\ cp < 65536
        /\ cp = 4096 * (b[1] - 224) + 64 * (b[2] - 128) + (b[3] - 128)
     \/ /\ Len(b) = 4 /\ 65536 <= cp
        /\ cp = 262144 * (b[1] - 240) + 4096 * (b[2] - 128) + 64 * (b[3] - 128) + (b[4] - 128)

ASSUME Utf8Assumption ==
  \A p, q \in DOMAIN Unit :
    /\ IsUtf8(Utf8[<<Unit[q]>>], Unit[q])
    /\ IsHigh(Unit[p]) /\ IsLow(Unit[q]) =>
         IsUtf8(Utf8[<<Unit[p], Unit[q]>>], Combined(Unit[p], Unit[q]))

Units(t, p) ==
  {Unit[q] : q \in {q \in DOMAIN Unit : Has(t, p, "\\") /\ Has(t, p + 1, "u") /\ Has(t, p + 2, q)}}
Pairs(t, p) ==
  {u \in Units(t, p) \X Units(t, p + 3) : IsHigh(u[1]) /\ IsLow(u[2])}

Characters(t, p) ==
  UNION {
    {<<p + 1, Bytes[c]>> : c \in {c \in DOMAIN Bytes \ {"\"", "\\"} : Has(t, p, c)}},
    {<<p + 2, Escapes[c]>> : c \in {c \in DOMAIN Escapes : Has(t, p, "\\") /\ Has(t, p + 1, c)}},
    {<<p + 3, Utf8[<<u>>]>> : u \in {u \in Units(t, p) : Pairs(t, p) = {}}},
    {<<p + 6, Utf8[pair]>> : pair \in Pairs(t, p)} }

\* A list or an item, and after it the list r.
ListThen(s, r) == <<r[1], s[2] \o r[2]>>
ItemThen(v, r) == <<r[1], <<v[2]>> \o r[2]>>

\* The rest of a string, up to its closing quote.
Chars(t, T, p) ==
  {<<p + 1, <<>>>> : q \in {q \in {p} : Has(t, p, "\"")}}
  \cup UNION { {ListThen(c, r) : r \in T[c[1]].chars} : c \in Characters(t, p) }

StringAt(t, T, p) == IF Has(t, p, "\"") THEN T[p + 1].chars ELSE {}

----------------------------------------------------------------------------
(* The values at depth d, and what may come after an entry of a container. *)

\* The last of the members of one name counts.
Names(ms) == {ms[i].name : i \in DOMAIN ms}
Latest(ms, n) == Max({i \in DOMAIN ms : ms[i].name = n})
Object(ms) == [n \in Names(ms) |-> ms[Latest(ms, n)].val]

Arrays(t, T, p, d) ==
  {<<k + 1, [arr |-> <<>>]>> : k \in Marks(t, p + 1, "]")}
  \cup UNION { {<<e[1], [arr |-> e[2]]>> : e \in T[k].elements[d + 1]} : k \in Gaps(t, p + 1) }
Objects(t, T, p, d) ==
  {<<k + 1, [obj |-> <<>>]>> : k \in Marks(t, p + 1, "}")}
  \cup UNION { {<<m[1], [obj |-> Object(m[2])]>> : m \in T[k].members[d + 1]} : k \in Gaps(t, p + 1) }

Values(t, T, p, d) ==
  IF d > kMaxDepth \/ p > Len(t) THEN {}
  ELSE UNION {
         Literals(t, p), Numbers(t, p),
         {<<s[1], [str |-> s[2]]>> : s \in StringAt(t, T, p)},
         IF t[p] = "[" THEN Arrays(t, T, p, d) ELSE {},
         IF t[p] = "{" THEN Objects(t, T, p, d) ELSE {} }

\* After an element or a member: the end of its container, or a comma and more.
MoreElements(t, T, i, d) ==
  {<<k + 1, <<>>>> : k \in Marks(t, i, "]")}
  \cup UNION { UNION { T[j].elements[d] : j \in Gaps(t, k + 1) } : k \in Marks(t, i, ",") }
MoreMembers(t, T, i, d) ==
  {<<k + 1, <<>>>> : k \in Marks(t, i, "}")}
  \cup UNION { UNION { T[j].members[d] : j \in Gaps(t, k + 1) } : k \in Marks(t, i, ",") }

\* The elements of an array, and the members of an object, from p on.
Elements(t, T, p, d) ==
  UNION { {ItemThen(v, r) : r \in MoreElements(t, T, v[1], d)}
          : v \in Values(t, T, p, d) }

Member(t, T, p, d) ==
  UNION { UNION { UNION { {<<v[1], [name |-> s[2], val |-> v[2]]>> : v \in Values(t, T, j, d)}
                          : j \in Gaps(t, k + 1) }
                  : k \in Marks(t, s[1], ":") }
          : s \in StringAt(t, T, p) }
Members(t, T, p, d) ==
  UNION { {ItemThen(m, r) : r \in MoreMembers(t, T, m[1], d)}
          : m \in Member(t, T, p, d) }

----------------------------------------------------------------------------
\* The phrases that the table holds for the place p.
Phrases(t, T, p) ==
  [chars    |-> Chars(t, T, p),
   elements |-> [d \in 0..(kMaxDepth + 1) |-> Elements(t, T, p, d)],
   members  |-> [d \in 0..(kMaxDepth + 1) |-> Members(t, T, p, d)]]

NoPhrases ==
  [chars    |-> {},
   elements |-> [d \in 0..(kMaxDepth + 1) |-> {}],
   members  |-> [d \in 0..(kMaxDepth + 1) |-> {}]]

\* The table, filled from the last place on: after n turns at the last n places.
Filled(t, T, p) == [T EXCEPT ![p] = Phrases(t, T, p)]
Tables(t) ==
  LET filled[n \in 0..(Len(t) + 1)] ==
        IF n = 0 THEN [p \in 1..(Len(t) + 1) |-> NoPhrases]
        ELSE Filled(t, filled[n - 1], Len(t) + 2 - n)
  IN  filled
Table(t) == Tables(t)[Len(t) + 1]

\* A value with nothing but whitespace around it.
Meaning(t) ==
  LET values == UNION { Values(t, Table(t), k, 0) : k \in Gaps(t, 1) }
  IN  {v[2] : v \in {w \in values : Len(t) + 1 \in Gaps(t, w[1])}}

(* The parser accepts just the texts of the grammar that are nested no     *)
(* deeper than kMaxDepth, and what it builds is what the text means: every *)
(* element in its place, every code point in UTF-8, the last of two equal  *)
(* keys (json.cpp:63-278).                                                 *)
ParsesWhatIsMeant ==
  /\ ctl = "ok" => Meaning(text) = {out}
  /\ ctl = "failed" => Meaning(text) = {}
=============================================================================
