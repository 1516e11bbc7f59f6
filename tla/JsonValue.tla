----------------------------- MODULE JsonValue -----------------------------
(* json-c: JSON values, the characters of JSON text, and the two number       *)
(* readers of json_util.c.                                                    *)
(*                                                                            *)
(* A text is a sequence of characters.  A character is a string of length     *)
(* one, or a name for one that TLA+ strings cannot write.  A byte sequence    *)
(* that encodes one character beyond ASCII is one element: neither the        *)
(* printer nor the tokener looks into it.                                     *)
EXTENDS Integers, Sequences, TLC
LOCAL INSTANCE SequencesExt

CONSTANT IntMax      \* INT64_MAX
ASSUME IntMaxAssumption == IntMax \in Nat \ {0}
IntMin == -IntMax - 1

Chars(s) == [i \in 1..Len(s) |-> SubSeq(s, i, i)]
NUL == "NUL"
\* Character codes, for the characters that travel as \u00XX.
Code == [NUL |-> 0, SOH |-> 1, US |-> 31]
Hex == Chars("0123456789abcdef")
Digits == {Hex[i] : i \in 1..10}
DigitVal(c) == (CHOOSE i \in 1..10 : Hex[i] = c) - 1

\* Strings and doubles carry text; a double remembers the text it was read
\* from or, if the program made it, the text of %.17g ("made").
JNull == [t |-> "null"]
Bool(b) == [t |-> "boolean", b |-> b]
Num(n) == [t |-> "int", n |-> n]
Str(s) == [t |-> "string", s |-> s]
Double(s) == [t |-> "double", s |-> s, made |-> FALSE]
NewDouble(s) == [t |-> "double", s |-> s, made |-> TRUE]
Arr(vs) == [t |-> "array", el |-> vs]
Obj(kvs) == [t |-> "object", kv |-> kvs]
-----------------------------------------------------------------------------
\* Reading numbers

Saturated(n) == IF n > IntMax THEN IntMax ELSE IF n < IntMin THEN IntMin ELSE n

\* sscanf reads the longest prefix that is a number: a sign, then digits.
\* What does not fit becomes the limit on the side of the sign.
json_parse_int64(buf) ==
  LET neg == buf # <<>> /\ buf[1] = "-"
      from == IF neg THEN 2 ELSE 1
      ends == {i \in from..Len(buf) : \A j \in from..i : buf[j] \in Digits}
      digits == IF ends = {} THEN <<>>
                ELSE SubSeq(buf, from, CHOOSE i \in ends : \A j \in ends : j <= i)
      Add(c, n) == Saturated(n * 10 + (IF neg THEN -DigitVal(c) ELSE DigitVal(c)))
  IN  [ok |-> ends # {}, num |-> FoldLeft(LAMBDA n, c : Add(c, n), 0, digits)]

\* sscanf %lf needs a digit in the mantissa; what follows is not looked at.
json_parse_double(buf) ==
  \E i \in 1..Len(buf) : /\ buf[i] \in Digits
                         /\ \A j \in 1..i - 1 : buf[j] \in {"-", "."} /\ (buf[j] = "-" => j = 1)
=============================================================================
