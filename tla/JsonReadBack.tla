---------------------------- MODULE JsonReadBack ----------------------------
(* json-c: json_tokener_parse_ex as one function of the tokener and a piece   *)
(* of text, what the turns of JsonTokener compute; and what the client's      *)
(* calls return, against the printers of JsonText.                            *)
EXTENDS JsonTokener, JsonText

CONSTANTS
  Values,            \* values the client prints and parses again
  PrintFlags         \* flags it prints them with

\* The loop: the state when it is left, and the last character c.
RECURSIVE Loop(_, _, _)
After(r, s) ==
  CASE r.go = "redo" -> Loop(r.t, s, s[1])
    [] r.go = "out" \/ (r.go = "next" /\ s[1] = NUL) -> [t |-> r.t, c |-> s[1]]
    [] r.go = "next" /\ s[1] # NUL -> Loop(r.t, SubSeq(s, 2 + r.skip, Len(s)), s[1 + r.skip])
Loop(t, s, c) ==
  IF s = <<>> THEN [t |-> AtEnd(t), c |-> c] ELSE After(Switch(t, s[1], Tail(s)), s)

json_tokener_parse_ex(t, piece) ==
  LET left == Loop(Called(t), piece, "SOH") IN Return(Out(left.t, left.c))
json_tokener_parse_verbose(text) ==
  json_tokener_parse_ex(json_tokener_new_ex, Append(text, NUL)).ret

Printed == {[from |-> v, text |-> json_object_to_json_string_ext(v, f)] :
              v \in Values, f \in PrintFlags}
-----------------------------------------------------------------------------
\* The texts in which the code treats the end of a call like something else: a
\* high surrogate, which is given up there, and "i" behind a number with a
\* minus, which starts the second word of "-Infinity" if a single character of
\* the number came in this call.
Surrogate(text) ==
  \E i \in 1..Len(text) - 3 :
    /\ text[i] = "\\" /\ text[i + 1] = "u" /\ text[i + 2] \in {"d", "D"}
    /\ text[i + 3] \in {"8", "9", "a", "b", "A", "B"}
MinusI(text) ==
  \E i, j \in DOMAIN text :
    /\ i < j /\ text[i] = "-" /\ text[j] \in {"I", "i"}
    /\ \A k \in i + 1..j - 1 : text[k] \in json_number_chars
CutSensitive(text) == Surrogate(text) \/ MinusI(text)
\* No early end.
Whole == jfed = SubSeq(jdoc, 1, Len(jfed))

\* What json_object_to_json_string_ext prints, json_tokener_parse_ex reads back
\* as the same value, whatever the layout flags, wherever the client cuts the
\* text and whatever it parsed before; a value that needs more levels than the
\* tokener has is refused for its depth.  The text of an object, an array or a
\* string that ends early is never taken for a value.  Exempt is a value with
\* the double -Infinity (json_object.c:609): behind a literal or an escape of
\* the same text the tokener refuses it, because "-" does not set st_pos back
\* to 0, and cut behind the sign it refuses it too (see FedFreely).
PrintedTextReadBack ==
  \A p \in Printed : (Ended /\ FromGround /\ jdoc = Append(p.text, NUL) /\ ~MinusI(p.text)) =>
    CASE Whole /\ Height(p.from) <= MaxDepth ->
           jret = [err |-> "success", v |-> Meaning(p.from)]
      [] Whole /\ Height(p.from) > MaxDepth -> jret.err = "depth"
      [] ~Whole -> p.from.t \in {"object", "array", "string"} => jret.err # "success"

\* The answer that a new tokener gives to the same characters in one call.
AtOnce ==
  json_tokener_parse_ex([json_tokener_new_ex EXCEPT !.strict = tok.strict], jfed).ret

\* Neither the cuts nor the tokener's past show: whatever has been fed so far,
\* in however many calls, on a tokener that was used and reset or kept, the
\* answer is AtOnce.  Exempt are the texts of CutSensitive.
CutsAndPastInvisible ==
  (~jcall /\ jret # Pending /\ FromGround /\ ~CutSensitive(jdoc)) => jret = AtOnce

\* The same for every text: "json_tokener_parse_ex() can then be called with
\* additional bytes in str to continue the parsing" (json_tokener.h:141-142),
\* where str is "any valid JSON expression, or portion of" (line 198).
FedFreely == (~jcall /\ jret # Pending /\ FromGround) => jret = AtOnce
=============================================================================
