------------------------------ MODULE JsonText ------------------------------
(* json-c: the text json_object_to_json_string_ext prints for a value         *)
(* (json_object.c), and what a value says.                                    *)
EXTENDS JsonValue
LOCAL INSTANCE SequencesExt

\* What a value says, however its doubles were made.
RECURSIVE Meaning(_)
Meaning(v) ==
  CASE v.t = "double" -> Double(v.s)
    [] v.t = "array" -> Arr([i \in DOMAIN v.el |-> Meaning(v.el[i])])
    [] v.t = "object" ->
         Obj([i \in DOMAIN v.kv |-> [k |-> v.kv[i].k, v |-> Meaning(v.kv[i].v)]])
    [] OTHER -> v

\* Levels of the tokener's stack that a value takes.
RECURSIVE Height(_)
Height(v) ==
  LET kids == CASE v.t = "array" -> {v.el[i] : i \in DOMAIN v.el}
                [] v.t = "object" -> {v.kv[i].v : i \in DOMAIN v.kv}
                [] OTHER -> {}
      below == {Height(k) : k \in kids}
  IN  1 + (IF below = {} THEN 0 ELSE CHOOSE h \in below : \A g \in below : g <= h)
-----------------------------------------------------------------------------
\* Printing
Escape == "BS" :> "b" @@ "\n" :> "n" @@ "\r" :> "r" @@ "\t" :> "t" @@ "\f" :> "f"
          @@ "\"" :> "\"" @@ "\\" :> "\\" @@ "/" :> "/"

EscapeChar(c) ==
  IF c \in DOMAIN Escape THEN <<"\\", Escape[c]>>
  ELSE IF c \in DOMAIN Code
       THEN <<"\\", "u", "0", "0", Hex[(Code[c] \div 16) + 1], Hex[(Code[c] % 16) + 1]>>
       ELSE <<c>>
\* Forgets the control characters that have no letter of their own.
Bug_json_escape_str(s) ==
  FlattenSeq([i \in DOMAIN s |-> IF s[i] \in DOMAIN Escape THEN EscapeChar(s[i]) ELSE <<s[i]>>])
json_escape_str(s) == FlattenSeq([i \in DOMAIN s |-> EscapeChar(s[i])])
Quoted(s) == <<"\"">> \o json_escape_str(s) \o <<"\"">>

\* A double made by the program: with NOZERO everything behind the last
\* character that is not '0' is dropped, but one digit is kept.
json_object_double_to_json_string(v, flags) ==
  LET s == v.s
      dots == {i \in DOMAIN s : s[i] = "."}
  IN  IF dots = {} \/ "NOZERO" \notin flags \/ ~v.made THEN s
      ELSE LET dot == CHOOSE i \in dots : TRUE
               last == CHOOSE i \in dot + 1..Len(s) :
                         /\ s[i] # "0" \/ i = dot + 1
                         /\ \A j \in i + 1..Len(s) : s[j] = "0"
           IN  SubSeq(s, 1, last)

When(flag, flags, text) == IF flag \in flags THEN text ELSE <<>>
indent(level, flags) == When("PRETTY", flags, [i \in 1..2 * level |-> " "])

\* The layout that objects and arrays share: items is the text of each member.
Enclose(open, items, close, level, flags) ==
  LET nl == When("PRETTY", flags, <<"\n">>)
      Item(i) == (IF i = 1 THEN <<>> ELSE <<",">> \o nl)
                 \o When("SPACED", flags, <<" ">>) \o indent(level + 1, flags) \o items[i]
  IN  <<open>> \o nl \o FlattenSeq([i \in DOMAIN items |-> Item(i)])
      \o (IF items = <<>> THEN <<>> ELSE nl) \o indent(level, flags)
      \o When("SPACED", flags, <<" ">>) \o <<close>>

RECURSIVE ToJsonString(_, _, _)
json_object_object_to_json_string(v, level, flags) ==
  LET colon == <<":">> \o When("SPACED", flags, <<" ">>)
  IN  Enclose("{", [i \in DOMAIN v.kv |->
                      Quoted(v.kv[i].k) \o colon \o ToJsonString(v.kv[i].v, level + 1, flags)],
              "}", level, flags)
json_object_array_to_json_string(v, level, flags) ==
  Enclose("[", [i \in DOMAIN v.el |-> ToJsonString(v.el[i], level + 1, flags)],
          "]", level, flags)
ToJsonString(v, level, flags) ==
  CASE v.t = "null" -> Chars("null")
    [] v.t = "boolean" -> Chars(IF v.b THEN "true" ELSE "false")
    [] v.t = "int" -> Chars(ToString(v.n))
    [] v.t = "double" -> json_object_double_to_json_string(v, flags)
    [] v.t = "string" -> Quoted(v.s)
    [] v.t = "array" -> json_object_array_to_json_string(v, level, flags)
    [] v.t = "object" -> json_object_object_to_json_string(v, level, flags)

json_object_to_json_string_ext(v, flags) == ToJsonString(v, 0, flags)
=============================================================================
