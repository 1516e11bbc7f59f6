---------------------------- MODULE JsonTokener ----------------------------
(* json-c: the incremental parser, json_tokener_parse_ex (json_tokener.c).    *)
(* A client feeds one document in pieces that it may cut anywhere, and then   *)
(* perhaps a second one with the same tokener.  One action is one turn of the *)
(* parser's loop, or the begin of a call.                                     *)
(*                                                                            *)
(* The switch of the parser is a function of its state and one character.     *)
(* The tight loops of the code (over white space, strings, comments and       *)
(* numbers) are that function applied again: they only save time, except for  *)
(* their local variables case_len and got_hi_surrogate, which every call      *)
(* starts at zero.  An unlucky allocation is not modelled.                    *)
EXTENDS JsonValue

CONSTANTS
  MaxDepth,          \* json_tokener_new_ex(depth)
  Docs,              \* documents for a new tokener
  AgainDocs,         \* documents it parses with the same tokener later
  PieceSizes         \* characters in a call; a call may also bring all the rest
ASSUME MaxDepthAssumption == MaxDepth \in Nat \ {0}
ASSUME DocsAssumption == \A d \in Docs \cup AgainDocs : d \in Seq(STRING)
ASSUME PieceSizesAssumption == PieceSizes \subseteq Nat

VARIABLES
  tok,               \* struct json_tokener
  jdoc,              \* the document with its terminator
  jfed,              \* characters of it already handed to the parser
  jpos,              \* how many of these the parser has gone past
  jcall,             \* a call is in its loop
  jret,              \* what the last call returned
  jold               \* a document came before this one on the same tokener
jtVars == <<tok, jdoc, jfed, jpos, jcall, jret, jold>>

Level0 == [state |-> "eatws", saved |-> "start", current |-> JNull, name |-> <<>>]
\* calloc, then json_tokener_reset; the last three fields are the locals of a call.
json_tokener_new_ex ==
  [depth |-> 0, stack |-> [d \in 0..MaxDepth - 1 |-> Level0], pb |-> <<>>, st_pos |-> 0,
   ucs_char |-> 0, quote_char |-> NUL, is_double |-> FALSE, err |-> "success",
   strict |-> FALSE, case_len |-> 0, hi |-> 0, obj |-> JNull]

\* Leaves out the level that the tokener is on.
Bug_json_tokener_reset_levels(t) ==
  [t EXCEPT !.stack = [d \in DOMAIN @ |-> IF d < t.depth THEN Level0 ELSE @[d]]]
json_tokener_reset_levels(t) ==
  [t EXCEPT !.stack = [d \in DOMAIN @ |-> IF d <= t.depth THEN Level0 ELSE @[d]]]
json_tokener_reset(t) == [json_tokener_reset_levels(t) EXCEPT !.depth = 0, !.err = "success"]
-----------------------------------------------------------------------------
\* Moves of the state machine.  A case ends by going on with the next
\* character, by looking at the same one again, or by leaving the loop;
\* skip counts characters it has taken besides its own.
Top(t) == t.stack[t.depth]
Goes(go, t) == [t |-> t, go |-> go, skip |-> 0]
State(t, s) == [t EXCEPT !.stack[t.depth].state = s]
Blanks(t, next) ==
  [t EXCEPT !.stack[t.depth].state = "eatws", !.stack[t.depth].saved = next]
Complete(t, v) == Blanks([t EXCEPT !.stack[t.depth].current = v], "finish")
Append1(t, c) == [t EXCEPT !.pb = Append(@, c)]
Fail(t, e) == Goes("out", [t EXCEPT !.err = e])

Space == {" ", "\t", "\n", "\f", "\r"}
eatws(t, c) ==
  IF c \in Space THEN Goes("next", t)
  ELSE IF c = "/" /\ ~t.strict
       THEN Goes("next", State([t EXCEPT !.pb = <<c>>], "comment_start"))
       ELSE Goes("redo", State(t, Top(t).saved))

Fresh(t, s) == State([t EXCEPT !.pb = <<>>], s)
\* Does not go back to the beginning of a truth value.
Bug_start(t, c) ==
  CASE c = "{" -> Goes("next", [Blanks(t, "object_field_start")
                                  EXCEPT !.stack[t.depth].current = Obj(<<>>)])
    [] c = "[" -> Goes("next", [Blanks(t, "array") EXCEPT !.stack[t.depth].current = Arr(<<>>)])
    [] c \in {"I", "i"} -> Goes("redo", [Fresh(t, "inf") EXCEPT !.st_pos = 0])
    [] c \in {"N", "n"} -> Goes("redo", [Fresh(t, "null") EXCEPT !.st_pos = 0])
    [] c \in {"T", "t", "F", "f"} -> Goes("redo", Fresh(t, "boolean"))
    [] c = "\"" \/ (c = "'" /\ ~t.strict) ->
         Goes("next", [Fresh(t, "string") EXCEPT !.quote_char = c])
    [] c \in Digits \cup {"-"} ->
         Goes("redo", [Fresh(t, "number") EXCEPT !.is_double = FALSE, !.case_len = 0])
    [] OTHER -> Fail(t, "parse_unexpected")

start(t, c) ==
  CASE c = "{" -> Goes("next", [Blanks(t, "object_field_start")
                                  EXCEPT !.stack[t.depth].current = Obj(<<>>)])
    [] c = "[" -> Goes("next", [Blanks(t, "array") EXCEPT !.stack[t.depth].current = Arr(<<>>)])
    [] c \in {"I", "i"} -> Goes("redo", [Fresh(t, "inf") EXCEPT !.st_pos = 0])
    [] c \in {"N", "n"} -> Goes("redo", [Fresh(t, "null") EXCEPT !.st_pos = 0])
    [] c \in {"T", "t", "F", "f"} -> Goes("redo", [Fresh(t, "boolean") EXCEPT !.st_pos = 0])
    [] c = "\"" \/ (c = "'" /\ ~t.strict) ->
         Goes("next", [Fresh(t, "string") EXCEPT !.quote_char = c])
    [] c \in Digits \cup {"-"} ->
         Goes("redo", [Fresh(t, "number") EXCEPT !.is_double = FALSE, !.case_len = 0])
    [] OTHER -> Fail(t, "parse_unexpected")

\* json_object_get, json_tokener_reset_level, depth--: the value waits in obj
\* for the level above, which takes it at once.
finish(t, c) ==
  IF t.depth = 0 THEN Goes("out", t)
  ELSE Goes("redo", [t EXCEPT !.obj = Top(t).current, !.depth = @ - 1,
                              !.stack[t.depth] = Level0])

\* strncmp of the first st_pos + 1 characters, strncasecmp unless strict.
Lower == "I" :> "i" @@ "N" :> "n" @@ "T" :> "t" @@ "F" :> "f" @@ "A" :> "a" @@ "U" :> "u"
         @@ "L" :> "l" @@ "R" :> "r" @@ "E" :> "e" @@ "S" :> "s" @@ "Y" :> "y"
LowerOf(c) == IF c \in DOMAIN Lower THEN Lower[c] ELSE c
Agrees(t, word, buf) ==
  \A i \in 1..Len(word) : i <= t.st_pos + 1 =>
    /\ i <= Len(buf)
    /\ word[i] = buf[i] \/ (~t.strict /\ LowerOf(word[i]) = LowerOf(buf[i]))

\* The value is there when the character behind the whole word has been seen.
Literal(t, word, v) ==
  IF t.st_pos = Len(word) THEN Goes("redo", Complete(t, v))
  ELSE Goes("next", [t EXCEPT !.st_pos = @ + 1])

inf(t, c) ==
  LET u == Append1(t, c)
      neg == u.pb[1] = "-"
      word == Chars("Infinity")
  IN  IF Agrees(u, word, IF neg THEN Tail(u.pb) ELSE u.pb)
      THEN Literal(u, word, Double(Chars(IF neg THEN "-Infinity" ELSE "Infinity")))
      ELSE Fail(u, "parse_unexpected")
null(t, c) ==
  LET u == Append1(t, c)
  IN  CASE Agrees(u, Chars("null"), u.pb) -> Literal(u, Chars("null"), JNull)
        [] ~Agrees(u, Chars("null"), u.pb) /\ Agrees(u, Chars("NaN"), u.pb) ->
             Literal(u, Chars("NaN"), Double(Chars("NaN")))
        [] OTHER -> Fail(u, "parse_null")
boolean(t, c) ==
  LET u == Append1(t, c)
  IN  CASE Agrees(u, Chars("true"), u.pb) -> Literal(u, Chars("true"), Bool(TRUE))
        [] Agrees(u, Chars("false"), u.pb) -> Literal(u, Chars("false"), Bool(FALSE))
        [] OTHER -> Fail(u, "parse_boolean")

comment_start(t, c) ==
  CASE c = "*" -> Goes("next", State(Append1(t, c), "comment"))
    [] c = "/" -> Goes("next", State(Append1(t, c), "comment_eol"))
    [] OTHER -> Fail(t, "parse_comment")
comment(t, c) == Goes("next", IF c = "*" THEN State(Append1(t, c), "comment_end") ELSE Append1(t, c))
comment_eol(t, c) == Goes("next", IF c = "\n" THEN State(t, "eatws") ELSE Append1(t, c))
comment_end(t, c) == Goes("next", State(Append1(t, c), IF c = "/" THEN "eatws" ELSE "comment"))

string(t, c) ==
  CASE c = t.quote_char -> Goes("next", Complete(t, Str(t.pb)))
    [] c = "\\" -> Goes("next", [State(t, "string_escape") EXCEPT !.stack[t.depth].saved = "string"])
    [] OTHER -> Goes("next", Append1(t, c))

Unescape == [b |-> "BS", n |-> "\n", r |-> "\r", t |-> "\t", f |-> "\f"]
string_escape(t, c) ==
  CASE c \in {"\"", "\\", "/"} -> Goes("next", State(Append1(t, c), Top(t).saved))
    [] c \in DOMAIN Unescape -> Goes("next", State(Append1(t, Unescape[c]), Top(t).saved))
    [] c = "u" -> Goes("next", [State(t, "escape_unicode") EXCEPT !.ucs_char = 0, !.st_pos = 0,
                                                                 !.hi = 0])
    [] OTHER -> Fail(t, "parse_string")
-----------------------------------------------------------------------------
\* \uXXXX.  The bytes of a character beyond ASCII are one element of pb.
json_hex_chars == Chars("0123456789abcdefABCDEF")
IsHex(c) == c = NUL \/ \E i \in DOMAIN json_hex_chars : json_hex_chars[i] = c
\* strchr also finds the terminator, whose "digit" is 0 - '0'.
jt_hexdigit(c) ==
  IF c = NUL THEN -48
  ELSE LET i == CHOOSE j \in DOMAIN json_hex_chars : json_hex_chars[j] = c
       IN  IF i <= 16 THEN i - 1 ELSE i - 7
CharOf(cp) ==
  IF \E c \in DOMAIN Code : Code[c] = cp THEN CHOOSE c \in DOMAIN Code : Code[c] = cp
  ELSE IF cp = 65 THEN "A" ELSE "U+" \o ToString(cp)
LastCodePoint == 1114111
utf8_replacement_char == CharOf(65533)
IsHigh(u) == u \div 1024 = 54      \* (u & 0xFC00) == 0xD800
IsLow(u) == u \div 1024 = 55
DecodePair(hi, lo) == ((hi % 1024) * 1024) + (lo % 1024) + 65536

\* Four digits are complete: rest is what the call still has to read.
Unicode(t, rest) ==
  LET orphan == t.hi # 0 /\ ~IsLow(t.ucs_char)
      ucs == IF t.hi # 0 /\ ~orphan THEN DecodePair(t.hi, t.ucs_char) ELSE t.ucs_char
      pb == IF orphan THEN Append(t.pb, utf8_replacement_char) ELSE t.pb
      Ends(c) == Goes("next", State([t EXCEPT !.ucs_char = ucs, !.pb = Append(pb, c), !.hi = 0],
                                    Top(t).saved))
      pair == Len(rest) >= 2 /\ rest[1] = "\\" /\ rest[2] = "u"
  IN  CASE IsHigh(ucs) /\ pair /\ Len(rest) > 2 ->
             [Goes("next", [t EXCEPT !.pb = pb, !.hi = ucs, !.ucs_char = 0, !.st_pos = 0])
                EXCEPT !.skip = 2]
        [] IsHigh(ucs) /\ pair /\ Len(rest) = 2 ->
             [Goes("next", [t EXCEPT !.pb = Append(pb, utf8_replacement_char)]) EXCEPT !.skip = 2]
        [] (IsHigh(ucs) /\ ~pair) \/ IsLow(ucs) \/ ucs \notin 0..LastCodePoint ->
             Ends(utf8_replacement_char)
        [] OTHER -> Ends(CharOf(ucs))

\* With st_pos past 3 the code shifts by a negative count; the sum is never
\* used again, so that it does not matter what it becomes.
escape_unicode(t, c, rest) ==
  IF ~IsHex(c) THEN Fail(t, "parse_string")
  ELSE LET u == [t EXCEPT !.ucs_char = @ + (IF t.st_pos > 3 THEN 0
                                            ELSE jt_hexdigit(c) * 16 ^ (3 - t.st_pos)),
                          !.st_pos = @ + 1]
       IN  IF u.st_pos = 4 THEN Unicode(u, rest) ELSE Goes("next", u)
-----------------------------------------------------------------------------
json_number_chars == {Chars("0123456789.+-eE")[i] : i \in 1..15}
NumberEnds(t) ==
  LET int == json_parse_int64(t.pb)
  IN  CASE ~t.is_double /\ int.ok /\ int.num # 0 /\ t.pb[1] = "0" /\ t.strict ->
             Fail(t, "parse_number")
        [] ~t.is_double /\ int.ok /\ ~(int.num # 0 /\ t.pb[1] = "0" /\ t.strict) ->
             Goes("redo", Complete(t, Num(int.num)))
        [] t.is_double /\ json_parse_double(t.pb) -> Goes("redo", Complete(t, Double(t.pb)))
        [] OTHER -> Fail(t, "parse_number")
number(t, c) ==
  CASE c \in json_number_chars ->
         Goes("next", [Append1(t, c) EXCEPT !.case_len = @ + 1,
                                            !.is_double = @ \/ c \in {".", "e", "E"}])
    [] c \in {"i", "I"} /\ t.pb[1] = "-" /\ t.case_len = 1 -> Goes("redo", State(t, "inf"))
    [] OTHER -> NumberEnds(t)

\* json_tokener_reset_level of the new level.
Descend(t, back) ==
  IF t.depth >= MaxDepth - 1 THEN Fail(t, "depth")
  ELSE Goes("redo", [State(t, back) EXCEPT !.depth = @ + 1, !.stack[t.depth + 1] = Level0])

array(t, c) ==
  IF c # "]" THEN Descend(t, "array_add")
  ELSE IF Top(t).state = "array_after_sep" /\ t.strict THEN Fail(t, "parse_unexpected")
       ELSE Goes("next", Blanks(t, "finish"))
array_add(t, c) ==
  Goes("redo", Blanks([t EXCEPT !.stack[t.depth].current.el = Append(@, t.obj)], "array_sep"))
array_sep(t, c) ==
  CASE c = "]" -> Goes("next", Blanks(t, "finish"))
    [] c = "," -> Goes("next", Blanks(t, "array_after_sep"))
    [] OTHER -> Fail(t, "parse_array")

object_field_start(t, c) ==
  CASE c = "}" /\ Top(t).state = "object_field_start_after_sep" /\ t.strict ->
         Fail(t, "parse_unexpected")
    [] c = "}" /\ ~(Top(t).state = "object_field_start_after_sep" /\ t.strict) ->
         Goes("next", Blanks(t, "finish"))
    [] c \in {"\"", "'"} -> Goes("next", [Fresh(t, "object_field") EXCEPT !.quote_char = c])
    [] OTHER -> Fail(t, "parse_object_key_name")
\* strdup: the name ends at its first NUL.
CString(s) ==
  LET ends == {i \in 0..Len(s) : \A j \in 1..i : s[j] # NUL}
  IN  SubSeq(s, 1, CHOOSE i \in ends : \A j \in ends : j <= i)
object_field(t, c) ==
  CASE c = t.quote_char ->
         Goes("next", Blanks([t EXCEPT !.stack[t.depth].name = CString(t.pb)], "object_field_end"))
    [] c = "\\" ->
         Goes("next", [State(t, "string_escape") EXCEPT !.stack[t.depth].saved = "object_field"])
    [] OTHER -> Goes("next", Append1(t, c))
object_field_end(t, c) ==
  IF c = ":" THEN Goes("next", Blanks(t, "object_value")) ELSE Fail(t, "parse_object_key_sep")
object_value(t, c) == Descend(t, "object_value_add")
\* json_object_object_add: a name that is there already keeps its place.
ObjectAdd(kv, k, v) ==
  LET at == {i \in DOMAIN kv : kv[i].k = k}
  IN  IF at = {} THEN Append(kv, [k |-> k, v |-> v])
      ELSE [i \in DOMAIN kv |-> IF i \in at THEN [k |-> k, v |-> v] ELSE kv[i]]
object_value_add(t, c) ==
  Goes("redo", Blanks([t EXCEPT !.stack[t.depth].current.kv = ObjectAdd(@, Top(t).name, t.obj),
                                !.stack[t.depth].name = <<>>], "object_sep"))
object_sep(t, c) ==
  CASE c = "}" -> Goes("next", Blanks(t, "finish"))
    [] c = "," -> Goes("next", Blanks(t, "object_field_start_after_sep"))
    [] OTHER -> Fail(t, "parse_object_value_sep")

Switch(t, c, rest) ==
  LET s == Top(t).state
  IN  CASE s = "eatws" -> eatws(t, c) [] s = "start" -> start(t, c)
        [] s = "finish" -> finish(t, c) [] s = "inf" -> inf(t, c)
        [] s = "null" -> null(t, c) [] s = "boolean" -> boolean(t, c)
        [] s = "comment_start" -> comment_start(t, c) [] s = "comment" -> comment(t, c)
        [] s = "comment_eol" -> comment_eol(t, c) [] s = "comment_end" -> comment_end(t, c)
        [] s = "string" -> string(t, c) [] s = "string_escape" -> string_escape(t, c)
        [] s = "escape_unicode" -> escape_unicode(t, c, rest)
        [] s = "number" -> number(t, c)
        [] s \in {"array", "array_after_sep"} -> array(t, c)
        [] s = "array_add" -> array_add(t, c) [] s = "array_sep" -> array_sep(t, c)
        [] s \in {"object_field_start", "object_field_start_after_sep"} ->
             object_field_start(t, c)
        [] s = "object_field" -> object_field(t, c)
        [] s = "object_field_end" -> object_field_end(t, c)
        [] s = "object_value" -> object_value(t, c)
        [] s = "object_value_add" -> object_value_add(t, c)
        [] s = "object_sep" -> object_sep(t, c)

\* PEEK_CHAR at the end of the piece; half a surrogate pair is given up.
AtEnd(t) ==
  [t EXCEPT !.pb = IF t.hi # 0 THEN Append(@, utf8_replacement_char) ELSE @,
            !.err = IF t.depth = 0 /\ Top(t).state = "eatws" /\ Top(t).saved = "finish"
                    THEN "success" ELSE "continue"]

\* The label out: the tokener with the error of the call.
Out(t, c) ==
  LET at == Top(t)
      extra == c # NUL /\ at.state = "finish" /\ t.depth = 0 /\ t.strict
      eof == c = NUL /\ at.state # "finish" /\ at.saved # "finish"
  IN  [t EXCEPT !.err = IF extra THEN "parse_unexpected" ELSE IF eof THEN "parse_eof" ELSE @]
\* After a success every level in use is reset, the depth is not.
Return(t) ==
  IF t.err # "success" THEN [t |-> t, ret |-> [err |-> t.err, v |-> JNull]]
  ELSE [t |-> json_tokener_reset_levels(t), ret |-> [err |-> "success", v |-> Top(t).current]]

Called(t) == [t EXCEPT !.err = "success", !.case_len = 0, !.hi = 0, !.obj = JNull]
-----------------------------------------------------------------------------
\* The client.
NoValue == [t |-> "none"]
Pending == [err |-> "none", v |-> NoValue]

JtInit ==
  /\ \E strict \in BOOLEAN : tok = [json_tokener_new_ex EXCEPT !.strict = strict]
  /\ \E d \in Docs : jdoc = Append(d, NUL)
  /\ jfed = <<>> /\ jpos = 0 /\ jcall = FALSE
  /\ jret = Pending /\ jold = [used |-> FALSE, depth |-> 0]

\* json_tokener_parse_ex is called.
Feed(piece) ==
  /\ ~jcall /\ jret.err \in {"none", "continue"}
  /\ tok' = Called(tok) /\ jcall' = TRUE /\ jfed' = jfed \o piece
  /\ UNCHANGED <<jdoc, jpos, jret, jold>>
\* The next n characters of the document.
FeedPiece ==
  \E n \in PieceSizes \cup {Len(jdoc) - Len(jfed)} :
    n <= Len(jdoc) - Len(jfed) /\ n > 0 /\ Feed(SubSeq(jdoc, Len(jfed) + 1, Len(jfed) + n))
\* The document ends early: only the terminator comes.
FeedEnd == Len(jfed) < Len(jdoc) - 1 /\ Feed(<<NUL>>)

\* The loop is left in state t; c is the last character it looked at.
Leave(t, c) ==
  /\ \E r \in {Return(Out(t, c))} : tok' = r.t /\ jret' = r.ret
  /\ jcall' = FALSE

\* One turn: the switch, then ADVANCE_CHAR unless the case redoes the character.
Turn ==
  /\ jcall /\ jpos < Len(jfed)
  /\ \E c \in {jfed[jpos + 1]} :
       \E r \in {Switch(tok, c, SubSeq(jfed, jpos + 2, Len(jfed)))} :
         \/ r.go = "redo" /\ tok' = r.t /\ UNCHANGED <<jpos, jcall, jret>>
         \/ /\ r.go = "next" /\ c # NUL
            /\ tok' = r.t /\ jpos' = jpos + 1 + r.skip /\ UNCHANGED <<jcall, jret>>
         \/ (r.go = "out" \/ (r.go = "next" /\ c = NUL)) /\ Leave(r.t, c) /\ UNCHANGED jpos
  /\ UNCHANGED <<jdoc, jfed, jold>>
\* The piece is used up.
PieceEnds ==
  /\ jcall /\ jpos = Len(jfed)
  /\ Leave(AtEnd(tok), jfed[jpos])
  /\ UNCHANGED <<jdoc, jfed, jpos, jold>>

\* Another document on the same tokener, which must be reset after an error.
NextDocument ==
  /\ ~jcall /\ ~jold.used /\ jret.err \notin {"none", "continue"}
  /\ tok' \in {json_tokener_reset(tok)} \cup (IF jret.err = "success" THEN {tok} ELSE {})
  /\ jold' = [used |-> TRUE, depth |-> tok'.depth]
  /\ \E d \in AgainDocs : jdoc' = Append(d, NUL)
  /\ jfed' = <<>> /\ jpos' = 0 /\ jret' = Pending
  /\ UNCHANGED jcall

JtNext == FeedPiece \/ FeedEnd \/ Turn \/ PieceEnds \/ NextDocument
JtSpec == JtInit /\ [][JtNext]_jtVars
-----------------------------------------------------------------------------
Ended == ~jcall /\ jret.err \notin {"none", "continue"}
Has(text, word) ==
  \E i \in 0..Len(text) - Len(word) : \A j \in 1..Len(word) : text[i + j] = word[j]
\* After a document that was taken for complete inside a comment the depth
\* stays where it was.
FromGround == jold.depth = 0

\* A success leaves the tokener at its ground level with nothing pending, so
\* that it can be used again without json_tokener_reset; the exception is a
\* text with a comment, which may end inside it.
SuccessLeavesGround ==
  (Ended /\ FromGround /\ jret.err = "success"
     /\ ~Has(jfed, <<"/", "*">>) /\ ~Has(jfed, <<"/", "/">>)) =>
    tok.depth = 0 /\ \A d \in DOMAIN tok.stack : tok.stack[d] = Level0

\* Every level below the current one waits for the value above it and has a
\* container of the type that it is going to store into (json_object_array_add
\* and json_object_object_add do not look at the type); every level above is
\* clean, so that nothing of an earlier value can show up in a later one.
OpenLevelsAgree ==
  FromGround =>
    \A d \in DOMAIN tok.stack :
      LET l == tok.stack[d]
      IN  /\ d > tok.depth => l = Level0
          /\ d < tok.depth /\ ~(Ended /\ jret.err = "success") =>
               \/ l.state = "array_add" /\ l.current.t = "array"
               \/ l.state = "object_value_add" /\ l.current.t = "object"

\* Nothing of a value stays behind in the tokener, between the calls and in
\* the middle of each: both of the above.
LevelsClean == SuccessLeavesGround /\ OpenLevelsAgree
=============================================================================
