------------------------------ MODULE JsonFile ------------------------------
(* json-c: values saved to a file and loaded from it (json_util.c).  One      *)
(* action is one system call: a write or a read may move less than was asked  *)
(* for, any call may fail, and the program may die while it saves.            *)
EXTENDS JsonValue

CONSTANTS
  TextOf(_, _),      \* json_object_to_json_string_ext
  ParseOf(_),        \* json_tokener_parse_verbose: [err, v]
  Says(_),           \* what a value says, however its doubles were made
  FileValues,        \* objects and arrays that are saved, and JNull
  FileFlags,         \* flags they are printed with
  Transfers          \* characters a system call moves; it may also move all the rest

\* What JsonReadBack!PrintedTextReadBack says of the two, for these values: the
\* text of an object or an array no deeper than the tokener is read back, and
\* no beginning of it is taken for a value.
ASSUME ReadBackAssumption ==
  \A v \in FileValues \ {JNull}, f \in FileFlags :
    LET text == TextOf(v, f)
    IN  /\ text \in Seq(STRING) /\ text # <<>>
        /\ ParseOf(text) = [err |-> "success", v |-> Says(v)]
        /\ \A n \in 1..Len(text) - 1 : ParseOf(SubSeq(text, 1, n)).err # "success"
ASSUME TransfersAssumption == Transfers \subseteq Nat

VARIABLES
  jfile,             \* contents of the file
  jfpc,              \* "idle", "saving" or "loading"
  jfbuf,             \* text still to write, or read so far
  jfsaved,           \* the last value whose saving began, and how that ended:
                     \* "none", "open", "done" or "failed"
  jfload             \* the last answer of json_object_from_file, "none" before it
fileVars == <<jfile, jfpc, jfbuf, jfsaved, jfload>>

NoLoad == [how |-> "none", v |-> JNull]
FileInit ==
  /\ jfile = <<>> /\ jfpc = "idle" /\ jfbuf = <<>> /\ jfload = NoLoad
  /\ jfsaved = [v |-> JNull, how |-> "none"]

Amount(left) == {n \in Transfers \cup {left} : 0 < n /\ n <= left}

\* json_object_to_file_ext empties the file before it prints the value.  It
\* refuses a null pointer, which is what a JSON null is.
SaveOpen ==
  /\ jfpc = "idle"
  /\ \E v \in FileValues, f \in FileFlags :
       /\ v # JNull
       /\ jfpc' = "saving" /\ jfile' = <<>> /\ jfsaved' = [v |-> v, how |-> "open"]
       /\ jfbuf' = TextOf(v, f)
  /\ jfload' = NoLoad
SaveRefused == jfpc = "idle" /\ UNCHANGED fileVars
\* Takes a short write for a whole one.
Bug_SaveWrite ==
  /\ jfpc = "saving" /\ jfbuf # <<>>
  /\ \E n \in Amount(Len(jfbuf)) : jfile' = jfile \o SubSeq(jfbuf, 1, n) /\ jfbuf' = <<>>
  /\ UNCHANGED <<jfpc, jfsaved, jfload>>
SaveWrite ==
  /\ jfpc = "saving" /\ jfbuf # <<>>
  /\ \E n \in Amount(Len(jfbuf)) :
       /\ jfile' = jfile \o SubSeq(jfbuf, 1, n)
       /\ jfbuf' = SubSeq(jfbuf, n + 1, Len(jfbuf))
  /\ UNCHANGED <<jfpc, jfsaved, jfload>>

SaveEnd ==
  /\ jfpc = "saving" /\ jfbuf = <<>>
  /\ jfpc' = "idle" /\ jfsaved' = [jfsaved EXCEPT !.how = "done"]
  /\ UNCHANGED <<jfile, jfbuf, jfload>>
\* A failed write, or the end of the program.
SaveBroken ==
  /\ jfpc = "saving" /\ jfbuf # <<>>
  /\ jfpc' = "idle" /\ jfbuf' = <<>> /\ jfsaved' = [jfsaved EXCEPT !.how = "failed"]
  /\ UNCHANGED <<jfile, jfload>>

\* json_object_from_file
LoadOpen ==
  /\ jfpc = "idle" /\ jfpc' = "loading" /\ jfbuf' = <<>> /\ jfload' = NoLoad
  /\ UNCHANGED <<jfile, jfsaved>>
LoadRead ==
  /\ jfpc = "loading" /\ Len(jfbuf) < Len(jfile)
  /\ \E n \in Amount(Len(jfile) - Len(jfbuf)) : jfbuf' = SubSeq(jfile, 1, Len(jfbuf) + n)
  /\ UNCHANGED <<jfile, jfpc, jfsaved, jfload>>
LoadFails ==
  /\ jfpc = "loading" /\ jfpc' = "idle" /\ jfbuf' = <<>>
  /\ jfload' = [how |-> "null", v |-> JNull]
  /\ UNCHANGED <<jfile, jfsaved>>
\* The buffer is parsed as a string.  Nothing terminates it when nothing was
\* read: whatever the allocator left there is parsed.
LoadEnd ==
  /\ jfpc = "loading" /\ Len(jfbuf) = Len(jfile)
  /\ jfpc' = "idle" /\ jfbuf' = <<>>
  /\ \E r \in {ParseOf(jfbuf)} :
       \/ /\ jfbuf # <<>>
          /\ jfload' = [how |-> IF r.err = "success" THEN "value" ELSE "null", v |-> r.v]
       \/ jfbuf = <<>> /\ \E v \in FileValues, how \in {"value", "null"} :
                            jfload' = [how |-> how, v |-> v]
  /\ UNCHANGED <<jfile, jfsaved>>

FileNext == \/ SaveOpen \/ SaveRefused \/ SaveWrite \/ SaveEnd \/ SaveBroken
            \/ LoadOpen \/ LoadRead \/ LoadFails \/ LoadEnd
FileSpec == FileInit /\ [][FileNext]_fileVars
-----------------------------------------------------------------------------
\* A save that reported success has left the whole value in the file, however
\* many writes it took; and what is loaded is the value that was saved last: a
\* save that failed or was cut off half-way is never taken for a value (it is
\* for the caller to notice that the earlier file is lost).  An empty file is
\* left out: what it loads depends on uninitialised memory.
LoadedWasSaved ==
  jfpc = "idle" /\ jfile # <<>> =>
    /\ jfsaved.how = "done" =>
         ParseOf(jfile) = [err |-> "success", v |-> Says(jfsaved.v)]
    /\ jfload.how = "value" => jfsaved.how = "done" /\ jfload.v = Says(jfsaved.v)
=============================================================================
