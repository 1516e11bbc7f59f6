------------------------------ MODULE MCParts ------------------------------
(* The smaller parts, each on its own: part says which one runs, the others   *)
(* stay as they were at the start.                                            *)
EXTENDS JsonReadBack, JsonFile, JsonTable, JsonObject, JsonPrintbuf, Light, TouchWake,
        MediaInfo, JsonSeed, RtRmnet, RmnetCli

VARIABLE part
jsonVars == <<jtVars, fileVars, tabVars, objVars, pbVars, seedVars>>
deviceVars == <<lightVars, touchVars, mdFrame>>
rmnetVars == <<rtVars, cliVars>>
partVars == <<part, jsonVars, deviceVars, rmnetVars>>

\* The rtnetlink calls: a real device and a virtual one; a name
\* that is too long is refused as the null pointer is.
CONSTANTS real, virtual
MCNames   == {real, virtual}
MCIfaces  == MCNames
MCLengths == [n \in Names |-> 15]

\* rmnetcli with every command it knows, no command and an unknown one.
MCWords == DOMAIN RtCommands \cup DOMAIN DataCommands \cup {"", "help", "unknown"}

KV(k, v) == [k |-> k, v |-> v]
MCValues ==
  {Obj(<<KV(Chars("a/\""), Arr(<<Num(IntMin), JNull, Bool(TRUE)>>)),
         KV(<<"BS", "SOH">>, Str(<<"\n", "\\", NUL, "x">>))>>),
   Arr(<<Obj(<<>>), Arr(<<>>), Bool(FALSE), NewDouble(Chars("2.5")), Double(Chars("NaN"))>>),
   Arr(<<Double(Chars("Infinity")), Num(IntMax)>>), Arr(<<NewDouble(Chars("-Infinity")), JNull>>),
   Str(Chars("q'\t")), Num(0), JNull,
   Arr(<<Arr(<<Arr(<<>>)>>)>>), Arr(<<Obj(<<KV(<<>>, JNull)>>)>>),
   Arr(<<Arr(<<Arr(<<Num(1)>>)>>)>>)}
MCFileValues ==
  {JNull, Arr(<<Num(5), Str(<<"\"", "\t">>)>>), Obj(<<KV(<<"k">>, Num(-7))>>)}
MCPrintFlags == {{}, {"SPACED"}, {"PRETTY", "NOZERO"}}
MCTexts ==
  {"[1/*", "['a'//", "[1 /* c **/, 'x']", "//z\n TRUE", "{'k':1,\"k\":nan,}", "[,]", "[1,]", "[1 2]",
   "{\"a\\u0000b\":+1}", "{\"a\" 1}", "{a:1}", "{\"a\":1;}", "\"\\u0041\\q", "\"\\ud83d\\ude00\"",
   "\"\\udc01\\u00e9\\u00zz", "[-Infinity]", "-", "-12I", "[-i", "1.5e3", ".5", "-.e", "0128", "00", "nulx",
   "fals", "infinitx", "/x", "[1]x"}
MCDocs ==
  {json_object_to_json_string_ext(v, f) : v \in MCValues, f \in MCPrintFlags}
  \cup {Chars(s) : s \in MCTexts}
\* Valid texts that are cut at the wrong place.
MCCutDocs == {Chars("[-Infinity]"), Chars("\"\\ud83d\\ude00\"")}
MCAgain == {Chars("[nan,{'k':\"\\u0001\"}]"), Chars("[false,-1]")}
MCHash == [a |-> 1, b |-> 1, c |-> 3]
MCTypeOf == <<"object", "array", "leaf">>

Color(a, r, g, b) == [a |-> a, r |-> r, g |-> g, b |-> b]
MCLightStates ==
  {[color |-> Color(255, 0, 0, 0), timed |-> FALSE, on |-> 0, off |-> 0],
   [color |-> Color(255, 255, 255, 255), timed |-> FALSE, on |-> 0, off |-> 0],
   [color |-> Color(128, 0, 255, 7), timed |-> TRUE, on |-> 799, off |-> 2000],
   [color |-> Color(255, 255, 0, 0), timed |-> TRUE, on |-> 800, off |-> 500],
   [color |-> Color(255, 0, 0, 0), timed |-> TRUE, on |-> 10, off |-> 1]}

Entry(chr, name, op) == [chr |-> chr, name |-> name, opens |-> op]
MCInputDirs ==
  {<<Entry(FALSE, "fts", TRUE), Entry(TRUE, "gpio-keys", TRUE), Entry(TRUE, "fts", op),
     Entry(TRUE, "synaptics_dsx", TRUE)>> : op \in BOOLEAN}
  \cup {<<>>, <<Entry(TRUE, "gpio-keys", TRUE), Entry(TRUE, "gpio-keys", FALSE)>>}
MCTouchNames == {"atmel_mxt_ts", "fts_ts", "fts", "ft5x46", "synaptics_dsx",
                 "NVTCapacitiveTouchScreen"}

Parts == {"tokener", "file", "table", "object", "printbuf", "light", "touch", "media", "seed",
          "rtnetlink", "rmnetcli"}
OneDoc == jdoc = Append(CHOOSE d \in Docs : TRUE, NUL)
OneCommand == api = "data" /\ cmd = "help" /\ nargs = 0
PartsInit ==
  /\ part \in Parts
  /\ JtInit /\ (part # "tokener" => OneDoc /\ ~tok.strict)
  /\ FileInit /\ TabInit /\ ObjInit /\ PbInit /\ SeedInit
  /\ LightInit /\ (part # "light" => mLightStates = [i \in 0..2 |-> CHOOSE s \in LightStates : TRUE])
  /\ TouchInit /\ (part # "touch" => dtDir = <<>>)
  /\ MediaInit /\ (part # "media" => mdFrame = CHOOSE f \in Frames : TRUE)
  /\ RtInit
  /\ CliInit /\ (part # "rmnetcli" => OneCommand)

JsonNext ==
  \/ part = "tokener" /\ JtNext /\ UNCHANGED <<fileVars, tabVars, objVars, pbVars, seedVars>>
  \/ part = "file" /\ FileNext /\ UNCHANGED <<jtVars, tabVars, objVars, pbVars, seedVars>>
  \/ part = "table" /\ TabNext /\ UNCHANGED <<jtVars, fileVars, objVars, pbVars, seedVars>>
  \/ part = "object" /\ ObjNext /\ UNCHANGED <<jtVars, fileVars, tabVars, pbVars, seedVars>>
  \/ part = "printbuf" /\ PbNext /\ UNCHANGED <<jtVars, fileVars, tabVars, objVars, seedVars>>
  \/ part = "seed" /\ SeedNext /\ UNCHANGED <<jtVars, fileVars, tabVars, objVars, pbVars>>
DeviceNext ==
  \/ part = "light" /\ setLight /\ UNCHANGED <<touchVars, mdFrame>>
  \/ part = "touch" /\ TouchNext /\ UNCHANGED <<lightVars, mdFrame>>
  \/ part = "media" /\ MediaNext /\ UNCHANGED <<lightVars, touchVars>>
RmnetNext ==
  \/ part = "rtnetlink" /\ RtNext /\ UNCHANGED cliVars
  \/ part = "rmnetcli" /\ CliNext /\ UNCHANGED rtVars
PartsNext ==
  /\ UNCHANGED part
  /\ \/ JsonNext /\ UNCHANGED <<deviceVars, rmnetVars>>
     \/ DeviceNext /\ UNCHANGED <<jsonVars, rmnetVars>>
     \/ RmnetNext /\ UNCHANGED <<jsonVars, deviceVars>>

PartsSpec == PartsInit /\ [][PartsNext]_partVars
=============================================================================
