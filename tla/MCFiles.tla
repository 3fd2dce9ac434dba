------------------------------- MODULE MCFiles -------------------------------
(***************************************************************************)
(* What is kept in files and what reports are made of: the report store,   *)
(* the JSON of one report, its sections, its memory contents, the buffered *)
(* file it is written to, and the directories it is in.  They share no     *)
(* state, so each behaviour is one of one of them.                         *)
(***************************************************************************)
EXTENDS KSCrashReportStore, KSCrashReportC, KSMemoryContents, Integers, Sequences, TLC

CONSTANT Units  \* the components that are checked

VARIABLES
  unit,     \* the component whose behaviour this is
  at, enc, dec, frames, old, complete, added, elements,
  kind, bytes, handle, buffer, given, accepted, failures, entire, reader, call,
  tree, stack, created, begun, quiet, making

json     == <<at, enc, dec, frames, old, complete, added, elements>>
buffers  == <<kind, bytes, handle, buffer, given, accepted, failures, entire, reader, call>>
dirs     == <<tree, stack, created, begun, quiet, making>>
units    == <<json, buffers, dirs, writerVars, contentsVars>>

-----------------------------------------------------------------------------
(***************************************************************************)
(* The user's JSON: none, an empty object, one with an array of two; one   *)
(* whose end is missing, and one with a text that is too long.             *)
(***************************************************************************)
Named(pieces) == <<"quote", "text", "quote", ":">> \o pieces

UserJSON ==
  {<<>>, <<"{", "}">>, <<"{">> \o Named(<<"[", "number", ",", "number", "]", "}">>),
   <<"{">> \o Named(<<"[", "{">>) \o Named(<<>>),
   <<"{">> \o Named(<<"{", "}", ",">>) \o Named(<<"quote", "text", "text", "text", "quote", "}">>)}

JSON == INSTANCE KSJSONCodec WITH
  BufferSize <- 16, MaxText <- 2, UserInfo <- UserJSON, MaxElements <- 2, MaxDepth <- 3

\* Lines, an empty one among them, and one with a '\0' before its end.
Buffered == INSTANCE KSFileUtils WITH
  WriteBuffer <- 2, ReadBuffer <- 2, MaxBytes <- 5, MaxPiece <- 3, MaxFailures <- 2,
  Kinds <- {<<"text", "sep", "text", "sep", "sep">>, <<"text", "nul", "sep", "text", "sep">>},
  file <- bytes, writer <- handle, whole <- entire

\* A directory that is empty, or holds directories, files, and one thing that is
\* neither; beside it, a file that must stay.  Links lead to directories elsewhere
\* whose links lead on, back to the directory, and to the file that must stay.
Base  == <<"d">> :> "dir" @@ <<"o">> :> "file"
Trees ==
  {Base,
   Base @@ <<"d", "a">> :> "dir" @@ <<"d", "b">> :> "file" @@ <<"d", "a", "f">> :> "file",
   Base @@ <<"d", "a">> :> "dir" @@ <<"d", "b">> :> "dir" @@ <<"d", "a", "f">> :> "other",
   Base @@ <<"d", "x">> :> "link" @@ <<"x">> :> "dir" @@ <<"x", "k">> :> "link" @@ <<"x", "y">> :> "link" @@
     <<"y">> :> "dir" @@ <<"y", "f">> :> "file",
   Base @@ <<"d", "z">> :> "link" @@ <<"z">> :> "dir" @@ <<"z", "up">> :> "link"}
Links ==
  <<"d", "x">> :> <<"x">> @@ <<"x", "k">> :> <<"o">> @@ <<"x", "y">> :> <<"y">> @@
  <<"d", "z">> :> <<"z">> @@ <<"z", "up">> :> <<"d">>

Directories == INSTANCE KSDirectories WITH
  Top <- <<"d">>, MaxCreated <- 2, NewFiles <- {<<"d", "n">>, <<"d", "a", "n">>},
  NewPaths <- {<<"d", "a">>, <<"d", "a", "g">>, <<"d", "b", "h">>},
  Target <- Links, MaxLinks <- 2, made <- making

\* One thread more than is captured.
ListingsHere == {<<"s2", "s1", "o">>}

\* Every way in which an object or an array, and an object that may be of a
\* restricted class, can refer to each other and to themselves; and every kind
\* of single thing.
Object(type, class, classType, refs) ==
  [type |-> type, class |-> class, classType |-> classType, refs |-> refs,
   tagged |-> FALSE, string |-> FALSE, zombie |-> FALSE]
Nothing  == Object("unknown", "", "", <<>>)
Refs(rs) == UNION {[1 .. n -> rs] : n \in 0 .. 2} \cup {<<1, 1, 1, 2>>, <<1, 2, 1, 2, 1>>}
Two(class, classType, refs, others) ==
  0 :> Nothing @@ 1 :> Object("object", "Node", classType, refs) @@ 2 :> Object("object", class, "unknown", others)
Pairs ==
  {Two(c, "unknown", r, q) : c \in {"Node", "Secret"}, r \in Refs(-1 .. 2), q \in Refs(-1 .. 2)} \cup
  {Two(c, "array", r, q) : c \in {"Node", "Secret"}, r \in Refs(0 .. 2), q \in Refs(-1 .. 2)}
Singles ==
  {0 :> Nothing @@ 1 :> [Object(type, class, classType, <<>>) EXCEPT !.string = s, !.zombie = z, !.tagged = t] :
     type \in {"unknown", "class", "object", "block"}, class \in {"Node", "Secret"},
     classType \in {"string", "dictionary", "number"}, s, z, t \in BOOLEAN}

\* Arrays in arrays, and an object in the innermost one whose variables are the
\* first of them: it is as deep as the limit allows, or less, or more.
Chain(n) ==
  0 :> Nothing @@ n :> Object("object", "Node", "unknown", <<1, 1, -1, 1>>) @@
  [k \in 1 .. n - 1 |-> Object("object", "Node", "array", <<k + 1>>)]
Chains == {Chain(n) : n \in 2 .. 7}

MemoriesHere == Pairs \cup Singles \cup Chains
SourcesHere  == {<<<<k, 1>>, <<"register", 0>>>> : k \in {"reason", "register", "stack", "unreadable"}}

-----------------------------------------------------------------------------
MCInit ==
  /\ unit \in Units
  /\ Init
  /\ JSON!Init
  /\ Buffered!Init /\ (unit # "buffers" => kind[2] = "sep")
  /\ Directories!Init /\ (unit # "dirs" => tree = Base)
  /\ WriterInit
  /\ ContentsInit /\ (unit # "contents" => memory = Chain(2) /\ sources[1][1] = "stack")

MCNext ==
  \/ unit = "store" /\ Next /\ UNCHANGED <<unit, units>>
  \/ unit = "json" /\ JSON!Next /\ UNCHANGED <<unit, vars, buffers, dirs, writerVars, contentsVars>>
  \/ unit = "buffers" /\ Buffered!Next /\ UNCHANGED <<unit, vars, json, dirs, writerVars, contentsVars>>
  \/ unit = "dirs" /\ Directories!Next /\ UNCHANGED <<unit, vars, json, buffers, writerVars, contentsVars>>
  \/ unit = "standard" /\ WriterNext /\ UNCHANGED <<unit, vars, json, buffers, dirs, contentsVars>>
  \/ unit = "contents" /\ ContentsNext /\ UNCHANGED <<unit, vars, json, buffers, dirs, writerVars>>

MCSpec == MCInit /\ [][MCNext]_<<unit, vars, units>>

-----------------------------------------------------------------------------
\* Every variable of every component has its type.
UnitsTypeOK ==
  CASE unit = "store"     -> TypeOK
    [] unit = "json"      -> JSON!TypeOK
    [] unit = "buffers"   -> Buffered!TypeOK
    [] unit = "dirs"      -> Directories!TypeOK
    [] unit = "standard"  -> WriterTypeOK
    [] unit = "contents"  -> ContentsTypeOK

\* Whatever a report has been through (user JSON that cannot be decoded, a
\* fault after any piece, a file that cannot be decoded to its end), it is
\* well-formed once ksjson_endEncode() has returned, and the sections of a
\* recrash report are beside the first report and not in it.  That report is
\* taken over as it is by ksjson_addJSONFromFile() if it is complete, and a
\* short one that was cut short up to its last value.
ReportWellFormed ==
  unit = "json" => JSON!ReportWellFormed /\ JSON!RecrashBeside /\ JSON!MergeExact

\* "Decode and add JSON data from a file": ksjson_addJSONFromFile() adds nothing
\* that is not in the file.
OnlyFromFile == JSON!OnlyFromFile

\* What a KSBufferedWriter has accepted is in the file or its buffer, in order,
\* and exactly that unless a write failed; what a KSBufferedReader and
\* ksfu_readEntireFile() give out is the file's, in one piece, and a line ends
\* where it ends in the file.  ksfu_deleteContentsOfPath() removes all of the
\* contents that can be, and ksfu_makePath() has made the path when it says so.
FileUtilsExact ==
  /\ unit = "buffers" => Buffered!WriterExact /\ Buffered!WholeExact /\ Buffered!ReaderExact
  /\ unit = "dirs" => Directories!AllContents /\ Directories!PathMade

\* However the directory changes meanwhile, ksfu_deleteContentsOfPath() removes
\* nothing that is neither inside it nor inside a directory that a link in there
\* refers to, and through a link to a file no more than the link.
NothingElseDeleted == [][DOMAIN tree \ DOMAIN tree' \subseteq Directories!Reach]_dirs
=============================================================================
