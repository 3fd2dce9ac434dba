----------------------------- MODULE MCUnwinding -----------------------------
(***************************************************************************)
(* What is read from memory that may be damaged: unwind information, the   *)
(* stack, Objective-C objects, text, JSON, and the headers of images; and  *)
(* what a session reads of the memory that the one before it used.  The    *)
(* components share no state here: each behaviour is one of one of them.   *)
(***************************************************************************)
EXTENDS KSCrashMonitor_Memory, Integers, Sequences, SequencesExt, TLC

CONSTANTS
  Units,     \* the components whose behaviours are of interest
  NoValue

VARIABLES
  unit,      \* the component whose behaviour this is
  request, reading, data, value, shift,
  section, target, unwinding, entry, next, location, row, initial, rows, result,
  info, offset, level, page, left, right, middle, found,
  arch, stack, methods, memory, first, pc, sp, fp, lr, isFirst, usedLR, lastMethod, addresses, gaveUp, suspended, pass,
  earlier,
  heap, questions, at, object, super, sub, steps, cached, answer, fault, moved,
  string, copying, taken, remaining, buffer, used, returned,
  bytes, call, probing, position, end, limit, copied, unread, counted,
  text, scanning, index, continuation, accum, seen, isText,
  header, search, walking, command, inner, image, answered,
  job, coding, json, encoded, added, widest, src, closing, fastCopy, number, dst, element

reader  == <<request, reading, data, value, shift>>
dwarf   == <<section, target, unwinding, entry, next, location, row, initial, rows, result>>
compact == <<info, offset, level, page, left, right, middle, found>>
cursor  == <<arch, stack, methods, memory, first, pc, sp, fp, lr, isFirst, usedLR, lastMethod, addresses, gaveUp,
             suspended, pass, earlier>>
objc    == <<heap, questions, at, object, super, sub, steps, cached, answer, fault, moved>>
strings == <<string, copying, taken, remaining, buffer, used, returned>>
probe   == <<bytes, call, probing, position, end, limit, copied, unread, counted>>
scan    == <<text, scanning, index, continuation, accum, seen, isText>>
headers == <<header, search, walking, command, inner, image, answered>>
codec   == <<job, coding, json, encoded, added, widest, src, closing, fastCopy, number, dst, element>>

UpTo(n, S) == UNION {[1 .. k -> S] : k \in 0 .. n}

-----------------------------------------------------------------------------
(***************************************************************************)
(* Numbers and pointers of up to four bytes, with a word of 16 bits        *)
(***************************************************************************)
Bytes == {0, 1, 63, 64, 127, 128, 129, 191, 192, 255}

Requests ==
  [format : {"narrow", "wide", "uleb128", "snarrow", "sleb128", "unknown", "omit"},
   modifier : {"none", "pcrel", "datarel", "unsupported"}, indirect : BOOLEAN, base : {0, 100}, bytes : UpTo(2, Bytes)]
  \cup [format : {"uleb128", "sleb128"}, modifier : {"none"}, indirect : {FALSE}, base : {0},
        bytes : [1 .. 3 -> Bytes] \cup [1 .. 4 -> Bytes]]
NoRequest == [format |-> "omit", modifier |-> "none", indirect |-> FALSE, base |-> 0, bytes |-> <<>>]

Reader == INSTANCE KSDwarfReader WITH
  WordBits <- 16, Memory <- [a \in 100 .. 110 |-> a + 5], at <- reading
IdleReader == INSTANCE KSDwarfReader WITH
  Requests <- {NoRequest}, WordBits <- 16, Memory <- <<>>, at <- reading

-----------------------------------------------------------------------------
(***************************************************************************)
(* Call frame information: all programs of up to five instructions that    *)
(* move, remember or restore a row, and short ones with every other        *)
(* instruction; sections with several functions, some of them not usable.  *)
(***************************************************************************)
CIE(is, bits, version) == [kind |-> "cie", bits |-> bits, version |-> version, instructions |-> is]
FDE(c, start, range, is) ==
  [kind |-> "fde", cie |-> c, start |-> start, range |-> range, instructions |-> is, bits |-> 32]

Moves ==
  {<<"advance", 1>>, <<"remember_state">>, <<"restore_state">>, <<"offset", "fp", 2>>, <<"restore", "fp">>}
Expressions ==
  {<<>>, <<<<"breg", "sp", 2>>>>, <<<<"breg", "sp", 1>>, <<"stack_value">>>>, <<<<"const", 20>>, <<"deref">>>>,
   <<<<"fbreg", -1>>, <<"const", 1>>, <<"minus">>>>,
   <<<<"const", 1>>, <<"const", 2>>, <<"const", 3>>, <<"plus">>, <<"plus">>>>, <<<<"plus">>>>, <<<<"const", 1>>, <<"plus_uconst", 19>>>>, <<<<"unsupported">>>>, <<<<"breg", "big", 1>>>>}
Others ==
  {<<"def_cfa_offset", 3>>, <<"def_cfa_register", "fp">>, <<"same_value", "fp">>, <<"undefined", "ra">>, <<"val_offset", "fp", 1>>,
   <<"register", "ra", "sp">>, <<"register", "ra", "x">>, <<"def_cfa", "fp", 2>>, <<"def_cfa", "big", 2>>,
   <<"set_loc", 2>>, <<"nop">>, <<"args_size">>, <<"offset", "big", 1>>,
   <<"def_cfa_expression", <<<<"breg", "sp", 2>>>>>>, <<"def_cfa_expression", <<<<"fbreg", 2>>>>>>}
  \cup {<<i, "ra", e>> : i \in {"expression", "val_expression"}, e \in Expressions}

Usual    == <<<<"def_cfa", "sp", 1>>, <<"offset", "ra", 1>>>>
Programs == UpTo(5, Moves) \cup {<<<<"advance", 1>>, o>> : o \in Others}
              \cup {<<o, p, q>> : o \in Others, p \in Moves, q \in Moves}

OneFunction(is) == <<CIE(Usual, 32, 1), FDE(1, 0, 3, is)>>
Functions(bits, version, between) ==
  <<CIE(Usual, 32, 1), FDE(1, 3, 1, <<>>), CIE(<<<<"restore", "fp">>>> \o Usual, bits, version)>> \o between
    \o <<FDE(3, 1, 1, <<>>), FDE(1, 0, 3, <<<<"advance", 1>>>>)>>
FrameSections ==
  {OneFunction(is) : is \in Programs}
  \cup {Functions(b, v, between) : b \in {32, 64}, v \in {1, 2, 3},
                                   between \in {<<>>, <<[kind |-> "end"]>>, <<[kind |-> "too_long"]>>}}

Dwarf == INSTANCE KSDwarfUnwind WITH
  Sections <- FrameSections, Targets <- 0 .. 2, Known <- [sp |-> 18, fp |-> 20], Memory <- [a \in 18 .. 22 |-> a + 5],
  MaxRows <- 2, MaxExpr <- 2, Align <- -1,
  state <- unwinding
IdleDwarf == INSTANCE KSDwarfUnwind WITH
  Sections <- {<<>>}, Targets <- {0}, Known <- <<>>, Memory <- <<>>, MaxRows <- 2, MaxExpr <- 2, Align <- -1,
  state <- unwinding

-----------------------------------------------------------------------------
(***************************************************************************)
(* Compact unwind information for functions at every choice of offsets, on *)
(* one or two pages of either kind                                         *)
(***************************************************************************)
RegularPage(fs, from, to) ==
  [kind |-> "regular", encodings |-> <<>>,
   entries |-> [i \in 1 .. to - from + 1 |-> [offset |-> fs[from + i - 1], encoding |-> 9 + from + i]]]
CompressedPage(fs, from, to, common) ==
  [kind |-> "compressed",
   encodings |-> [i \in 1 .. to - from + 1 - Len(common) |-> 9 + from + Len(common) + i],
   entries |-> [i \in 1 .. to - from + 1 |-> [offset |-> fs[from + i - 1] - fs[from], encoding |-> i - 1]]]
PageOf(kind, fs, from, to, common) ==
  IF kind = "regular" THEN RegularPage(fs, from, to) ELSE CompressedPage(fs, from, to, common)

IndexEntry(o, p) == [offset |-> o, page |-> p]
Compacted(fs, kind1, kind2, split, common) ==
  [version |-> 1, common |-> common,
   pages |-> <<PageOf(kind1, fs, 1, split, common)>>
               \o (IF split < Len(fs) THEN <<PageOf(kind2, fs, split + 1, Len(fs), <<>>)>> ELSE <<>>),
   index |-> <<IndexEntry(fs[1], 1)>> \o (IF split < Len(fs) THEN <<IndexEntry(fs[split + 1], 2)>> ELSE <<>>)
               \o <<IndexEntry(8, 0)>>]
NoPages == [version |-> 1, common |-> <<>>, pages |-> <<>>, index |-> <<>>]
OnePage(kind) == [NoPages EXCEPT !.pages = <<[kind |-> kind, entries |-> <<>>, encodings |-> <<>>]>>,
                                 !.index = <<IndexEntry(3, 1), IndexEntry(5, 0)>>]
CompactSections ==
  UNION {LET fs == SetToSortSeq(S, <) IN
         {Compacted(fs, k1, k2, s, IF c /\ k1 = "compressed" THEN <<11>> ELSE <<>>) :
            k1, k2 \in {"regular", "compressed"}, s \in 1 .. Len(fs), c \in BOOLEAN} : S \in SUBSET (1 .. 6) \ {{}}}
  \cup {NoPages, [NoPages EXCEPT !.version = 2], [NoPages EXCEPT !.index = <<IndexEntry(3, 0)>>],
        [NoPages EXCEPT !.index = <<IndexEntry(3, 0), IndexEntry(5, 0)>>], OnePage("regular"), OnePage("other")}

Compact     == INSTANCE KSCompactUnwind WITH Sections <- CompactSections, Offsets <- 0 .. 9, at <- middle
IdleCompact == INSTANCE KSCompactUnwind WITH Sections <- {NoPages}, Offsets <- {0}, at <- middle

-----------------------------------------------------------------------------
(***************************************************************************)
(* Stacks of up to four functions of every kind, on every processor        *)
(***************************************************************************)
Kinds  == {"frame", "frameless", "dwarf_saves", "dwarf_keeps", "unknown"}
Stacks == {<<k>> \o s : k \in Kinds \cup {"leaf"}, s \in UpTo(3, Kinds)}

Cursor == INSTANCE KSStackCursor WITH
  Archs <- {"arm64", "arm", "x86_64", "x86"}, MaxDepth <- 4,
  MethodLists <- {<<"compact", "dwarf", "frame_pointer">>, <<"frame_pointer">>, <<"compact", "dwarf">>}
IdleCursor == INSTANCE KSStackCursor WITH
  Archs <- {"x86"}, MaxDepth <- 4, Stacks <- {<<"frame">>}, MethodLists <- {<<"frame_pointer">>}

-----------------------------------------------------------------------------
(***************************************************************************)
(* A small runtime: NSObject, a class of strings, blocks, arrays with      *)
(* variables or without, exceptions, instances of each, and tagged         *)
(* pointers; whole, or with one cell damaged or not readable               *)
(***************************************************************************)
NoIvars   == [at |-> "NULL", list |-> <<>>]
Ivars(ns) == [at |-> "list", list |-> [j \in 1 .. Len(ns) |-> [name |-> ns[j], ok |-> TRUE]]]
Plain     == [readable |-> TRUE, unicode |-> FALSE, explicit |-> TRUE, kind |-> "immutable", count |-> 1, field |-> 0]
Values    == [readable : BOOLEAN, unicode : BOOLEAN, explicit : BOOLEAN, kind : {"immutable", "mutable", "deque"},
              count : 0 .. 1, field : {0}]

Class(isa, superclass, name, ivars) ==
  [tagged |-> FALSE, is |-> "class", block |-> FALSE, isa |-> isa, superclass |-> superclass, value |-> Plain,
   ro |-> [readable |-> TRUE, root |-> FALSE, meta |-> FALSE, name |-> name, ivars |-> ivars]]
Meta(superclass, name) == [Class(2, superclass, name, NoIvars) EXCEPT !.ro.meta = TRUE]
Root(c)                == [c EXCEPT !.ro.root = TRUE]
Block(c)               == [c EXCEPT !.block = TRUE]
Instance(isa, is, v) ==
  [tagged |-> FALSE, is |-> is, block |-> FALSE, isa |-> isa, superclass |-> 0, value |-> v,
   ro |-> [readable |-> FALSE, root |-> FALSE, meta |-> FALSE, name |-> "bad", ivars |-> NoIvars]]
Tagged(slot, beyond) == [tagged |-> TRUE, is |-> "object", slot |-> slot, beyond |-> beyond]

Classes ==
  1 :> Root(Class(2, 0, "NSObject", Ivars(<<"isa">>))) @@ 2 :> Root(Meta(1, "NSObject"))
  @@ 3 :> Class(4, 1, "NSString", Ivars(<<"a", "b">>)) @@ 4 :> Meta(2, "NSString")
  @@ 5 :> Block(Class(6, 1, "NSBlock", NoIvars))       @@ 6 :> Meta(2, "NSBlock")
  @@ 7 :> Block(Class(8, 5, "GlobalBlock", NoIvars))   @@ 8 :> Meta(6, "GlobalBlock")
  @@ 9 :> Class(2, 1, "NSArray", Ivars(<<"a">>))       @@ 10 :> Class(4, 1, "NSString", NoIvars)

\* An array and a string with the value v, and an exception with variables and a
\* reason
Heap(v, ivars, reason) ==
  Classes @@ 11 :> Class(2, 1, "NSException", ivars)
  @@ 20 :> Instance(3, "object", Plain) @@ 21 :> Instance(7, "block", Plain) @@ 22 :> Instance(9, "object", v)
  @@ 23 :> Instance(10, "object", v)    @@ 24 :> Instance(1, "object", Plain)
  @@ 25 :> Instance(11, "exception", [Plain EXCEPT !.field = reason])
  @@ 30 :> Tagged(0, "") @@ 31 :> Tagged(1, "") @@ 32 :> Tagged(2, "string") @@ 33 :> Tagged(3, "unknown")

Whole == {Heap(v, Ivars(ns), r) : v \in {u \in Values : u.readable}, r \in {0, 20, 31},
                                  ns \in {<<"name", "reason">>, <<"code">>}}
           \cup {Heap(Plain, NoIvars, 20)}

DamagedCell(c) ==
  {[c EXCEPT !.isa = p] : p \in {0, 1, 2, 3, 5, 20, 40}} \cup {[c EXCEPT !.superclass = p] : p \in {0, 1, 3, 5, 7, 20, 40}}
  \cup IF c.ro.readable
       THEN {[c EXCEPT !.ro.readable = FALSE], [c EXCEPT !.ro.name = "bad"], [c EXCEPT !.ro.name = "unreadable"],
             [c EXCEPT !.ro.ivars.at = "unreadable"], [c EXCEPT !.ro.root = ~ @]}
            \cup {[c EXCEPT !.ro.ivars = [at |-> "list", list |-> <<[name |-> "a", ok |-> a], [name |-> "b", ok |-> b]>>]] :
                    a, b \in BOOLEAN}
       ELSE {[c EXCEPT !.ro = Classes[p].ro] : p \in {4, 5}} \cup {[c EXCEPT !.value = v] : v \in {u \in Values : ~ u.readable}}
Damaged ==
  LET h == Heap(Plain, Ivars(<<"name", "reason">>), 20) IN
  UNION {{[h EXCEPT ![p] = [d EXCEPT !.is = "damaged"]] : d \in DamagedCell(h[p])}
         \cup {[q \in DOMAIN h \ {p} |-> [h[q] EXCEPT !.is = "damaged"]]} : p \in (1 .. 10) \cup {20, 21, 22, 24}}

Pointers == {0, 40} \cup (1 .. 11) \cup (20 .. 25) \cup (30 .. 33)

\* One pointer, or a second one after a first whose class is then known
Questions ==
  {<<<<"report", p>>>> : p \in Pointers \ {25}} \cup {<<<<"exception", 25>>>>}
  \cup {<<<<"report", p>>, <<"report", q>>>> : p \in {20, 22, 23}, q \in {20, 22, 23, 24}}

ObjC == INSTANCE KSObjC WITH
  Heaps <- Whole \cup Damaged, ClassData <- ("NSString" :> "string" @@ "NSArray" :> "array"),
  TaggedData <- <<"unknown", "string">>, MaxSteps <- 3
IdleObjC == INSTANCE KSObjC WITH
  Heaps <- {<<>>}, Questions <- {<<>>}, ClassData <- <<>>, TaggedData <- <<>>, MaxSteps <- 3

-----------------------------------------------------------------------------
(***************************************************************************)
(* Strings of up to three UTF-16 units at every boundary of UTF-8, whole   *)
(* or with half a pair; strings of bytes, some not readable to their end;  *)
(* tagged ones of every length                                             *)
(***************************************************************************)
UTF16 == {65, 127, 128, 2047, 2048, 55295, 55296, 56319, 56320, 57343, 57344, 65535}
StringOf(kind, us, length, max) == [kind |-> kind, units |-> us, length |-> length, max |-> max]
StringsToCopy ==
  {StringOf("utf16", us \o <<behind>>, Len(us), max) :
     us \in UpTo(3, UTF16), behind \in {65, 56320}, max \in {1, 2, 3, 4, 5, 7, 9, 12}}
  \cup {StringOf("bytes", us, l, max) : us \in {<<>>, <<65>>, <<65, 66, 67>>}, l \in 0 .. 4, max \in 0 .. 5}
  \cup {StringOf("tagged", [j \in 1 .. 15 |-> j], l, max) : l \in 0 .. 15, max \in {1, 4, 9, 16, 100}}
NoString == StringOf("bytes", <<>>, 0, 0)

Copies     == INSTANCE KSObjCStrings WITH Strings <- StringsToCopy, at <- copying
IdleCopies == INSTANCE KSObjCStrings WITH Strings <- {NoString}, at <- copying

-----------------------------------------------------------------------------
(***************************************************************************)
(* Memory with up to two holes, probed from several addresses, one of them *)
(* near the end of all addresses, for up to three buffers and beyond       *)
(***************************************************************************)
Memories == [readable : {(1 .. 12) \ {i, j} : i, j \in 1 .. 12}, zeros : {{4}, {7}}]
Probes   == [function : {"copySafely", "copyMaxPossible", "isMemoryReadable", "maxReadableBytes", "isValidCrashInfoMessage"},
             src : {0, 1, 4, 10}, count : -1 .. 9]

Probe     == INSTANCE KSMemory WITH
  memory <- bytes, at <- probing, max <- limit, remaining <- unread, returned <- counted,
  Calls <- Probes, TestBuffer <- 3, MaxMessage <- 3, MaxAddress <- 16
IdleProbe == INSTANCE KSMemory WITH
  memory <- bytes, at <- probing, max <- limit, remaining <- unread, returned <- counted,
  Memories <- [readable : {{}}, zeros : {{}}], Calls <- [function : {"copySafely"}, src : {0}, count : {0}],
  TestBuffer <- 3, MaxMessage <- 3, MaxAddress <- 16

(***************************************************************************)
(* Four bytes with a character of up to three, five with one of four, and  *)
(* seven with one of up to six; text with "0x", digits and a zero          *)
(* anywhere, and more behind it                                            *)
(***************************************************************************)
Looked(check, bs, min, max) == [check : {check}, bytes : bs, min : min, max : max]
Texts == Looked("utf8", [1 .. 4 -> {0, 1, 10, 127, 128, 195, 226, 254}], {0, 2}, {0, 3, 4})
           \cup Looked("utf8", [1 .. 5 -> {0, 128, 240}], {1}, {5})
           \cup Looked("utf8", [1 .. 7 -> {0, 128, 248, 252}], {1}, {7})
           \cup Looked("search", [1 .. 6 -> {48, 120, 70, 71, 0}], {0}, {0, 4, 5})

Scan     == INSTANCE KSString WITH at <- scanning, left <- continuation, returned <- isText, WordBits <- 8
IdleScan == INSTANCE KSString WITH
  at <- scanning, left <- continuation, returned <- isText, WordBits <- 8, Texts <- Looked("utf8", {<<>>}, {0}, {0})

(***************************************************************************)
(* Headers with up to two commands, addresses on both sides of the one     *)
(* that the image was linked for, and every crash information              *)
(***************************************************************************)
ImageSections == UNION {[1 .. k -> [name : {"a", "b"}, type : {"regular", "lazy"}]] : k \in 0 .. 2}
ImageCommand(cmd, name, values, size, ss) == [cmd : {cmd}, name : {name}, value : values, size : {size}, sections : ss]
ImageCommands ==
  ImageCommand("LC_SEGMENT", "__TEXT", {10, 200}, 5, {<<>>}) \cup ImageCommand("LC_SEGMENT", "__DATA", {0}, 0, ImageSections)
  \cup ImageCommand("LC_UUID", "", {77}, 0, {<<>>})
  \cup ImageCommand("LC_ID_DYLIB", "", {65537, 66051, 2147483647}, 0, {<<>>})
CrashInfo(there, large, readable, versions, texts) ==
  [section : {there}, large : large, readable : readable, version : versions,
   message : texts, message2 : texts, backtrace : texts, signature : texts]
HeadersToRead ==
  [magic : {"NULL", "corrupt", "MH_MAGIC_64"}, address : {100}, commands : UpTo(2, ImageCommands),
   crash : CrashInfo(FALSE, {FALSE}, {FALSE}, {0}, {"NULL"})]
  \cup [magic : {"MH_MAGIC_64"}, address : {100}, commands : {<<>>},
        crash : CrashInfo(TRUE, BOOLEAN, BOOLEAN, {3, 4, 5, 6}, {"NULL", "string", "other"})]
Searches(functions, type, segment, sect) ==
  [function : functions, type : {type}, segment : {segment}, section : {sect}]
HeaderSearches ==
  Searches({"binaryImageForHeader", "getCommandByTypeFromHeader"}, "LC_UUID", "", "")
  \cup Searches({"getSegmentByNameFromHeader", "getSectionByNameFromHeader"}, "", "__DATA", "b")
  \cup Searches({"getSectionByTypeFlagFromSegment"}, "lazy", "", "")

Header     == INSTANCE KSMachO WITH
  request <- search, at <- walking, index <- command, answer <- answered, WordBits <- 8,
  Headers <- HeadersToRead, Requests <- HeaderSearches
IdleHeader == INSTANCE KSMachO WITH
  request <- search, at <- walking, index <- command, answer <- answered, WordBits <- 8,
  Headers <- [magic : {"NULL"}, address : {0}, commands : {<<>>}, crash : {<<>>}],
  Requests <- Searches({"getCommandByTypeFromHeader"}, "", "", "")

(***************************************************************************)
(* JSON: strings of up to five bytes with every kind of escape, longer     *)
(* than two portions and with a byte that cannot be written; text of up to *)
(* three characters or escapes, with pairs and halves of pairs, and cut    *)
(* off; four bytes of a number; every number of six bits; floating point   *)
(***************************************************************************)
Decimal(v) ==
  LET a == IF v < 0 THEN - v ELSE v IN
  (IF v < 0 THEN <<45>> ELSE <<>>) \o (IF a >= 10 THEN <<48 + a \div 10>> ELSE <<>>) \o <<48 + (a % 10)>>
Piece(bs, c) == [bytes |-> bs, unit |-> c]
Pieces ==
  {Piece(<<122>>, 122), Piece(<<92, 110>>, 10), Piece(<<92, 34>>, 34), Piece(<<92, 117, 48, 48, 52, 49>>, 65),
   Piece(<<92, 117, 48, 55, 70, 102>>, 2047), Piece(<<92, 117, 102, 102, 70, 70>>, 65535),
   Piece(<<92, 117, 100, 56, 52, 48>>, 55360), Piece(<<92, 117, 68, 70, 50, 51>>, 57123),
   Piece(<<92, 117, 48, 103, 48, 48>>, 69905), Piece(<<92, 117, 49, 50>>, 69905), Piece(<<92, 122>>, 69905)}
Double(finite, g, f) == [kind |-> "double", max |-> 9, printed |-> [finite |-> finite, g |-> g, f |-> f]]
Doubles ==
  {Double(TRUE, <<51>>, <<51, 46, 48>>), Double(TRUE, <<49, 50>>, <<49, 50, 46, 52>>), Double(TRUE, <<45, 49, 46, 53>>, <<>>),
   Double(TRUE, <<49, 101, 43, 50, 48>>, <<>>), Double(FALSE, <<49, 101, 57, 57, 57>>, <<>>),
   Double(FALSE, <<45, 49, 101, 57, 57, 57>>, <<>>), Double(FALSE, <<110, 117, 108, 108>>, <<>>)}
StringJob(bs, max) == [kind : {"string"}, bytes : bs, max : max]
JSONJobs ==
  StringJob(UpTo(5, {34, 92, 10, 122, 195, 1}), {4, 20})
  \cup [kind : {"json"}, pieces : UpTo(3, Pieces), closing : {<<34>>}, max : {7, 8, 13, 40}]
  \cup [kind : {"json"}, pieces : UpTo(1, Pieces), closing : {<<>>, <<92, 34>>}, max : {40}]
  \cup [kind : {"number"}, bytes : [1 .. 4 -> {48, 51, 54, 45, 46, 101, 44}], behind : {48, 44}, max : {3, 9}]
  \cup {[kind |-> "integer", value |-> v, printed |-> Decimal(v), max |-> 9] : v \in -32 .. 63} \cup Doubles

JSON     == INSTANCE KSJSONText WITH
  at <- coding, text <- json, offset <- encoded, used <- widest, end <- closing, accum <- number,
  Jobs <- JSONJobs, WorkBuffer <- 4, NumberBuffer <- 4, WordBits <- 6
IdleJSON == INSTANCE KSJSONText WITH
  at <- coding, text <- json, offset <- encoded, used <- widest, end <- closing, accum <- number,
  Jobs <- StringJob({<<>>}, {4}), WorkBuffer <- 4, NumberBuffer <- 4, WordBits <- 6

\* Two sessions, in the configurations: one that ends, and one that may report it
ASSUME UsageHolds == MemoryAssumption

-----------------------------------------------------------------------------
\* The other components wait, with the simplest thing that they could be given.
MCInit ==
  /\ unit \in Units
  /\ IF unit = "reader"  THEN Reader!Init  ELSE IdleReader!Init
  /\ IF unit = "dwarf"   THEN Dwarf!Init   ELSE IdleDwarf!Init
  /\ IF unit = "compact" THEN Compact!Init ELSE IdleCompact!Init
  /\ IF unit = "cursor"  THEN Cursor!Init  ELSE IdleCursor!Init
  /\ IF unit = "objc"    THEN ObjC!Init    ELSE IdleObjC!Init
  /\ IF unit = "strings" THEN Copies!Init ELSE IdleCopies!Init
  /\ IF unit = "memory"  THEN Probe!Init   ELSE IdleProbe!Init
  /\ IF unit = "text"    THEN Scan!Init    ELSE IdleScan!Init
  /\ IF unit = "header"  THEN Header!Init  ELSE IdleHeader!Init
  /\ IF unit = "json"    THEN JSON!Init    ELSE IdleJSON!Init
  /\ Init

MCNext ==
  /\ UNCHANGED unit
  /\ \/ unit = "reader" /\ Reader!Next /\ UNCHANGED <<dwarf, compact, cursor, objc, strings, probe, scan, headers, codec, vars>>
     \/ unit = "dwarf" /\ Dwarf!Next /\ UNCHANGED <<reader, compact, cursor, objc, strings, probe, scan, headers, codec, vars>>
     \/ unit = "compact" /\ Compact!Next /\ UNCHANGED <<reader, dwarf, cursor, objc, strings, probe, scan, headers, codec, vars>>
     \/ unit = "cursor" /\ Cursor!Next /\ UNCHANGED <<reader, dwarf, compact, objc, strings, probe, scan, headers, codec, vars>>
     \/ unit = "objc" /\ ObjC!Next /\ UNCHANGED <<reader, dwarf, compact, cursor, strings, probe, scan, headers, codec, vars>>
     \/ unit = "strings" /\ Copies!Next /\ UNCHANGED <<reader, dwarf, compact, cursor, objc, probe, scan, headers, codec, vars>>
     \/ unit = "memory" /\ Probe!Next /\ UNCHANGED <<reader, dwarf, compact, cursor, objc, strings, scan, headers, codec, vars>>
     \/ unit = "text" /\ Scan!Next /\ UNCHANGED <<reader, dwarf, compact, cursor, objc, strings, probe, headers, codec, vars>>
     \/ unit = "header" /\ Header!Next /\ UNCHANGED <<reader, dwarf, compact, cursor, objc, strings, probe, scan, codec, vars>>
     \/ unit = "json" /\ JSON!Next /\ UNCHANGED <<reader, dwarf, compact, cursor, objc, strings, probe, scan, headers, vars>>
     \/ unit = "usage" /\ Next
        /\ UNCHANGED <<reader, dwarf, compact, cursor, objc, strings, probe, scan, headers, codec>>

MCSpec == MCInit /\ [][MCNext]_<<unit, reader, dwarf, compact, cursor, objc, strings, probe, scan, headers, codec,
                                vars>>

-----------------------------------------------------------------------------
\* Every variable of every component has its type.
UnitsTypeOK ==
  CASE unit = "reader"  -> Reader!TypeOK
    [] unit = "dwarf"   -> Dwarf!TypeOK
    [] unit = "compact" -> Compact!TypeOK
    [] unit = "cursor"  -> Cursor!TypeOK
    [] unit = "objc"    -> ObjC!TypeOK
    [] unit = "strings" -> Copies!TypeOK
    [] unit = "memory"  -> Probe!TypeOK
    [] unit = "text"    -> Scan!TypeOK
    [] unit = "header"  -> Header!TypeOK
    [] unit = "json"    -> JSON!TypeOK
    [] unit = "usage"   -> TypeOK

\* A LEB128 number of as many bytes as a word needs at most is read exactly; and
\* the row of call frame information that is applied is the one that CIE and FDE
\* define for the address, as long as no more rows are remembered than there is
\* room for.
CFIExact == /\ unit = "reader" => Reader!LEBExact
            /\ unit = "dwarf" => Dwarf!CFIExact

\* The binary searches of compact unwind information find the entry of the last
\* function that begins at the address or before it, and never lose it from
\* their bounds on the way; the searches of a header find the first of what
\* they search for, and an image is described by its own commands.
ImageExact == /\ unit = "compact" => Compact!EntryExact /\ Compact!SearchNarrows
              /\ unit = "header" => Header!HeaderExact

\* A backtrace lists the functions on the stack, in their order, where every
\* one can be unwound; the thread runs on after it, and a cursor that is reset
\* walks the same way again.
BacktraceExact == unit = "cursor" => Cursor!BacktraceExact /\ Cursor!ResetRepeats

\* "This provides accurate stack traces even for code compiled with
\* -fomit-frame-pointer": with all methods, no function that is described is
\* missing from the trace.
BacktraceAccurate == unit = "cursor" => Cursor!BacktraceAccurate

\* Objects, classes and blocks are told apart, and looking at a pointer ends
\* whatever was damaged, with a fault only in a read that nothing checks; and
\* memory with holes is copied up to the first of them.
ObjectsExact == /\ unit = "objc" => ObjC!ObjectsExact /\ ObjC!FaultsExplained
                /\ unit = "memory" => Probe!MemoryExact

\* A string is copied up to its last character that there is room for, memory is
\* taken for text exactly if it is text, and the address in a text is found; and a
\* string or a number that is written as JSON is read as the same one.
TextExact == /\ unit = "strings" => Copies!StringExact
             /\ unit = "text" => Scan!TextExact
             /\ unit = "json" => JSON!TextExact
=============================================================================
