---------------------------- MODULE KSJSONCodec ----------------------------
(***************************************************************************)
(* The JSON encoder and decoder of KSJSONCodec.c as the report writer of   *)
(* KSCrashReportC.c uses them: a standard report is written, with the      *)
(* user's JSON in it; a fault may cut it short after any piece of it has   *)
(* got to the file; then a recrash report is written, into which the file  *)
(* of the first one is decoded.                                            *)
(*                                                                         *)
(* A piece is what one call of addJSONData() adds: a quote, the text of a  *)
(* string, a number (and so are true, false and null), a comma, a colon or *)
(* a bracket; "0" is the byte that buffers are cleared with.  White space  *)
(* is left out, and so are escapes: a text is written as it was read.  A   *)
(* cut may be within a number, which is a number then, and within a text,  *)
(* which is one without its closing quote.  Writing itself does not fail.  *)
(***************************************************************************)
EXTENDS Integers, SequencesExt

CONSTANTS
  BufferSize,   \* sizeof(fileBuffer), in pieces
  MaxText,      \* the longest text that the name and string buffers hold
  UserInfo,     \* what g_userInfoJSON may be; <<>>: NULL
  MaxElements,  \* model bound: elements added to the first report
  MaxDepth      \* model bound: containers inside one another, below 200

VARIABLES
  at,       \* how far the writer has come
  enc,      \* KSJSONEncodeContext
  dec,      \* KSJSONDecodeContext and JSONFromFileContext
  frames,   \* the calls of decodeElement(): "top" and then "end" is the first,
            \* and each of the others is in a container
  old,      \* tempPath: the file of the first report, which may be cut short
  complete, \* history: that report was written to its end
  added,    \* history: what the encoder got from the file
  elements  \* history: for the bound

vars == <<at, enc, dec, frames, old, complete, added, elements>>

Pieces == {"{", "}", "[", "]", ",", ":", "quote", "text", "number", "0"}

TypeOK ==
  /\ at \in {"report", "decoding user", "user", "debug", "written",
             "opening", "decoding file", "info", "crash", "callback", "ending", "done"}
  /\ enc.open \in Seq(BOOLEAN) /\ enc.first \in BOOLEAN /\ enc.out \in Seq(Pieces \ {"0"})
  /\ dec.buffer \in Seq(Pieces) /\ dec.ptr \in 1 .. Len(dec.buffer) + 1
  /\ dec.offset \in 0 .. Len(old) /\ dec.isEOF \in BOOLEAN /\ dec.level \in 0 .. 2
  /\ frames \in Seq({"top", "end", "array", "object"})
  /\ old \in Seq(Pieces) /\ added \in Seq(Pieces)
  /\ complete \in BOOLEAN /\ elements \in 0 .. MaxElements

-----------------------------------------------------------------------------
(***************************************************************************)
(* The encoder.  At level 0 nothing is open, and names are not written.    *)
(***************************************************************************)
Begun    == [open |-> <<>>, first |-> TRUE, out |-> <<>>]
Level(e) == Len(e.open)
InObject(e) == e.open # <<>> /\ Last(e.open)

\* addQuotedEscapedString()
Quoted(s) == <<"quote">> \o s \o <<"quote">>
Name      == Quoted(<<"text">>)

\* ksjson_beginElement()
BeginElement(e) ==
  [e EXCEPT !.first = FALSE,
            !.out   = @ \o (IF e.first THEN <<>> ELSE <<",">>)
                        \o (IF InObject(e) THEN Name \o <<":">> ELSE <<>>)]

\* ksjson_addStringElement() and the other elements that are no containers
AddElement(e, pieces) == [BeginElement(e) EXCEPT !.out = @ \o pieces]

\* ksjson_beginObject() and ksjson_beginArray()
BeginContainer(e, isObject) ==
  LET b == BeginElement(e)
  IN  [b EXCEPT !.open  = Append(@, isObject),
                !.first = TRUE,
                !.out   = Append(@, IF isObject THEN "{" ELSE "[")]

\* Mutant of EndContainer: the container is taken for the first entry.
EndContainerFirst(e) ==
  IF e.open = <<>> THEN e
  ELSE [e EXCEPT !.open = Front(@),
                 !.out  = Append(@, IF InObject(e) THEN "}" ELSE "]")]

\* ksjson_endContainer()
EndContainer(e) ==
  IF e.open = <<>> THEN e
  ELSE [e EXCEPT !.open  = Front(@),
                 !.first = FALSE,
                 !.out   = Append(@, IF InObject(e) THEN "}" ELSE "]")]

\* The loops at the end of ksjson_endEncode() and ksjson_addJSONFromFile()
Closed(e, level) ==
  LET closed[k \in 0 .. Level(e)] == IF k = 0 THEN e ELSE EndContainer(closed[k - 1])
  IN  closed[IF Level(e) > level THEN Level(e) - level ELSE 0]

-----------------------------------------------------------------------------
(***************************************************************************)
(* The decoder's buffer                                                    *)
(***************************************************************************)
Cleared == [k \in 1 .. BufferSize |-> "0"]
Idle    == [buffer |-> <<>>, ptr |-> 1, offset |-> 0, isEOF |-> TRUE, level |-> 0, close |-> TRUE]

End(d) == Len(d.buffer) + 1

\* updateDecoder_readFile(): less than half of the buffer is left, and it is
\* filled up.  bufferEnd stays where it is, also if there was less to read.
ReadFile(d) ==
  LET left == End(d) - d.ptr
      fill == BufferSize - left
      read == IF Len(old) - d.offset < fill THEN Len(old) - d.offset ELSE fill
  IN  IF d.isEOF \/ left >= BufferSize \div 2 THEN d
      ELSE [d EXCEPT !.buffer = [k \in 1 .. BufferSize |-> CASE k <= left -> d.buffer[d.ptr + k - 1]
                                                             [] k > left /\ k <= left + read -> old[d.offset + k - left]
                                                             [] k > left + read -> d.buffer[k]],
                     !.ptr = 1, !.offset = @ + read, !.isEOF = read < fill]

\* ksjson_addJSONFromFile() starts behind the end of its buffer.
FromFile(e) ==
  ReadFile([buffer |-> Cleared, ptr |-> BufferSize + 1, offset |-> 0, isEOF |-> FALSE,
            level |-> Level(e), close |-> TRUE])

\* ksjson_addJSONElement() decodes in place.
FromMemory(e, json, close) ==
  [buffer |-> json, ptr |-> 1, offset |-> 0, isEOF |-> TRUE, level |-> Level(e), close |-> close]

Piece(d, p) == IF p < End(d) THEN d.buffer[p] ELSE "end"

\* Behind the comma, if there is one
SkipComma(d) == IF Piece(d, d.ptr) = "," THEN [d EXCEPT !.ptr = @ + 1] ELSE d

\* The closing quote of the string at p, or 0; and what decodeString() makes
\* of it: 0 if it is none or is too long
ClosingQuote(d, p) ==
  LET quotes == {q \in p + 1 .. End(d) - 1 : d.buffer[q] = "quote"}
  IN  IF Piece(d, p) # "quote" \/ quotes = {} THEN 0
      ELSE CHOOSE q \in quotes : \A r \in quotes : q <= r
StringEnd(d, p) ==
  IF ClosingQuote(d, p) # 0 /\ ClosingQuote(d, p) - p - 1 <= MaxText THEN ClosingQuote(d, p) ELSE 0

\* The text up to the first zero byte, as strlen() sees it
Text(d, p) ==
  LET zeros == {q \in p + 1 .. StringEnd(d, p) : d.buffer[q] = "0"}
  IN  SubSeq(d.buffer, p + 1, IF zeros = {} THEN StringEnd(d, p) - 1
                              ELSE (CHOOSE q \in zeros : \A r \in zeros : q <= r) - 1)

-----------------------------------------------------------------------------
(***************************************************************************)
(* decodeElement(), one callback at a time                                 *)
(***************************************************************************)
Frame    == Last(frames)
Decoding == at \in {"decoding user", "decoding file"} /\ Frame # "end"

\* Where the next element is; 0 if its name or the colon is missing
ElementStart ==
  IF Frame # "object" THEN dec.ptr
  ELSE LET q == StringEnd(dec, dec.ptr)
       IN  IF q # 0 /\ Piece(dec, q + 1) = ":" THEN q + 2 ELSE 0

First == IF ElementStart = 0 THEN "end" ELSE Piece(dec, ElementStart)

\* The number at p ends before this place; digits may go on to the end.
NumberEnd(p) == CHOOSE q \in p + 1 .. End(dec) : /\ \A r \in p .. q - 1 : dec.buffer[r] = "number"
                                                 /\ Piece(dec, q) # "number"

\* The callback has added e, and the decoder goes on at p.
Goes(e, p, in) ==
  LET d == ReadFile([dec EXCEPT !.ptr = p])
  IN  /\ enc' = e
      /\ added' = IF at = "decoding file" THEN added \o SubSeq(e.out, Len(enc.out) + 1, Len(e.out)) ELSE added
      /\ frames' = in
      /\ dec' = IF Len(in) > Len(frames) \/ Last(in) = "end" THEN d ELSE SkipComma(d)
      /\ UNCHANGED <<old, complete, elements>>

\* An element at the top is the only one.
Rest == IF Frame = "top" THEN <<"end">> ELSE frames

DecodeString ==
  /\ Decoding /\ First = "quote" /\ StringEnd(dec, ElementStart) # 0
  /\ Goes(AddElement(enc, Quoted(Text(dec, ElementStart))), StringEnd(dec, ElementStart) + 1, Rest)
  /\ UNCHANGED at

DecodeNumber ==
  /\ Decoding /\ First = "number" /\ NumberEnd(ElementStart) < End(dec)
  /\ Goes(AddElement(enc, <<"number">>), NumberEnd(ElementStart), Rest)
  /\ UNCHANGED at

DecodeBegin ==
  /\ Decoding /\ First \in {"{", "["}
  /\ Goes(BeginContainer(enc, First = "{"), ElementStart + 1,
          Append(Rest, IF First = "{" THEN "object" ELSE "array"))
  /\ UNCHANGED at

\* addJSONFromFile_onEndContainer()
OnEndContainer(e) == IF dec.close \/ Level(e) > 2 THEN EndContainer(e) ELSE e

Ends == \/ Frame = "array" /\ Piece(dec, dec.ptr) = "]"
        \/ Frame = "object" /\ Piece(dec, dec.ptr) = "}"

DecodeEnd ==
  /\ Decoding /\ Ends
  /\ Goes(OnEndContainer(enc), dec.ptr + 1, Front(frames))
  /\ UNCHANGED at

Fails == /\ ~Ends
         /\ \/ First \notin {"quote", "number", "{", "["}
            \/ First = "quote" /\ StringEnd(dec, ElementStart) = 0
            \/ First = "number" /\ NumberEnd(ElementStart) = End(dec)

Succeeded == Frame = "end"
Stopped   == Succeeded \/ Fails

\* What is still open is closed.
Merged == IF dec.close THEN Closed(enc, dec.level) ELSE enc

-----------------------------------------------------------------------------
(***************************************************************************)
(* The reports                                                             *)
(***************************************************************************)
Init ==
  /\ at = "report"
  /\ enc = BeginContainer(Begun, TRUE)
  /\ dec = Idle /\ frames = <<>>
  /\ old = <<>> /\ complete = FALSE /\ added = <<>> /\ elements = 0

decoder == <<dec, frames, old, complete, added>>

\* A section is any sequence of elements, and leaves nothing open that it has
\* opened.  In "user", g_userSectionWriteCallback() adds to the user's object.
Add ==
  /\ at \in {"report", "user"} /\ elements < MaxElements
  /\ \/ enc' \in {AddElement(enc, <<"number">>), AddElement(enc, Name)}
     \/ Level(enc) < MaxDepth /\ \E isObject \in BOOLEAN : enc' = BeginContainer(enc, isObject)
  /\ elements' = elements + 1
  /\ UNCHANGED <<at, decoder>>

Base == IF at = "user" THEN 2 ELSE 1

EndSection ==
  /\ at \in {"report", "user"} /\ Level(enc) > Base
  /\ enc' = EndContainer(enc)
  /\ UNCHANGED <<at, decoder, elements>>

\* kscrashreport_writeStandardReport(): the user's section, which is left open
WriteUserInfo ==
  /\ at = "report" /\ Level(enc) = 1
  /\ \E json \in UserInfo :
       IF json = <<>>
       THEN at' = "user" /\ enc' = BeginContainer(enc, TRUE) /\ UNCHANGED <<dec, frames>>
       ELSE at' = "decoding user" /\ dec' = FromMemory(enc, json, FALSE) /\ frames' = <<"top">> /\ UNCHANGED enc
  /\ UNCHANGED <<old, complete, added, elements>>

\* addJSONElement(): an error is written as an element of its own.
UserInfoWritten ==
  /\ at = "decoding user" /\ Stopped
  /\ at' = "user"
  /\ enc' = IF Succeeded THEN Merged
            ELSE EndContainer(AddElement(AddElement(BeginContainer(Merged, TRUE), Name), Name))
  /\ dec' = Idle /\ frames' = <<>>
  /\ UNCHANGED <<old, complete, added, elements>>

WriteDebugInfo ==
  /\ at = "user" /\ Level(enc) <= Base
  /\ at' = "debug"
  /\ enc' = EndContainer(BeginContainer(EndContainer(enc), TRUE))
  /\ UNCHANGED <<decoder, elements>>

EndReport ==
  /\ at = "debug"
  /\ at' = "written"
  /\ enc' = Closed(EndContainer(enc), 0)
  /\ UNCHANGED <<decoder, elements>>

\* A handler faults, and kscrashreport_writeRecrashReport() begins.
Recrash ==
  /\ at \in {"report", "decoding user", "user", "debug", "written"}
  /\ \E k \in IF at = "written" THEN {Len(enc.out)} ELSE 0 .. Len(enc.out) : old' = SubSeq(enc.out, 1, k)
  /\ complete' = (at = "written")
  /\ at' = "opening" /\ enc' = BeginContainer(Begun, TRUE)
  /\ dec' = Idle /\ frames' = <<>> /\ elements' = 0
  /\ UNCHANGED added

\* writeRecrash().  A file that cannot be opened is read like an empty one.
WriteRecrash ==
  /\ at = "opening"
  /\ at' = "decoding file"
  /\ dec' = FromFile(enc) /\ frames' = <<"top">>
  /\ UNCHANGED <<enc, old, complete, added, elements>>

RecrashWritten ==
  /\ at = "decoding file" /\ Stopped
  /\ at' = "info"
  /\ enc' = Merged
  /\ UNCHANGED <<decoder, elements>>

\* An object with an element in it
Section(e) == EndContainer(AddElement(BeginContainer(e, TRUE), Name))

\* The report's section, the crash's, and the user's if there is a callback
RecrashSection ==
  /\ at' \in CASE at = "info" -> {"crash"} [] at = "crash" -> {"callback", "ending"}
              [] at = "callback" -> {"ending"} [] OTHER -> {}
  /\ enc' = Section(enc)
  /\ UNCHANGED <<decoder, elements>>

EndRecrash ==
  /\ at = "ending"
  /\ at' = "done"
  /\ enc' = Closed(EndContainer(enc), 0)
  /\ UNCHANGED <<decoder, elements>>

Done == at = "done" /\ UNCHANGED vars

Next ==
  \/ Add \/ EndSection \/ WriteUserInfo \/ UserInfoWritten \/ WriteDebugInfo \/ EndReport
  \/ Recrash \/ WriteRecrash \/ RecrashWritten \/ RecrashSection \/ EndRecrash
  \/ DecodeString \/ DecodeNumber \/ DecodeBegin \/ DecodeEnd \/ Done

Spec == Init /\ [][Next]_vars

-----------------------------------------------------------------------------
(***************************************************************************)
(* Properties                                                              *)
(***************************************************************************)

\* A reader of one piece at a time, with the containers it is in and what it
\* expects next
Read(r, piece) ==
  LET top   == IF r.in = <<>> THEN "none" ELSE Last(r.in)
      value == [r EXCEPT !.want = IF r.in = <<>> THEN "end" ELSE "more"]
      bad   == [r EXCEPT !.want = "error"]
  IN  CASE r.want \in {"name text", "text"} ->
             IF piece # "quote" THEN r
             ELSE IF r.want = "text" THEN value ELSE [r EXCEPT !.want = "colon"]
        [] r.want = "colon" -> IF piece = ":" THEN [r EXCEPT !.want = "value"] ELSE bad
        [] r.want \in {"name", "first name"} /\ piece = "quote" -> [r EXCEPT !.want = "name text"]
        [] r.want \in {"value", "first value"} /\ piece = "number" -> value
        [] r.want \in {"value", "first value"} /\ piece = "quote" -> [r EXCEPT !.want = "text"]
        [] r.want \in {"value", "first value"} /\ piece = "{" -> [in |-> Append(r.in, "{"), want |-> "first name"]
        [] r.want \in {"value", "first value"} /\ piece = "[" -> [in |-> Append(r.in, "["), want |-> "first value"]
        [] r.want = "more" /\ piece = "," -> [r EXCEPT !.want = IF top = "{" THEN "name" ELSE "value"]
        [] \/ r.want \in {"more", "first name"} /\ piece = "}" /\ top = "{"
           \/ r.want \in {"more", "first value"} /\ piece = "]" /\ top = "[" ->
             [in |-> Front(r.in), want |-> IF Len(r.in) = 1 THEN "end" ELSE "more"]
        [] OTHER -> bad

WellFormed(s) ==
  LET read[k \in 0 .. Len(s)] == IF k = 0 THEN [in |-> <<>>, want |-> "value"] ELSE Read(read[k - 1], s[k])
  IN  read[Len(s)] = [in |-> <<>>, want |-> "end"]

\* Whatever a report has been through (user JSON of any shape, a fault after
\* any piece, a file that cannot be decoded to its end), it is well-formed JSON
\* once it has been written.
ReportWellFormed == at \in {"written", "done"} => WellFormed(enc.out)

\* However a fault has cut the first report short, ksjson_addJSONFromFile()
\* closes what it leaves open, and the sections of the recrash report are beside
\* it and not in it.
RecrashBeside == at \in {"info", "crash", "callback", "ending"} => Level(enc) = 1

\* Behind the name of the element that the file becomes
Copied == SubSeq(added, 5, Len(added))

Elements(s) == Len(SelectSeq(s, LAMBDA p : p \in {"number", "text", "{", "["}))

\* ksjson_addJSONFromFile() takes over a complete report as it is, however
\* often its buffer is filled; and of a report that was cut short, and fits
\* into the buffer, all that can be: a rest without a value.
MergeExact ==
  at = "info" /\ (complete \/ Len(old) < BufferSize) =>
    /\ IsPrefix(Copied, old)
    /\ complete => Copied = old
    /\ \A k \in Len(Copied) + 1 .. Len(old) : old[k] \notin {"number", "{", "["}

\* "Decode and add JSON data from a file": of a report that was cut short
\* nothing is added that is not in the file.
OnlyFromFile == at = "info" => Elements(Copied) <= Elements(old)
=============================================================================
