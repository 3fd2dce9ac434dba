------------------------------ MODULE KSJSONText ------------------------------
(***************************************************************************)
(* Strings and numbers in JSON (KSJSONCodec.c), byte by byte: what the     *)
(* encoder makes of them, and what the decoder makes of that, or of text   *)
(* that others have written.  A pass of a loop is one step.                *)
(*                                                                         *)
(* A byte is its code.  What snprintf() prints for a number is given with  *)
(* the number, and so is the byte behind the text.                         *)
(***************************************************************************)
EXTENDS Integers, Sequences, SequencesExt, TLC

CONSTANTS
  Jobs,           \* what is encoded or decoded
  WorkBuffer,     \* KSJSONCODEC_WorkBufferSize
  NumberBuffer,   \* the buffer of ksjson_addIntegerElement()
  WordBits        \* the width of an integer, 64 in the code

VARIABLES
  job,       \* the value or the text, and the length of the decoder's buffer
  at,        \* "encode", "scan", "unescape", "number", "digits", "float" or "done"
  text,      \* the JSON
  offset,    \* how much of the string has been encoded
  added,     \* what addEscapedString() has returned
  used,      \* history: the most that was in its work buffer
  src, end,  \* src and srcEnd, or bufferPtr
  fastCopy,
  accum,
  dst,       \* the decoded string
  element    \* what the decoder's callback is told, or the error

encoder == <<text, offset, added, used>>
decoder == <<src, end, fastCopy, accum, dst>>
vars    == <<job, at, encoder, decoder, element>>

MaxUnsigned == 2 ^ WordBits - 1
MaxSigned   == 2 ^ (WordBits - 1) - 1
Errors      == {"INVALID_CHARACTER", "INCOMPLETE", "DATA_TOO_LONG"}

TypeOK ==
  /\ job \in Jobs
  /\ at \in {"encode", "scan", "unescape", "number", "digits", "float", "done"}
  /\ {offset, used} \subseteq Nat /\ {src, end} \subseteq Nat /\ fastCopy \in BOOLEAN
  /\ added \in {"OK"} \cup Errors
  /\ accum \in 0 .. MaxUnsigned
  /\ element.type \in {"none", "string", "integer", "unsigned", "float", "null"} \cup Errors

None     == [type |-> "none"]
Quote    == 34
Slash    == 92
LetterU  == 117
Minus    == 45

-----------------------------------------------------------------------------
(***************************************************************************)
(* The encoder                                                             *)
(***************************************************************************)
\* What follows the backslash
Letter == (8 :> 98) @@ (12 :> 102) @@ (10 :> 110) @@ (13 :> 114) @@ (9 :> 116)

Escaped(b) == IF b \in {Quote, Slash} THEN <<Slash, b>> ELSE IF b \in DOMAIN Letter THEN <<Slash, Letter[b]>> ELSE <<b>>
Invalid(b) == b < 32 /\ b \notin DOMAIN Letter

\* checkWriteResult(): snprintf() had room for all of it and its terminator.
checkWriteResult(printed, size) == Len(printed) < size

\* formatDouble(): a number without a point and an exponent is printed again,
\* with a point; zeros at its end are taken off, but not the one behind the point.
\* printed has what is printed with %g and with %.1f; what is not finite has a
\* text of its own.
Point    == 46
Exponent == 101
formatDouble(printed) ==
  LET g     == printed.g
      zeros == {k \in 1 .. Len(g) : /\ \A j \in k .. Len(g) : g[j] = 48
                                    /\ \E j \in 1 .. k - 1 : g[j] = Point}
      Shortest == CHOOSE k \in zeros : \A j \in zeros : k <= j
  IN
  IF ~ printed.finite \/ Exponent \in ToSet(g) THEN g
  ELSE IF Point \notin ToSet(g) THEN printed.f
  ELSE IF zeros = {} THEN g
  ELSE IF g[Shortest - 1] = Point THEN SubSeq(g, 1, Shortest) ELSE SubSeq(g, 1, Shortest - 1)

\* ksjson_addIntegerElement(), ksjson_addUIntegerElement(),
\* ksjson_addFloatingPointElement(): nothing is written if it does not fit.
Formatted(j) ==
  CASE j.kind = "integer" -> IF checkWriteResult(j.printed, NumberBuffer) THEN j.printed ELSE <<>>
    [] j.kind = "double"  -> formatDouble(j.printed)

\* The text that is there at the start, with what follows a number in a report
Comma == 44
Given(j) ==
  CASE j.kind = "string"              -> <<Quote>>
    [] j.kind = "json"                -> <<Quote>> \o FlattenSeq([k \in DOMAIN j.pieces |-> j.pieces[k].bytes]) \o j.closing
    [] j.kind = "number"              -> j.bytes
    [] j.kind \in {"integer", "double"} -> Formatted(j) \o <<Comma>>

Init ==
  /\ job \in Jobs
  /\ at = CASE job.kind = "string" -> "encode" [] job.kind = "json" -> "scan" [] OTHER -> "number"
  /\ text = Given(job) /\ offset = 0 /\ added = "OK" /\ used = 0
  /\ src = (IF job.kind = "json" THEN 2 ELSE 1) /\ end = 0 /\ fastCopy = TRUE /\ accum = 0 /\ dst = <<>>
  /\ element = None

\* addEscapedString() and appendEscapedString(): a portion whose escapes fit in
\* the work buffer, whatever they are; none of it is added if one byte is invalid.
AddPortion ==
  /\ at = "encode" /\ added = "OK" /\ offset < Len(job.bytes)
  /\ LET left    == Len(job.bytes) - offset
         toAdd   == IF left > WorkBuffer \div 2 THEN WorkBuffer \div 2 ELSE left
         portion == SubSeq(job.bytes, offset + 1, offset + toAdd)
     IN  IF \E k \in 1 .. toAdd : Invalid(portion[k])
         THEN added' = "INVALID_CHARACTER" /\ UNCHANGED <<text, offset, used>>
         ELSE /\ text' = text \o FlattenSeq([k \in 1 .. toAdd |-> Escaped(portion[k])])
              /\ used' = IF Len(text') - Len(text) > used THEN Len(text') - Len(text) ELSE used
              /\ offset' = offset + toAdd
              /\ UNCHANGED added
  /\ UNCHANGED <<job, at, decoder, element>>

\* addQuotedEscapedString(): the string is closed, whatever has happened.
CloseString ==
  /\ at = "encode" /\ (added # "OK" \/ offset = Len(job.bytes))
  /\ text' = Append(text, Quote)
  /\ at' = "scan" /\ src' = 2
  /\ UNCHANGED <<job, offset, added, used, end, fastCopy, accum, dst, element>>

-----------------------------------------------------------------------------
(***************************************************************************)
(* decodeString()                                                          *)
(***************************************************************************)
Told(e)   == at' = "done" /\ element' = e
Error(e)  == Told([type |-> e])
String(s) == Told([type |-> "string", value |-> s])

\* The search for the closing quote
Scan ==
  /\ at = "scan"
  /\ \/ /\ src > Len(text)
        /\ Error("INCOMPLETE") /\ UNCHANGED decoder
     \/ /\ src <= Len(text) /\ text[src] # Quote
        /\ src' = IF text[src] = Slash THEN src + 2 ELSE src + 1
        /\ fastCopy' = (fastCopy /\ text[src] # Slash)
        /\ UNCHANGED <<at, end, accum, dst, element>>
     \/ /\ src <= Len(text) /\ text[src] = Quote
        /\ src' = 2 /\ end' = src
        /\ IF src - 2 >= job.max THEN Error("DATA_TOO_LONG") /\ UNCHANGED dst
           ELSE IF fastCopy THEN dst' = SubSeq(text, 2, src - 1) /\ String(dst')
           ELSE at' = "unescape" /\ UNCHANGED <<dst, element>>
        /\ UNCHANGED <<fastCopy, accum>>
  /\ UNCHANGED <<job, encoder>>

\* writeUTF8(): no character beyond 0x10ffff comes here.
writeUTF8(c) ==
  CASE c <= 127            -> <<c>>
    [] c \in 128 .. 2047   -> <<192 + c \div 64, 128 + (c % 64)>>
    [] c \in 2048 .. 65535 -> <<224 + c \div 4096, 128 + ((c \div 64) % 64), 128 + (c % 64)>>
    [] c > 65535           -> <<240 + c \div 262144, 128 + ((c \div 4096) % 64), 128 + ((c \div 64) % 64), 128 + (c % 64)>>

\* g_hexConversion, and the four digits behind the u at k; INV is more than four
\* digits can be.  (The bytes behind a u are ASCII here: the code indexes the table
\* with a signed char.)
INV    == 69905
Hex(b) == CASE b \in 48 .. 57  -> b - 48 [] b \in 65 .. 70 -> b - 55 [] b \in 97 .. 102 -> b - 87 [] OTHER -> INV
Unit(k) ==
  IF \E j \in 1 .. 4 : Hex(text[k + j]) = INV THEN INV
  ELSE ((Hex(text[k + 1]) * 16 + Hex(text[k + 2])) * 16 + Hex(text[k + 3])) * 16 + Hex(text[k + 4])
Lead(c)  == c \in 55296 .. 56319
Trail(c) == c \in 56320 .. 57343

\* The character of a pair, as the decoder combines it
Combined(lead, trail) == (lead - 55296) * 1024 + (trail - 56320)

\* A \u with its u at k: the character and where the text goes on, or the error
Unicode(k) ==
  LET Failed(e) == [error |-> e]
      Is(c, n)  == [error |-> "OK", character |-> c, next |-> n]
  IN
  IF k + 5 > end THEN Failed("INCOMPLETE")
  ELSE IF Unit(k) = INV \/ Trail(Unit(k)) THEN Failed("INVALID_CHARACTER")
  ELSE IF ~ Lead(Unit(k)) THEN Is(Unit(k), k + 5)
  ELSE IF k + 11 > end THEN Failed("INCOMPLETE")
  ELSE IF text[k + 5] # Slash \/ text[k + 6] # LetterU \/ ~ Trail(Unit(k + 6)) THEN Failed("INVALID_CHARACTER")
  ELSE Is(Combined(Unit(k), Unit(k + 6)), k + 11)

\* What a letter behind a backslash stands for
Unescaped == [b \in {Quote, Slash, 47} |-> b] @@ [l \in {Letter[b] : b \in DOMAIN Letter} |->
                                                    CHOOSE b \in DOMAIN Letter : Letter[b] = l]

Unescape ==
  /\ at = "unescape"
  /\ \/ /\ src >= end
        /\ String(dst) /\ UNCHANGED <<src, dst>>
     \/ /\ src < end /\ text[src] # Slash
        /\ dst' = Append(dst, text[src]) /\ src' = src + 1
        /\ UNCHANGED <<at, element>>
     \/ /\ src < end /\ text[src] = Slash /\ text[src + 1] \in DOMAIN Unescaped
        /\ dst' = Append(dst, Unescaped[text[src + 1]]) /\ src' = src + 2
        /\ UNCHANGED <<at, element>>
     \/ /\ src < end /\ text[src] = Slash /\ text[src + 1] = LetterU
        /\ \E u \in {Unicode(src + 1)} :
             IF u.error = "OK"
             THEN dst' = dst \o writeUTF8(u.character) /\ src' = u.next /\ UNCHANGED <<at, element>>
             ELSE Error(u.error) /\ UNCHANGED <<dst, src>>
     \/ /\ src < end /\ text[src] = Slash /\ text[src + 1] \notin DOMAIN Unescaped \cup {LetterU}
        /\ Error("INVALID_CHARACTER") /\ UNCHANGED <<dst, src>>
  /\ UNCHANGED <<job, encoder, end, fastCopy, accum>>

-----------------------------------------------------------------------------
(***************************************************************************)
(* decodeElement(), for a number                                           *)
(***************************************************************************)
Char(k)     == IF k <= Len(text) THEN text[k] ELSE job.behind
isDigit(b)  == b \in 48 .. 57
isFPChar(b) == isDigit(b) \/ b \in {Point, Exponent, 69, 43, Minus}
Negative    == text[1] = Minus
Start       == IF Negative THEN 2 ELSE 1

\* "null" is what formatDouble() has written for what is not a number.
LetterN == 110
BeginNumber ==
  /\ at = "number"
  /\ src' = Start
  /\ IF text[1] = LetterN THEN Told([type |-> "null"])
     ELSE IF ~ isDigit(Char(Start)) THEN Error("INVALID_CHARACTER")
     ELSE at' = "digits" /\ UNCHANGED element
  /\ UNCHANGED <<job, encoder, end, fastCopy, accum, dst>>

Digit(k)      == text[k] - 48
Overflows(k)  == accum > MaxUnsigned \div 10 \/ accum * 10 > MaxUnsigned - Digit(k)
MoreDigits    == src <= Len(text) /\ isDigit(text[src])

NextDigit ==
  /\ at = "digits" /\ MoreDigits /\ ~ Overflows(src)
  /\ accum' = accum * 10 + Digit(src)
  /\ src' = src + 1
  /\ UNCHANGED <<job, at, encoder, end, fastCopy, dst, element>>

\* A whole number that a signed or an unsigned word holds, the smallest one too;
\* anything else is a floating point number.
EndDigits ==
  /\ at = "digits" /\ (MoreDigits => Overflows(src))
  /\ IF src > Len(text) THEN Error("INCOMPLETE")
     ELSE IF isFPChar(text[src]) \/ (Negative /\ accum > MaxSigned + 1) THEN at' = "float" /\ UNCHANGED element
     ELSE IF Negative THEN Told([type |-> "integer", value |-> - accum])
     ELSE Told([type |-> IF accum <= MaxSigned THEN "integer" ELSE "unsigned", value |-> accum])
  /\ UNCHANGED <<job, encoder, decoder>>

\* The rest of a floating point number, which is copied for sscanf()
Float ==
  /\ at = "float"
  /\ IF src <= Len(text) /\ isFPChar(text[src]) THEN src' = src + 1 /\ UNCHANGED <<at, element>>
     ELSE /\ IF src > Len(text) THEN Error("INCOMPLETE")
             ELSE IF src - Start >= job.max THEN Error("DATA_TOO_LONG")
             ELSE Told([type |-> "float", negative |-> Negative, digits |-> SubSeq(text, Start, src - 1)])
          /\ UNCHANGED src
  /\ UNCHANGED <<job, encoder, end, fastCopy, accum, dst>>

Done == at = "done" /\ UNCHANGED vars

Next == AddPortion \/ CloseString \/ Scan \/ Unescape \/ BeginNumber \/ NextDigit \/ EndDigits \/ Float \/ Done

Spec == Init /\ [][Next]_vars

-----------------------------------------------------------------------------
\* A string comes back from the decoder as it was given to the encoder if it fits
\* there, or, if a byte of it cannot be written, its portions before that byte;
\* and no portion with its escapes is longer than the work buffer.
RoundTrip ==
  LET portion == WorkBuffer \div 2
      bad     == {k \in 1 .. Len(job.bytes) : Invalid(job.bytes[k])}
      First   == CHOOSE k \in bad : \A j \in bad : k <= j
      whole   == IF bad = {} THEN job.bytes ELSE SubSeq(job.bytes, 1, portion * ((First - 1) \div portion))
  IN
  job.kind = "string" =>
    /\ used <= WorkBuffer
    /\ at = "done" => /\ (added = "OK") = (bad = {})
                      /\ element = IF Len(text) - 2 >= job.max THEN [type |-> "DATA_TOO_LONG"]
                                   ELSE [type |-> "string", value |-> whole]

\* The characters of a text, piece by piece: a byte, or a code unit; a pair of
\* units is 0x10000 less than UTF-16 has it.
Meaning(ps) ==
  LET m[k \in 0 .. Len(ps)] ==
        IF k = 0 THEN <<>>
        ELSE IF ~ Trail(ps[k].unit) THEN Append(m[k - 1], ps[k].unit)
        ELSE Append(Front(m[k - 1]), Combined(ps[k - 1].unit, ps[k].unit))
  IN  FlattenSeq([k \in DOMAIN m[Len(ps)] |-> writeUTF8(m[Len(ps)][k])])
Paired(ps) ==
  \A k \in 1 .. Len(ps) : /\ Lead(ps[k].unit) => k < Len(ps) /\ Trail(ps[k + 1].unit)
                          /\ Trail(ps[k].unit) => k > 1 /\ Lead(ps[k - 1].unit)

\* A text that others have written is decoded to what it means, and refused if it
\* means nothing; and nothing is written behind the buffer.
UnescapeExact ==
  /\ Len(dst) < job.max \/ dst = <<>>
  /\ job.kind = "json" /\ at = "done" =>
       IF job.closing # <<Quote>> THEN element.type = "INCOMPLETE"
       ELSE IF Len(text) - 2 >= job.max THEN element.type = "DATA_TOO_LONG"
       ELSE IF Paired(job.pieces) /\ \A k \in DOMAIN job.pieces : job.pieces[k].unit # INV
       THEN element = [type |-> "string", value |-> Meaning(job.pieces)]
       ELSE element.type \in Errors

\* A whole number is told exactly if a signed or an unsigned word holds it, the
\* smallest and the largest ones included, and as floating point otherwise, with
\* all of its text; so every number that is encoded is decoded as the same one,
\* and what was floating point still is.
NumberExact ==
  LET stops == {k \in Start .. Len(text) : ~ isFPChar(text[k])}
      Stop  == CHOOSE k \in stops : \A j \in stops : k <= j
      run   == SubSeq(text, Start, Stop - 1)
      value[k \in 0 .. Len(run)] == IF k = 0 THEN 0 ELSE value[k - 1] * 10 + (run[k] - 48)
      v     == value[Len(run)] * IF Negative THEN -1 ELSE 1
  IN
  at = "done" /\ job.kind \in {"number", "integer", "double"} /\ text[1] # LetterN =>
    /\ IF ~ isDigit(Char(Start)) THEN element.type = "INVALID_CHARACTER"
       ELSE IF stops = {} THEN element.type = "INCOMPLETE"
       ELSE IF (\A k \in 1 .. Len(run) : isDigit(run[k])) /\ v \in (- MaxSigned - 1) .. MaxUnsigned
       THEN element = [type |-> IF v <= MaxSigned THEN "integer" ELSE "unsigned", value |-> v]
       ELSE IF Len(run) >= job.max THEN element.type = "DATA_TOO_LONG"
       ELSE element = [type |-> "float", negative |-> Negative, digits |-> run]
    /\ job.kind = "integer" => element.value = job.value
    /\ job.kind = "double" => element.type = "float"

TextExact == RoundTrip /\ UnescapeExact /\ NumberExact
=============================================================================
