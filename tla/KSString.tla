------------------------------- MODULE KSString -------------------------------
(***************************************************************************)
(* KSString.c: memory whose meaning is not known is searched for text, and *)
(* text for an address.  Every byte that is looked at is one step.         *)
(***************************************************************************)
EXTENDS Integers, Sequences

CONSTANTS
  Texts,      \* what is looked at: what for, the bytes, and the lengths that are passed
  WordBits    \* the width of the result, 64 in the code

VARIABLES
  text,      \* the call: what for, bytes, min and max
  at,        \* "utf8", "continuation", "search", "digits" or "done"
  index,     \* ptr or current, as an offset
  left,      \* the continuation bytes still to come
  accum,     \* the value so far
  seen,      \* the offsets that were read
  returned   \* the answer

vars == <<text, at, index, left, accum, seen, returned>>

TypeOK ==
  /\ text \in Texts
  /\ at \in {"utf8", "continuation", "search", "digits", "done"}
  /\ index \in Nat /\ left \in 0 .. 5
  /\ accum \in 0 .. 2 ^ WordBits - 1
  /\ seen \subseteq Nat
  /\ returned \in BOOLEAN

Init ==
  /\ text \in Texts
  /\ at = text.check
  /\ index = 0 /\ left = 0 /\ accum = 0 /\ seen = {} /\ returned = FALSE

Byte(k)   == text.bytes[k + 1]
Read(k)   == seen' = seen \cup {k}
Return(b) == at' = "done" /\ returned' = b /\ UNCHANGED <<index, left>>

-----------------------------------------------------------------------------
(***************************************************************************)
(* ksstring_isNullTerminatedUTF8String()                                   *)
(***************************************************************************)
\* g_printableControlChars
Printable == {9, 10, 13}

\* g_continuationByteCount: by the number of leading ones
ContinuationBytes(ch) ==
  CASE ch \in 192 .. 223 -> 1 [] ch \in 224 .. 239 -> 2 [] ch \in 240 .. 247 -> 3
    [] ch \in 248 .. 251 -> 4 [] ch \in 252 .. 253 -> 5 [] ch \in 254 .. 255 -> 0
Continues(ch) == ch \in 128 .. 191

\* One character's first byte
CheckByte ==
  /\ at = "utf8"
  /\ IF index >= text.max
     THEN Return(FALSE) /\ UNCHANGED seen
     ELSE LET ch == Byte(index) IN
          /\ Read(index)
          /\ CASE ch = 0        -> Return(index >= text.min)
               [] Continues(ch) -> Return(FALSE)
               [] ch >= 192     ->
                    LET c == ContinuationBytes(ch) IN
                    IF c = 0 \/ index + c >= text.max
                    THEN Return(FALSE)
                    ELSE at' = "continuation" /\ left' = c /\ UNCHANGED <<index, returned>>
               [] ch < 32       -> IF ch \in Printable THEN index' = index + 1 /\ UNCHANGED <<at, left, returned>>
                                   ELSE Return(FALSE)
               [] ch \in 32 .. 127 -> index' = index + 1 /\ UNCHANGED <<at, left, returned>>
  /\ UNCHANGED <<text, accum>>

\* One of the bytes that continue it
CheckContinuation ==
  /\ at = "continuation"
  /\ Read(index + 1)
  /\ IF ~ Continues(Byte(index + 1))
     THEN Return(FALSE)
     ELSE /\ left' = left - 1
          /\ IF left = 1 THEN at' = "utf8" /\ index' = index + 2 ELSE index' = index + 1 /\ UNCHANGED at
          /\ UNCHANGED returned
  /\ UNCHANGED <<text, accum>>

-----------------------------------------------------------------------------
(***************************************************************************)
(* ksstring_extractHexValue()                                              *)
(***************************************************************************)
\* g_hexConversion, where 16 stands for INV
INV == 16
Hex(ch) == CASE ch \in 48 .. 57  -> ch - 48
             [] ch \in 65 .. 70  -> ch - 55
             [] ch \in 97 .. 102 -> ch - 87
             [] OTHER -> INV

\* strnstr(): the offsets of "0x" before the end, and before the string ends
Prefixes(from) == {i \in from .. text.max - 2 : /\ Byte(i) = 48 /\ Byte(i + 1) = 120
                                                /\ \A j \in from .. i : Byte(j) # 0}

Search ==
  /\ at = "search"
  /\ IF text.max <= 0 \/ Prefixes(index) = {}
     THEN Return(FALSE) /\ UNCHANGED seen
     ELSE LET found == CHOOSE i \in Prefixes(index) : \A j \in Prefixes(index) : i <= j IN
          /\ Read(found + 2)
          /\ index' = found + 2
          /\ at' = IF Hex(Byte(found + 2)) = INV THEN "search" ELSE "digits"
          /\ UNCHANGED <<left, returned>>
  /\ UNCHANGED <<text, accum>>

Digit ==
  /\ at = "digits"
  /\ IF index >= text.max
     THEN Return(TRUE) /\ UNCHANGED <<accum, seen>>
     ELSE /\ Read(index)
          /\ IF Hex(Byte(index)) = INV
             THEN Return(TRUE) /\ UNCHANGED accum
             ELSE /\ accum' = (accum * 16 + Hex(Byte(index))) % 2 ^ WordBits
                  /\ index' = index + 1
                  /\ UNCHANGED <<at, left, returned>>
  /\ UNCHANGED text

Done == at = "done" /\ UNCHANGED vars

Next == CheckByte \/ CheckContinuation \/ Search \/ Digit \/ Done

Spec == Init /\ [][Next]_vars

-----------------------------------------------------------------------------
\* The number of bytes of the character at an offset, or 0 if there is none.
Width(k) ==
  LET ch == Byte(k)
      c  == IF ch < 192 THEN 0 ELSE ContinuationBytes(ch)
  IN  IF ch \in Printable \cup (32 .. 127) THEN 1
      ELSE IF c > 0 /\ k + c < Len(text.bytes) /\ \A j \in k + 1 .. k + c : Continues(Byte(j)) THEN c + 1
      ELSE 0

\* The first n bytes are characters.
Characters(n) ==
  LET whole[k \in 0 .. n] == k = 0 \/ \E j \in 0 .. k - 1 : whole[j] /\ j + Width(j) = k
  IN  whole[n]

\* The digits from an offset on
Digits(k) == CHOOSE n \in 0 .. text.max - k :
               /\ \A j \in k .. k + n - 1 : Hex(Byte(j)) # INV
               /\ k + n < text.max => Hex(Byte(k + n)) = INV
Value(k, n) == LET v[j \in 0 .. n] == IF j = 0 THEN 0 ELSE v[j - 1] * 16 + Hex(Byte(k + j - 1)) IN v[n]

\* Memory is text exactly if characters of UTF-8 and a zero are in it, so long as
\* it has to be; neither what is behind the limit nor what is behind the zero is
\* looked at.  The address in a text is the number after the first "0x" that a
\* digit follows, without the digits that a word has no room for; one byte behind
\* the length is looked at, and if it is a digit the number is 0.
TextExact ==
  /\ at = "done" /\ text.check = "utf8" =>
       returned = \E n \in 0 .. text.max - 1 : n >= text.min /\ Byte(n) = 0 /\ Characters(n)
  /\ text.check = "utf8" =>
       \A k \in seen : k < text.max /\ \A j \in 0 .. k - 1 : Byte(j) # 0
  /\ at = "done" /\ text.check = "search" =>
       LET starts == {i \in Prefixes(0) : Hex(Byte(i + 2)) # INV}
           first  == CHOOSE i \in starts : \A j \in starts : i <= j
       IN  /\ returned = (text.max > 0 /\ starts # {})
           /\ returned => accum = Value(first + 2, Digits(first + 2)) % 2 ^ WordBits
           /\ \A k \in seen : k <= text.max /\ \A j \in 0 .. k - 1 : Byte(j) # 0
=============================================================================
