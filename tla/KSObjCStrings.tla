---------------------------- MODULE KSObjCStrings ----------------------------
(***************************************************************************)
(* ksobjc_copyStringContents() of KSObjC.c: the text of a string in a      *)
(* buffer, out of UTF-16, out of single bytes or out of a tagged pointer.  *)
(* Every pass of a loop is one step.                                       *)
(*                                                                         *)
(* A tagged pointer's payload is the length and the groups of bits above   *)
(* it, the lowest first: of eight bits up to a length of 7, of six up to   *)
(* 9, of five up to 11.                                                    *)
(***************************************************************************)
EXTENDS Integers, Sequences, SequencesExt

CONSTANT Strings   \* what is copied: the kind, its units, the length it claims, and maxByteCount

VARIABLES
  string,    \* the string
  at,        \* "begin", "copy" or "done"
  taken,     \* how far the source has been read
  remaining, \* charsRemaining, or the characters still to copy
  buffer,    \* what has been written, by index from 0
  used,      \* pDst - dst
  returned   \* the number that is returned

vars == <<string, at, taken, remaining, buffer, used, returned>>

TypeOK ==
  /\ string \in Strings
  /\ at \in {"begin", "copy", "done"}
  /\ taken \in Nat /\ remaining \in Int
  /\ DOMAIN buffer \subseteq Nat
  /\ used \in Nat /\ returned \in Nat

Init ==
  /\ string \in Strings
  /\ at = "begin" /\ taken = 0 /\ remaining = 0
  /\ buffer = [k \in {} |-> 0] /\ used = 0 /\ returned = 0

Put(k, b) == [j \in DOMAIN buffer \cup {k} |-> IF j = k THEN b ELSE buffer[j]]
PutAll(bs) == [j \in DOMAIN buffer \cup (used .. used + Len(bs) - 1) |->
                 IF j >= used THEN bs[j - used + 1] ELSE buffer[j]]
Least(a, b) == IF a < b THEN a ELSE b

-----------------------------------------------------------------------------
(***************************************************************************)
(* copyAndConvertUTF16StringToUTF8()                                       *)
(***************************************************************************)
BeginUTF16 ==
  /\ at = "begin" /\ string.kind = "utf16"
  /\ at' = "copy" /\ remaining' = string.length
  /\ UNCHANGED <<string, taken, buffer, used, returned>>

Lead(u)   == u \in 55296 .. 56319    \* 0xd800 .. 0xdbff
Tail16(u) == u \in 56320 .. 57343    \* 0xdc00 .. 0xdfff

\* What lies behind the characters is not known, and is read after a lead.
Unit(k)      == string.units[k]
Character(u, t) == (u - 55296) * 1024 + (t - 56320) + 65536

UTF8(c) ==
  CASE c < 128                 -> <<c>>
    [] c \in 128 .. 2047       -> <<192 + c \div 64, 128 + (c % 64)>>
    [] c \in 2048 .. 65535     -> <<224 + c \div 4096, 128 + ((c \div 64) % 64), 128 + (c % 64)>>
    [] c \in 65536 .. 1114111  -> <<240 + c \div 262144, 128 + ((c \div 4096) % 64), 128 + ((c \div 64) % 64), 128 + (c % 64)>>

Room == string.max - 1 - used
End  == /\ at' = "done" /\ buffer' = Put(used, 0) /\ returned' = used
        /\ UNCHANGED used
Refuse == /\ at' = "done" /\ buffer' = Put(0, 0) /\ returned' = 0
          /\ UNCHANGED used

\* Mutant of ConvertUTF16: what has no room is cut off.
ConvertUTF16Cuts ==
  /\ at = "copy" /\ string.kind = "utf16" /\ remaining > 0 /\ Room > 0
  /\ LET u     == Unit(taken + 1)
         pair  == Lead(u)
         bytes == UTF8(IF pair THEN Character(u, Unit(taken + 2)) ELSE u) IN
     IF Tail16(u) \/ (pair /\ ~ Tail16(Unit(taken + 2)))
     THEN Refuse /\ UNCHANGED <<taken, remaining>>
     ELSE LET n == Least(Len(bytes), Room) IN
          /\ buffer' = PutAll(SubSeq(bytes, 1, n)) /\ used' = used + n
          /\ taken' = taken + (IF pair THEN 2 ELSE 1)
          /\ remaining' = remaining - (IF pair THEN 2 ELSE 1)
          /\ UNCHANGED <<at, returned>>
  /\ UNCHANGED string

\* One character: a pair that is no pair makes an empty string of it all, and
\* a character that has no room ends it.
ConvertUTF16 ==
  /\ at = "copy" /\ string.kind = "utf16" /\ remaining > 0 /\ Room > 0
  /\ LET u     == Unit(taken + 1)
         pair  == Lead(u)
         bytes == UTF8(IF pair THEN Character(u, Unit(taken + 2)) ELSE u) IN
     IF Tail16(u) \/ (pair /\ ~ Tail16(Unit(taken + 2)))
     THEN Refuse /\ UNCHANGED <<taken, remaining>>
     ELSE IF Len(bytes) > Room THEN End /\ UNCHANGED <<taken, remaining>>
     ELSE /\ buffer' = PutAll(bytes) /\ used' = used + Len(bytes)
          /\ taken' = taken + (IF pair THEN 2 ELSE 1)
          /\ remaining' = remaining - (IF pair THEN 2 ELSE 1)
          /\ UNCHANGED <<at, returned>>
  /\ UNCHANGED string

EndUTF16 ==
  /\ at = "copy" /\ string.kind = "utf16" /\ (remaining <= 0 \/ Room <= 0)
  /\ End
  /\ UNCHANGED <<string, taken, remaining>>

-----------------------------------------------------------------------------
\* copy8BitString(): as much as there is room for, if it can all be read.
Copy8Bit ==
  /\ at = "begin" /\ string.kind = "bytes"
  /\ at' = "done"
  /\ LET n == Least(string.length, string.max - 1) IN
     IF string.max = 0 THEN UNCHANGED <<buffer, returned>>
     ELSE IF n = 0 \/ n > Len(string.units) THEN buffer' = Put(0, 0) /\ returned' = 0
     ELSE buffer' = [k \in 0 .. n |-> IF k = n THEN 0 ELSE string.units[k + 1]] /\ returned' = n
  /\ UNCHANGED <<string, taken, remaining, used>>

\* extractTaggedNSString(), getTaggedNSStringLength(): how many characters.
BeginTagged ==
  /\ at = "begin" /\ string.kind = "tagged"
  /\ at' = "copy"
  /\ remaining' = IF string.length + 1 > string.max THEN string.max - 1 ELSE string.length
  /\ UNCHANGED <<string, taken, buffer, used, returned>>

\* Which character a group stands for; with six or five bits, the alphabet's.
Letter(group) == 1000 + group
Group(k)      == IF string.length <= 7 THEN string.units[k + 1] % 128
                 ELSE Letter(string.units[string.length - k] % (IF string.length <= 9 THEN 64 ELSE 32))

CopyTagged ==
  /\ at = "copy" /\ string.kind = "tagged" /\ string.length <= 11 /\ used < remaining
  /\ buffer' = Put(used, Group(used))
  /\ used' = used + 1
  /\ UNCHANGED <<string, at, taken, remaining, returned>>

\* The end is marked at the length, whatever there was room for.
EndTagged ==
  /\ at = "copy" /\ string.kind = "tagged" /\ (string.length > 11 \/ used >= remaining)
  /\ buffer' = [k \in DOMAIN buffer \cup (IF string.length > 11 THEN {0} ELSE {}) \cup {string.length} |->
                  IF k = string.length \/ string.length > 11 THEN 0 ELSE buffer[k]]
  /\ returned' = string.length
  /\ at' = "done"
  /\ UNCHANGED <<string, taken, remaining, used>>

Done == at = "done" /\ UNCHANGED vars

Next == BeginUTF16 \/ ConvertUTF16 \/ EndUTF16 \/ Copy8Bit \/ BeginTagged \/ CopyTagged \/ EndTagged \/ Done

Spec == Init /\ [][Next]_vars

-----------------------------------------------------------------------------
\* The characters that a sequence of units encodes, or none if it is not one.
Characters(us) ==
  LET c[k \in 0 .. Len(us)] ==
        IF k = 0 THEN <<>>
        ELSE IF Lead(us[k]) THEN c[k - 1]
        ELSE IF Tail16(us[k]) THEN Append(c[k - 1], Character(us[k - 1], us[k])) ELSE Append(c[k - 1], us[k])
  IN  c[Len(us)]
Paired(us) == \A k \in 1 .. Len(us) : /\ Lead(us[k]) => k < Len(us) /\ Tail16(us[k + 1])
                                      /\ Tail16(us[k]) => k > 1 /\ Lead(us[k - 1])

Text == [k \in 1 .. returned |-> buffer[k - 1]]

\* Text that is copied is UTF-8 of a beginning of the string, and of all of it
\* that there is room for: no character is cut in two, and pairs stay pairs.
\* Nothing is written behind the buffer, and the text ends with a zero; except
\* that the end of a short string in a pointer is marked where it would be if
\* there was room.
StringExact ==
  at = "done" =>
    /\ string.kind # "tagged" \/ string.length < string.max =>
         /\ \A k \in DOMAIN buffer : k < string.max
         /\ string.max > 0 => buffer[returned] = 0
    /\ string.kind = "tagged" /\ string.length < string.max /\ string.length \in 8 .. 11 =>
         \A k \in 1 .. returned : Text[k] = Letter(string.units[returned + 1 - k])
    /\ string.kind = "utf16" /\ Paired(SubSeq(string.units, 1, string.length)) =>
         LET cs == Characters(SubSeq(string.units, 1, string.length))
             n  == CHOOSE k \in 0 .. Len(cs) :
                     /\ Len(FlattenSeq([j \in 1 .. k |-> UTF8(cs[j])])) < string.max
                     /\ k < Len(cs) => Len(FlattenSeq([j \in 1 .. k + 1 |-> UTF8(cs[j])])) >= string.max
         IN  Text = FlattenSeq([j \in 1 .. n |-> UTF8(cs[j])])
=============================================================================
