---------------------------- MODULE KSDwarfReader ----------------------------
(***************************************************************************)
(* The reader of KSDwarfUnwind.c: numbers of a fixed size, LEB128 numbers  *)
(* and encoded pointers, out of bytes that may end too early.  Every pass  *)
(* of a loop is one step.                                                  *)
(*                                                                         *)
(* A word has WordBits bits, and a number is what a word of them holds, so *)
(* that a negative one is 2^WordBits more.  The fixed sizes are "narrow",  *)
(* one byte, and "wide", the size of a word.                               *)
(***************************************************************************)
EXTENDS Integers, Sequences, SequencesExt

CONSTANTS
  WordBits,   \* 64
  Requests,   \* what is read: its encoding, pcRelBase and the bytes
  Memory      \* the words that an indirect pointer may point to

Word      == 2 ^ WordBits
WordBytes == WordBits \div 8
Start     == 8               \* where the bytes are: startPos

VARIABLES
  request,  \* the bytes, and how they are encoded
  at,       \* "begin", "leb", "sign", "apply" or "done"
  data,     \* reader->data, as the number of bytes taken
  value,    \* result
  shift     \* shift

vars == <<request, at, data, value, shift>>

Formats == {"narrow", "wide", "uleb128", "snarrow", "sleb128", "unknown", "omit"}

TypeOK ==
  /\ request.format \in Formats
  /\ at \in {"begin", "leb", "sign", "apply", "done"}
  /\ data \in 0 .. Len(request.bytes)
  /\ value \in 0 .. Word - 1
  /\ shift \in 0 .. WordBits + 6

Init ==
  /\ request \in Requests
  /\ at = "begin" /\ data = 0 /\ value = 0 /\ shift = 0

-----------------------------------------------------------------------------
Bytes == request.bytes

\* readerHasData()
readerHasData(n) == data + n <= Len(Bytes)

Size == IF request.format = "wide" THEN WordBytes ELSE 1

\* memcpy() of so many bytes, the lowest first.
Copied(n) == FoldLeft(LAMBDA x, k : x + Bytes[data + k] * 256 ^ (k - 1), 0, [k \in 1 .. n |-> k])

\* A conversion to a wider type repeats the sign.
Extended(v, n) == IF v >= 128 * 256 ^ (n - 1) THEN v + Word - 256 ^ n ELSE v

\* readU8() ... readS64(): 0 if there is too little, and then nothing is taken.
ReadFixed ==
  /\ at = "begin" /\ request.format \in {"narrow", "wide", "snarrow"}
  /\ IF readerHasData(Size)
     THEN /\ value' = IF request.format = "snarrow" THEN Extended(Copied(1), 1) ELSE Copied(Size)
          /\ data' = data + Size
     ELSE UNCHANGED <<value, data>>
  /\ at' = "apply"
  /\ UNCHANGED <<request, shift>>

\* DW_EH_PE_omit, or a format that is not known.
ReadNothing ==
  /\ at = "begin" /\ request.format \in {"omit", "unknown"}
  /\ at' = "done"
  /\ UNCHANGED <<request, data, value, shift>>

BeginLEB ==
  /\ at = "begin" /\ request.format \in {"uleb128", "sleb128"}
  /\ at' = "leb"
  /\ UNCHANGED <<request, data, value, shift>>

Byte == Bytes[data + 1]

\* Mutant of ReadLEB: stops a group before the word is full.
ReadLEBShort ==
  /\ at = "leb"
  /\ IF ~ readerHasData(1) THEN value' = 0 /\ at' = "apply" /\ UNCHANGED <<data, shift>>
     ELSE /\ value' = (value + (Byte % 128) * 2 ^ shift) % Word
          /\ data' = data + 1
          /\ shift' = shift + 7
          /\ at' = IF Byte >= 128 /\ shift' + 7 < WordBits THEN "leb"
                   ELSE IF request.format = "sleb128" THEN "sign" ELSE "apply"
  /\ UNCHANGED request

\* readULEB128(), readSLEB128(): seven bits of a byte, until one has no eighth
\* or the word is full.  Bytes that end too early make 0.
ReadLEB ==
  /\ at = "leb"
  /\ IF ~ readerHasData(1) THEN value' = 0 /\ at' = "apply" /\ UNCHANGED <<data, shift>>
     ELSE /\ value' = (value + (Byte % 128) * 2 ^ shift) % Word
          /\ data' = data + 1
          /\ shift' = shift + 7
          /\ at' = IF Byte >= 128 /\ shift' < WordBits THEN "leb"
                   ELSE IF request.format = "sleb128" THEN "sign" ELSE "apply"
  /\ UNCHANGED request

\* readSLEB128(): the sign is the seventh bit of the last byte.
SignExtend ==
  /\ at = "sign"
  /\ value' = IF shift < WordBits /\ Bytes[data] % 128 >= 64 THEN value + Word - 2 ^ shift ELSE value
  /\ at' = "apply"
  /\ UNCHANGED <<request, data, shift>>

\* The address that a number stands for, by the modifier of its encoding.
Modified(v) ==
  CASE request.modifier = "pcrel"   -> (v + IF request.base # 0 THEN request.base ELSE Start) % Word
    [] request.modifier = "datarel" -> v    \* reader->baseAddress is always 0
    [] request.modifier \in {"none", "unsupported"} -> v

\* readEncodedPointer(): the modifier, then one indirection, if it can be read.
Apply ==
  /\ at = "apply"
  /\ LET a == Modified(value) IN
     value' = IF request.indirect /\ a \in DOMAIN Memory THEN Memory[a] ELSE a
  /\ at' = "done"
  /\ UNCHANGED <<request, data, shift>>

Done == at = "done" /\ UNCHANGED vars

Next == ReadFixed \/ ReadNothing \/ BeginLEB \/ ReadLEB \/ SignExtend \/ Apply \/ Done

Spec == Init /\ [][Next]_vars

-----------------------------------------------------------------------------
\* The bytes of a LEB128 number, if it ends at all.
Last7     == {n \in 1 .. Len(Bytes) : Bytes[n] < 128 /\ \A k \in 1 .. n - 1 : Bytes[k] >= 128}
MaxBytes  == (WordBits + 6) \div 7
Number(n) == FoldLeft(LAMBDA x, k : x + (Bytes[k] % 128) * 128 ^ (k - 1), 0, [k \in 1 .. n |-> k])
Signed(n) == IF Bytes[n] >= 64 THEN Number(n) - 128 ^ n ELSE Number(n)

\* A LEB128 number of as many bytes as a word needs at most is read exactly,
\* with its sign, and the reader is behind its last byte, however many bits of
\* the last byte the word has no room for; one that is cut off is 0.
LEBExact ==
  at = "done" /\ request.format \in {"uleb128", "sleb128"} /\ request.modifier = "none" /\ ~ request.indirect =>
    /\ \A n \in Last7 : n <= MaxBytes =>
         /\ data = n
         /\ value = (IF request.format = "uleb128" THEN Number(n) ELSE Signed(n)) % Word
    /\ Len(Bytes) < MaxBytes /\ Last7 = {} => value = 0
=============================================================================
