----------------------------- MODULE KSFileUtils -----------------------------
(***************************************************************************)
(* The buffered files of KSFileUtils.c.  A report is written through a     *)
(* KSBufferedWriter; write(2) may take part of what it is given, and may   *)
(* fail.  Meanwhile another thread may read the whole file.  Once the      *)
(* writer is closed, or its process has crashed, the file is read through  *)
(* a KSBufferedReader.                                                     *)
(*                                                                         *)
(* A byte is the number of its place among the bytes that were given to    *)
(* the writer, and Kind says what it is; 0 is the '\0' the reader adds.    *)
(* The descriptor is greater than 0: the code takes 0, which is the        *)
(* standard input, for a closed file.                                      *)
(***************************************************************************)
EXTENDS Integers, SequencesExt

CONSTANTS
  WriteBuffer,   \* writeBufferLength
  ReadBuffer,    \* readBufferLength - 1
  MaxBytes,      \* model bound: bytes given to the writer
  MaxPiece,      \* model bound: bytes of one call
  MaxFailures,   \* model bound: calls of write(2) that fail
  Kinds          \* what the bytes may be: functions to "text", "sep" and "nul"

VARIABLES
  kind,      \* what the bytes are
  file,      \* the bytes in the file
  writer,    \* "open", "closed" or "crashed"
  buffer,    \* the first writer->position bytes of the writer's buffer
  given,     \* how many bytes the writer has been given
  accepted,  \* history: the bytes for which ksfu_writeBufferedWriter() said true
  failures,  \* history: how many calls of write(2) have failed
  whole,     \* ksfu_readEntireFile()
  reader,    \* the KSBufferedReader and the file offset of its descriptor
  call       \* the read call: what it still wants, what it took, what it returned

write == <<kind, file, writer, buffer, given, accepted, failures>>
vars  == <<write, whole, reader, call>>

Least(a, b)   == IF a < b THEN a ELSE b
First(s, n)   == SubSeq(s, 1, n)
Junk          == MaxBytes + 1            \* what is in memory that nobody has set
Char(b)       == IF b = 0 THEN "nul" ELSE IF b = Junk THEN "sep" ELSE kind[b]

Idle == [op |-> "none", line |-> FALSE, want |-> 0, took |-> <<>>, found |-> FALSE]

\* An open reader before it has read anything.
OpenReader ==
  [buffer |-> [i \in 0 .. ReadBuffer |-> IF i \in {0, ReadBuffer} THEN 0 ELSE Junk],
   start |-> 0, end |-> 0, offset |-> 0]

TypeOK ==
  /\ kind \in Kinds
  /\ file \in Seq(1 .. MaxBytes)
  /\ writer \in {"open", "closed", "crashed"}
  /\ buffer \in Seq(1 .. MaxBytes) /\ Len(buffer) <= WriteBuffer
  /\ given \in 0 .. MaxBytes /\ accepted \in Seq(1 .. MaxBytes)
  /\ failures \in 0 .. MaxFailures
  /\ whole.at \in {"idle", "stat", "open", "done", "failed"}
  /\ reader.buffer \in [0 .. ReadBuffer -> 0 .. Junk]
  /\ 0 <= reader.start /\ reader.start <= reader.end /\ reader.end <= ReadBuffer
  /\ call.op \in {"none", "read", "until", "done"} /\ call.found \in BOOLEAN

Init ==
  /\ kind \in Kinds
  /\ file = <<>> /\ writer = "open" /\ buffer = <<>>
  /\ given = 0 /\ accepted = <<>> /\ failures = 0
  /\ whole = [at |-> "idle", max |-> 0, size |-> 0, from |-> 0, data |-> <<>>]
  /\ reader = OpenReader /\ call = Idle

-----------------------------------------------------------------------------
(***************************************************************************)
(* The writer.                                                             *)
(***************************************************************************)
\* ksfu_writeBytesToFD(): all of the bytes, or some of them and a failure.
Writes(bytes) ==
  {[ok |-> TRUE, out |-> bytes]}
    \cup {[ok |-> FALSE, out |-> First(bytes, n)] : n \in 0 .. Len(bytes) - 1}

\* Mutant of Flushed: the position is reset although the write failed.
FlushedAlways(w) == <<>>

\* ksfu_flushBufferedWriter(): what is left in the buffer after a write.
Flushed(w) == IF w.ok THEN <<>> ELSE buffer

Failed(ok) == failures' = IF ok THEN failures ELSE failures + 1

\* ksfu_writeBufferedWriter() with the next n bytes.
Write(n) ==
  LET data  == [i \in 1 .. n |-> given + i]
      tight == n > WriteBuffer - Len(buffer)
  IN
  /\ writer = "open" /\ given + n <= MaxBytes /\ failures < MaxFailures
  /\ given' = given + n
  /\ \E w \in IF tight THEN Writes(buffer) ELSE {[ok |-> TRUE, out |-> <<>>]} :
       LET kept == IF tight THEN Flushed(w) ELSE buffer IN
       \/ /\ ~ w.ok
          /\ file' = file \o w.out /\ buffer' = kept
          /\ UNCHANGED accepted /\ Failed(FALSE)
       \/ /\ w.ok /\ n > WriteBuffer
          /\ \E d \in Writes(data) :
               /\ file' = file \o w.out \o d.out /\ buffer' = kept
               /\ accepted' = IF d.ok THEN accepted \o data ELSE accepted
               /\ Failed(d.ok)
       \/ /\ w.ok /\ n <= WriteBuffer
          /\ file' = file \o w.out /\ buffer' = kept \o data
          /\ accepted' = accepted \o data
          /\ UNCHANGED failures
  /\ UNCHANGED <<kind, writer, whole, reader, call>>

\* ksfu_flushBufferedWriter(), after every section of the report.
Flush ==
  /\ writer = "open" /\ buffer # <<>> /\ failures < MaxFailures
  /\ \E w \in Writes(buffer) :
       file' = file \o w.out /\ buffer' = Flushed(w) /\ Failed(w.ok)
  /\ UNCHANGED <<kind, writer, given, accepted, whole, reader, call>>

\* ksfu_closeBufferedWriter() ignores what the flush says; the open file is
\* then read from its beginning by ksfu_openBufferedReader().
Close ==
  /\ writer = "open" /\ failures < MaxFailures
  /\ writer' = "closed"
  /\ \E w \in Writes(buffer) : file' = file \o w.out /\ buffer' = Flushed(w) /\ Failed(w.ok)
  /\ UNCHANGED <<kind, given, accepted, whole, reader, call>>

\* The writer's process faults; its buffer was on the stack of the handler.
Crash ==
  /\ writer = "open"
  /\ writer' = "crashed"
  /\ UNCHANGED <<kind, file, buffer, given, accepted, failures, whole, reader, call>>

-----------------------------------------------------------------------------
(***************************************************************************)
(* ksfu_readEntireFile(), by another thread.                               *)
(***************************************************************************)
\* stat(); the file may grow from here on.
Stat(max) ==
  /\ whole.at = "idle" /\ call.op = "none"
  /\ whole' = [whole EXCEPT !.at = "stat", !.max = max, !.size = Len(file)]
  /\ UNCHANGED <<write, reader, call>>

\* open() and lseek(): from the beginning, or max bytes before the end.
Open ==
  LET all == whole.max = 0 \/ whole.max >= whole.size IN
  /\ whole.at = "stat"
  /\ \/ whole' = [whole EXCEPT !.at = "open", !.from = IF all THEN 0 ELSE Len(file) - whole.max,
                               !.size = IF all THEN whole.size ELSE whole.max]
     \/ whole' = [whole EXCEPT !.at = "failed"]
  /\ UNCHANGED <<write, reader, call>>

\* ksfu_readBytesFromFD(), which fails at the end of the file.
ReadAll ==
  /\ whole.at = "open"
  /\ \/ /\ whole.from + whole.size <= Len(file)
        /\ whole' = [whole EXCEPT !.at = "done",
                                  !.data = SubSeq(file, whole.from + 1, whole.from + whole.size)]
     \/ whole' = [whole EXCEPT !.at = "failed"]
  /\ UNCHANGED <<write, reader, call>>

-----------------------------------------------------------------------------
(***************************************************************************)
(* The reader.                                                             *)
(***************************************************************************)
\* fillReadBuffer(), up to the read: what is left is moved to the front.
Moved(r) ==
  LET rest == r.end - r.start IN
  IF r.start = 0 THEN r ELSE
    [r EXCEPT !.start = 0, !.end = rest,
              !.buffer = [i \in 0 .. ReadBuffer |-> IF i < rest THEN r.buffer[i + r.start]
                                                    ELSE IF i = rest THEN 0 ELSE r.buffer[i]]]

\* fillReadBuffer(): the readers it may leave; read(2) may fail, and may
\* return less than it was asked for.
Filled(r) ==
  LET m     == Moved(r)
      most  == Least(ReadBuffer - m.end, Len(file) - m.offset)
      Took(n) == [m EXCEPT !.end = m.end + n, !.offset = m.offset + n,
                           !.buffer = [i \in 0 .. ReadBuffer |->
                             IF i >= m.end /\ i < m.end + n THEN file[m.offset + i - m.end + 1]
                             ELSE IF i = m.end + n THEN 0 ELSE m.buffer[i]]]
  IN {m} \cup {Took(n) : n \in IF most = 0 THEN {0} ELSE 1 .. most}

Empty(r) == r.end <= r.start

\* memcpy() to the caller of the first n bytes of a reader.
Taken(r, n)  == [i \in 1 .. n |-> r.buffer[r.start + i - 1]]
Without(r, n) == [r EXCEPT !.start = r.start + n]

\* A call for at most n bytes, or up to a separator; ksfu_openBufferedReader()
\* has filled the buffer before the first one.  (Whoever read the whole file
\* changes nothing, so only one of the two reads it in a behaviour.)
Call(op, n) ==
  /\ writer # "open" /\ whole.at = "idle" /\ call.op \in {"none", "done"}
  /\ IF call.op = "none" THEN reader' \in Filled(OpenReader) ELSE UNCHANGED reader
  /\ call' = [op |-> op, line |-> op = "until", want |-> n, took |-> <<>>, found |-> FALSE]
  /\ UNCHANGED <<write, whole>>

\* One round of ksfu_readBufferedReader().
ReadBytes ==
  /\ call.op = "read"
  /\ \E r \in IF Empty(reader) /\ call.want > 0 THEN Filled(reader) ELSE {reader} :
       LET n == Least(r.end - r.start, call.want) IN
       IF call.want = 0 \/ Empty(r)
       THEN reader' = r /\ call' = [call EXCEPT !.op = "done"]
       ELSE /\ reader' = Without(r, n)
            /\ call' = [call EXCEPT !.want = @ - n, !.took = @ \o Taken(r, n)]
  /\ UNCHANGED <<write, whole>>

\* strchr() for the separator: its places before the first '\0'.
Found(r) ==
  {i \in r.start .. ReadBuffer : /\ Char(r.buffer[i]) = "sep"
                                 /\ \A j \in r.start .. i : Char(r.buffer[j]) # "nul"}

\* One round of ksfu_readBufferedReaderUntilChar().  The separator may be found
\* beyond the bytes the caller has room for: it is told it was found.
ReadUntil ==
  LET there == Found(reader)
      most  == Least(reader.end - reader.start, call.want)
      n     == IF there = {} THEN most
               ELSE Least(most, (CHOOSE i \in there : \A j \in there : i <= j) - reader.start + 1)
      after == Without(reader, n)
      Took(op) == [call EXCEPT !.op = op, !.want = @ - n, !.took = @ \o Taken(reader, n),
                               !.found = there # {}]
  IN
  /\ call.op = "until"
  /\ \/ /\ there # {} \/ call.want = n
        /\ reader' = after /\ call' = Took("done")
     \/ /\ there = {} /\ call.want > n
        /\ \E r \in Filled(after) :
             reader' = r /\ call' = Took(IF Empty(r) THEN "done" ELSE "until")
  /\ UNCHANGED <<write, whole>>

\* The file is written and read.
Done == writer # "open" /\ whole.at \in {"done", "failed"} /\ UNCHANGED vars

-----------------------------------------------------------------------------
Next ==
  \/ \E n \in 1 .. MaxPiece : Write(n)
  \/ Flush
  \/ Close
  \/ Crash
  \/ \E max \in {0, 1} : Stat(max)
  \/ Open
  \/ ReadAll
  \/ \E op \in {"read", "until"}, n \in 1 .. MaxPiece : Call(op, n)
  \/ ReadBytes
  \/ ReadUntil
  \/ Done

Spec == Init /\ [][Next]_vars

-----------------------------------------------------------------------------
IsSubsequence(s, t) ==
  LET matched[i \in 0 .. Len(t)] ==
        IF i = 0 THEN 0
        ELSE LET k == matched[i - 1] IN IF k < Len(s) /\ s[k + 1] = t[i] THEN k + 1 ELSE k
  IN matched[Len(t)] = Len(s)

\* While no write has failed, the file and the buffer are what the writer
\* accepted, so a crash leaves the beginning of the report; and when writes did
\* fail, bytes may be there twice but none that were accepted is missing, up to
\* the close, which tells nobody that its flush failed.
WriterExact ==
  /\ failures = 0 => file \o buffer = accepted
  /\ IsSubsequence(accepted, file \o buffer)

\* ksfu_readEntireFile() returns a part of the file in one piece, its beginning
\* or what was its end, although the file grows while it is read.
WholeExact ==
  whole.at = "done" =>
    /\ whole.data = SubSeq(file, whole.from + 1, whole.from + Len(whole.data))
    /\ whole.max = 0 => whole.from = 0

\* What the reader has handed out and what it has in its buffer is the file up
\* to its offset; a call for a line stops at the first separator, or took as
\* much as it could, and only a '\0' in the file makes it pass one.
ReaderExact ==
  LET n      == Len(call.took)
      inHand == Taken(reader, reader.end - reader.start)
      passed == {i \in 1 .. n : Char(call.took[i]) = "sep"}
  IN call.op # "none" =>
    /\ \E k \in 0 .. Len(file) : call.took \o inHand = SubSeq(file, k + 1, reader.offset)
    /\ \A i \in 1 .. n : call.took[i] # 0 /\ call.took[i] # Junk
    /\ call.op = "done" /\ call.line /\ (\A i \in 1 .. Len(file) : Char(file[i]) # "nul") =>
         IF call.found THEN passed = {n} \/ (passed = {} /\ call.want = 0) ELSE passed = {}
=============================================================================
