------------------------------- MODULE KSMemory -------------------------------
(***************************************************************************)
(* KSMemory.c: memory that may not be readable is tested or copied with    *)
(* the help of the kernel, which copies all that it is asked for or        *)
(* nothing.  Every pass of a loop is one step.  The caller with the least  *)
(* usual question, isValidCrashInfoMessage() of KSDynamicLinker.c, is here *)
(* as well: it asks for a string of MaxMessage bytes at most.              *)
(***************************************************************************)
EXTENDS Integers

CONSTANTS
  Memories,    \* what memory may be like: the addresses that can be read, and those that hold 0
  Calls,       \* what is called: the function, an address, a number of bytes
  TestBuffer,  \* sizeof(g_memoryTestBuffer)
  MaxMessage,  \* KSDL_MaxCrashInfoStringLength
  MaxAddress   \* UINTPTR_MAX

Functions == {"copySafely", "copyMaxPossible", "isMemoryReadable", "maxReadableBytes", "isValidCrashInfoMessage"}

VARIABLES
  memory,     \* the readable addresses, and those that hold 0
  call,       \* the function that was called, with its arguments
  at,         \* "begin", "test", "blocks", "copy" or "done"
  position,   \* pSrc, or currentPosition
  end,        \* pSrcEnd
  max,        \* pSrcMax
  copied,     \* what has been copied, by offset in dst
  remaining,  \* bytesRemaining
  returned    \* the answer

vars == <<memory, call, at, position, end, max, copied, remaining, returned>>

TypeOK ==
  /\ memory \in Memories /\ call \in Calls
  /\ at \in {"begin", "test", "blocks", "copy", "done"}
  /\ position \in Nat /\ end \in Nat /\ max \in Nat
  /\ DOMAIN copied \subseteq Nat
  /\ remaining \in Int
  /\ returned \in Int

\* The number of bytes that is asked for
Asked == IF call.function = "isValidCrashInfoMessage" THEN MaxMessage + 1 ELSE call.count

Init ==
  /\ memory \in Memories /\ call \in Calls
  /\ at = "begin"
  /\ position = call.src /\ end = 0 /\ max = 0
  /\ copied = [k \in {} |-> 0]
  /\ remaining = Asked /\ returned = 0

\* bool as a number
Truth(b) == IF b THEN 1 ELSE 0

-----------------------------------------------------------------------------
\* copySafely(): the kernel copies everything, or nothing at all.
copySafely(a, n) == IF n >= 0 /\ a .. a + n - 1 \subseteq memory.readable THEN n ELSE 0
Copies(a, n)     == copySafely(a, n) = n

CopySafely ==
  /\ at = "begin" /\ call.function = "copySafely"
  /\ at' = "done" /\ returned' = Truth(copySafely(call.src, call.count) # 0)
  /\ copied' = IF Copies(call.src, call.count) THEN [k \in 0 .. call.count - 1 |-> call.src + k] ELSE copied
  /\ UNCHANGED <<memory, call, position, end, max, remaining>>

\* What is done with the number of bytes that copyMaxPossible() has copied
Message(n) == n # 0 /\ \E k \in 0 .. n - 1 : call.src + k \in memory.zeros
Return(n) ==
  /\ at' = "done"
  /\ returned' = CASE call.function = "copyMaxPossible"         -> n
                   [] call.function = "maxReadableBytes"        -> Asked - (remaining - n)
                   [] call.function = "isValidCrashInfoMessage" -> Truth(Message(Asked - (remaining - n)))
  /\ UNCHANGED <<position, end, max>>

\* The first byte, before the loop of copyMaxPossible()
CopyFirst(from, count) ==
  IF ~ Copies(from, 1)
  THEN Return(0) /\ UNCHANGED copied
  ELSE /\ copied' = [k \in {0} |-> from]
       /\ IF count <= 1 THEN Return(count)
          ELSE IF count > MaxAddress - from THEN Return(0)
          ELSE /\ at' = "copy"
               /\ position' = from /\ end' = from + count /\ max' = from + count
               /\ UNCHANGED returned

BeginCopy ==
  /\ at = "begin" /\ call.function = "copyMaxPossible"
  /\ CopyFirst(call.src, call.count)
  /\ UNCHANGED <<memory, call, remaining>>

\* Where copyMaxPossible() began
Origin == call.src + (Asked - remaining)

CopyPiece ==
  LET length == end - position IN
  /\ at = "copy"
  /\ IF length <= 0
     THEN Return(position - Origin) /\ UNCHANGED copied
     ELSE IF Copies(position, length)
     THEN /\ copied' = [k \in DOMAIN copied \cup (position - Origin .. end - Origin - 1) |-> Origin + k]
          /\ position' = end /\ end' = end + (max - end) \div 2
          /\ UNCHANGED <<at, max, returned>>
     ELSE IF length <= 1
     THEN Return(position - Origin) /\ UNCHANGED copied
     ELSE /\ max' = end /\ end' = position + length \div 2
          /\ UNCHANGED <<at, position, copied, returned>>
  /\ UNCHANGED <<memory, call, remaining>>
\* A pass of the loop of isMemoryReadable(), which always tests the beginning
BeginTest ==
  /\ at = "begin" /\ call.function = "isMemoryReadable"
  /\ at' = "test"
  /\ UNCHANGED <<memory, call, position, end, max, copied, remaining, returned>>

TestPiece ==
  LET n == IF remaining > TestBuffer THEN TestBuffer ELSE remaining IN
  /\ at = "test"
  /\ IF remaining > 0 /\ Copies(call.src, n)
     THEN remaining' = remaining - n /\ UNCHANGED <<at, returned>>
     ELSE at' = "done" /\ returned' = Truth(remaining = 0) /\ UNCHANGED remaining
  /\ UNCHANGED <<memory, call, position, end, max, copied>>

\* ksmem_maxReadableBytes(): blocks of the size of the buffer, and a copy of as
\* much of such a block as can be read.
BeginBlocks ==
  /\ at = "begin" /\ call.function \in {"maxReadableBytes", "isValidCrashInfoMessage"}
  /\ IF call.function = "isValidCrashInfoMessage" /\ call.src = 0
     THEN at' = "done" /\ returned' = Truth(FALSE)
     ELSE at' = "blocks" /\ UNCHANGED returned
  /\ UNCHANGED <<memory, call, position, end, max, copied, remaining>>

NextBlock ==
  /\ at = "blocks"
  /\ IF remaining > TestBuffer /\ Copies(position, TestBuffer)
     THEN /\ position' = position + TestBuffer /\ remaining' = remaining - TestBuffer
          /\ UNCHANGED <<at, end, max, copied, returned>>
     ELSE CopyFirst(position, TestBuffer) /\ UNCHANGED remaining
  /\ UNCHANGED <<memory, call>>

Done == at = "done" /\ UNCHANGED vars

Next == CopySafely \/ BeginCopy \/ CopyPiece \/ BeginTest \/ TestPiece \/ BeginBlocks \/ NextBlock \/ Done

Spec == Init /\ [][Next]_vars

-----------------------------------------------------------------------------
\* As many bytes as can be read from an address, up to n
Prefix(a, n) == CHOOSE k \in 0 .. n : /\ Copies(a, k)
                                     /\ k < n => a + k \notin memory.readable

\* The number that was asked for, in whole buffers, of which there is at least one
Rounded == LET blocks == (Asked + TestBuffer - 1) \div TestBuffer
           IN  TestBuffer * IF blocks > 1 THEN blocks ELSE 1

\* What is found readable is what is readable: a copy ends at the first byte
\* that cannot be read, however the pieces were halved, and its bytes are where
\* they belong; a test of no more than a buffer is exact, and a longer one is
\* right when it says no (its "True if the memory can be safely read", KSMemory.h:41,
\* is not kept, since only the beginning is tested); the number of readable bytes counts whole buffers, so
\* that it may be more than was asked for; a message is accepted exactly if its
\* end can be read.  At the end of all addresses nothing is copied, although a
\* byte could be.
MemoryExact ==
  LET n == call.count IN
  at = "done" =>
    CASE call.function = "copySafely" ->
           returned = Truth(n # 0 /\ Copies(call.src, n))
      [] call.function = "copyMaxPossible" ->
           /\ returned = IF call.src \notin memory.readable \/ (n > 1 /\ n > MaxAddress - call.src) THEN 0
                         ELSE IF n <= 1 THEN n ELSE Prefix(call.src, n)
           /\ \A k \in 0 .. returned - 1 : k \in DOMAIN copied /\ copied[k] = call.src + k
           /\ DOMAIN copied \subseteq 0 .. IF n < 1 THEN 0 ELSE n - 1
      [] call.function = "isMemoryReadable" ->
           /\ n <= TestBuffer => returned = Truth(n >= 0 /\ Copies(call.src, n))
           /\ returned = Truth(FALSE) => ~ (n >= 0 /\ Copies(call.src, n))
      [] call.function = "maxReadableBytes" ->
           call.src + Rounded <= MaxAddress => returned = Prefix(call.src, Rounded)
      [] call.function = "isValidCrashInfoMessage" ->
           call.src + Rounded <= MaxAddress =>
             returned = Truth(call.src # 0 /\ \E k \in 0 .. Rounded - 1 : Copies(call.src, k + 1) /\ call.src + k \in memory.zeros)
=============================================================================
