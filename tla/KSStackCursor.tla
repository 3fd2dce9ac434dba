---------------------------- MODULE KSStackCursor ----------------------------
(***************************************************************************)
(* Walking a stack: the cursor of KSStackCursor_Unwind.c, with the         *)
(* decoders of compact encodings and the rows of KSDwarfRules, driven by   *)
(* KSBacktrace.c for another thread or by the report writer.  Every call   *)
(* of advanceCursor() is one step.                                         *)
(*                                                                         *)
(* The stack is laid out from the functions on it, the innermost first, as *)
(* the decoders describe it:                                               *)
(*   frame       saves the frame pointer and lets it point there           *)
(*   frameless   leaves the frame pointer alone, and moves the stack       *)
(*   leaf        moves nothing, and calls nobody                           *)
(*   dwarf_saves uses the frame pointer's register for something else      *)
(*   dwarf_keeps leaves the frame pointer alone                            *)
(*   unknown     as frame, but in no image that describes it               *)
(* A word is one address wide.                                             *)
(***************************************************************************)
EXTENDS KSDwarfRules

CONSTANTS
  Archs,      \* processors
  Stacks,     \* lists of the kinds of functions on a stack
  MethodLists,\* the methods that a cursor may be made with
  MaxDepth    \* maxStackDepth

ARM  == {"arm64", "arm"}
Top  == 100          \* the stack grows down from here
Code(k) == 1000 + k  \* where the k-th function is: the address its callee returns to
Stale   == 1500      \* behind the last call that the first function has made
Kind(stack, pc) ==
  IF pc = Stale THEN stack[1] ELSE IF pc - 1000 \in 1 .. Len(stack) THEN stack[pc - 1000] ELSE "unknown"

VARIABLES
  arch, stack,      \* the processor and the functions
  methods,          \* methods
  memory, first,    \* the stack's words, and the registers of its first function
  pc, sp, fp, lr,   \* the context of the cursor
  isFirst, usedLR,  \* isFirstFrame, usedLinkRegister
  lastMethod,       \* lastMethod
  addresses,        \* the addresses returned so far
  gaveUp,           \* hasGivenUp
  suspended,        \* the thread is suspended
  pass, earlier     \* history: which walk this is, and what the first one returned

input   == <<arch, stack, methods, memory, first>>
context == <<pc, sp, fp, lr, isFirst, usedLR>>
vars    == <<input, context, lastMethod, addresses, gaveUp, suspended, pass, earlier>>

TypeOK ==
  /\ arch \in Archs /\ stack \in Stacks /\ methods \in MethodLists
  /\ {pc, sp, fp, lr} \subseteq Nat
  /\ {isFirst, usedLR, gaveUp, suspended} \subseteq BOOLEAN
  /\ lastMethod \in {"none", "compact", "dwarf", "frame_pointer"}
  /\ Len(addresses) <= MaxDepth
  /\ pass \in {"begin", "first", "second", "done"}

-----------------------------------------------------------------------------
(***************************************************************************)
(* The stack, from the outermost function on                               *)
(***************************************************************************)
\* The function that is called when sp and fp are as given, and what it saves.
\* On x86 the call itself has pushed the return address.
Enter(kind, of, s, ra) ==
  LET saved == [a \in {s.sp - 1} |-> ra]
      both  == [a \in {s.sp - 1, s.sp - 2} |-> IF a = s.sp - 1 THEN ra ELSE s.fp]
      At(m, newSP, newFP) ==
        [sp |-> newSP, fp |-> newFP,
         memory |-> [a \in DOMAIN m \cup DOMAIN s.memory |-> IF a \in DOMAIN m THEN m[a] ELSE s.memory[a]]]
  IN
  CASE kind \in {"frame", "unknown"} -> At(both, s.sp - 3, s.sp - 2)
    [] kind = "frameless"            -> At(saved, s.sp - 2, s.fp)
    [] kind = "leaf"                 -> IF of \in ARM THEN At(<<>>, s.sp, s.fp) ELSE At(saved, s.sp - 1, s.fp)
    [] kind = "dwarf_saves"          -> At(both, s.sp - 3, 7)
    [] kind = "dwarf_keeps"          -> At(saved, s.sp - 3, s.fp)

\* The outermost function returns to 0, and was called with no frame pointer.
Layout(kinds, of) ==
  LET s[k \in 1 .. Len(kinds) + 1] ==
        IF k > Len(kinds) THEN [sp |-> Top, fp |-> 0, memory |-> <<>>]
        ELSE Enter(kinds[k], of, s[k + 1], IF k = Len(kinds) THEN 0 ELSE Code(k + 1))
  IN  s[1]

\* The link register: the return address, unless a call has been made since.
LinkRegisters(kinds, of) ==
  IF of \notin ARM THEN {0}
  ELSE {IF Len(kinds) > 1 THEN Code(2) ELSE 0} \cup (IF kinds[1] = "leaf" THEN {} ELSE {Stale})

-----------------------------------------------------------------------------
Result(ra, s, f) == IF NoValue \in {ra, f} THEN [valid |-> FALSE] ELSE [valid |-> TRUE, ra |-> ra, sp |-> s, fp |-> f]

\* The part of the decoders that is the same for all processors: the frame
\* pointer points to the previous one, and the return address is above it.
FrameMode == IF fp = 0 THEN [valid |-> FALSE] ELSE Result(Read(memory, fp + 1), fp + 2, Read(memory, fp))

\* The return address is on top of a frame of this size.
Frameless(size) == Result(Read(memory, sp + size - 1), sp + size, fp)

\* kscu_arm64_decode()
kscu_arm64_decode(kind) ==
  CASE kind = "frame"     -> FrameMode
    [] kind = "frameless" -> Frameless(2)
    [] kind = "leaf"      -> Result(lr, sp, fp)

\* kscu_arm_decode(): there is no frameless mode, and that encoding is unknown.
kscu_arm_decode(kind) ==
  CASE kind = "frame"     -> FrameMode
    [] kind = "frameless" -> [valid |-> FALSE]
    [] kind = "leaf"      -> Result(lr, sp, fp)

\* kscu_x86_64_decode(), and kscu_x86_decode(), where words are shorter.
kscu_x86_64_decode(kind) ==
  CASE kind = "frame"     -> FrameMode
    [] kind = "frameless" -> Frameless(2)
    [] kind = "leaf"      -> Frameless(1)

kscu_x86_decode(kind) == kscu_x86_64_decode(kind)

\* tryCompactUnwindForPC(): an image must have an encoding for the address
\* that does not ask for DWARF.
tryCompactUnwind ==
  LET kind == Kind(stack, pc) IN
  IF kind \notin {"frame", "frameless", "leaf"} THEN [valid |-> FALSE]
  ELSE CASE arch = "arm64"  -> kscu_arm64_decode(kind)
         [] arch = "arm"    -> kscu_arm_decode(kind)
         [] arch = "x86_64" -> kscu_x86_64_decode(kind)
         [] arch = "x86"    -> kscu_x86_decode(kind)

\* The rows of the functions that are described by DWARF: the CFA, where the
\* return address is, and where the frame pointer is if it was saved.
DwarfRow(kind) ==
  [cfaRule |-> "offset", cfaRegister |-> "sp", cfaOffset |-> 3, cfaExpression |-> <<>>,
   registers |-> [ra |-> Rule("offset", -1),
                  fp |-> IF kind = "dwarf_saves" THEN Rule("offset", -2) ELSE Undefined,
                  sp |-> Undefined]]

\* tryDwarfUnwindForPC()
tryDwarfUnwind ==
  LET kind  == Kind(stack, pc)
      known == IF arch \in ARM THEN [sp |-> sp, fp |-> fp, ra |-> lr] ELSE [sp |-> sp, fp |-> fp] IN
  IF kind \notin {"dwarf_saves", "dwarf_keeps"} THEN [valid |-> FALSE]
  ELSE unwindRow(DwarfRow(kind), known, memory, 16)

\* A frame pointer that may follow this one: further up, or the end.
Upward(f) == f # NoValue /\ (f = 0 \/ f > fp)

\* Mutant of tryFramePointer: the stack pointer is taken from the new frame pointer.
tryFramePointerLate ==
  LET ra == Read(memory, fp + 1)
      f  == Read(memory, fp) IN
  IF fp = 0 \/ ra = NoValue \/ ra = 0 \/ ~ Upward(f) THEN [valid |-> FALSE] ELSE Result(ra, f + 2, f)

\* tryFramePointerUnwind()
tryFramePointer ==
  LET ra == Read(memory, fp + 1)
      f  == Read(memory, fp) IN
  IF fp = 0 \/ ra = NoValue \/ ra = 0 \/ ~ Upward(f) THEN [valid |-> FALSE] ELSE Result(ra, fp + 2, f)

Try(method) ==
  CASE method = "compact"       -> tryCompactUnwind
    [] method = "dwarf"         -> tryDwarfUnwind
    [] method = "frame_pointer" -> tryFramePointer

\* What every method says, and the first of them that works
Tried       == [k \in DOMAIN methods |-> Try(methods[k])]
Working(rs) == {k \in DOMAIN rs : rs[k].valid /\ \A j \in 1 .. k - 1 : ~ rs[j].valid}

-----------------------------------------------------------------------------
(***************************************************************************)
(* The cursor                                                              *)
(***************************************************************************)
\* kssc_initCursor(), kssc_initWithUnwindMethods()
Init ==
  /\ arch \in Archs /\ stack \in Stacks /\ methods \in MethodLists
  /\ \E l \in LinkRegisters(stack, arch) :
       LET s == Layout(stack, arch) IN
       /\ memory = s.memory
       /\ first = [pc |-> Code(1), sp |-> s.sp, fp |-> s.fp, lr |-> l]
  /\ pc = 0 /\ sp = 0 /\ fp = 0 /\ lr = 0
  /\ isFirst = TRUE /\ usedLR = FALSE /\ lastMethod = "none"
  /\ addresses = <<>> /\ gaveUp = FALSE
  /\ suspended = FALSE /\ pass = "begin" /\ earlier = <<>>

\* ksbt_captureBacktraceFromMachThread(): the thread is suspended, if it can
\* be; if it cannot, nothing is captured.
Suspend ==
  /\ pass = "begin"
  /\ \/ pass' = "first" /\ suspended' = TRUE
     \/ pass' = "done" /\ UNCHANGED suspended
  /\ UNCHANGED <<input, context, lastMethod, addresses, gaveUp, earlier>>

Advances == pass \in {"first", "second"} /\ Len(addresses) < MaxDepth
Returns(a, method) ==
  /\ addresses' = Append(addresses, a)
  /\ lastMethod' = method
  /\ UNCHANGED <<input, gaveUp, suspended, pass, earlier>>

\* The first frame: the registers of the thread.
AdvanceFirst ==
  /\ Advances /\ isFirst
  /\ isFirst' = FALSE
  /\ pc' = first.pc /\ sp' = first.sp /\ fp' = first.fp /\ lr' = first.lr
  /\ Returns(first.pc, lastMethod)
  /\ UNCHANGED usedLR

UseLR == arch \in ARM /\ ~ usedLR /\ lr # 0

\* What tryUpdateStateAfterLR() gets from every method, and, behind them, what
\* is done when none works.  A frame pointer that is followed there may lead to
\* a return address of 0.
AfterLR ==
  LET f      == IF fp = 0 \/ fp + 1 \notin DOMAIN memory THEN NoValue ELSE Read(memory, fp)
      walked == Result(lr, sp, IF Upward(f) THEN f ELSE fp)
  IN
  [k \in DOMAIN methods |->
     IF methods[k] # "frame_pointer" THEN Try(methods[k]) ELSE [walked EXCEPT !.valid = Upward(f)]]
  \o <<walked>>

\* On ARM, the second frame is what the link register says.
AdvanceLR ==
  /\ Advances /\ ~ isFirst /\ UseLR
  /\ usedLR' = TRUE
  /\ \E rs \in {AfterLR} : \E k \in Working(rs) : pc' = rs[k].ra /\ sp' = rs[k].sp /\ fp' = rs[k].fp
  /\ Returns(lr, "none")
  /\ UNCHANGED <<lr, isFirst>>

\* Every other frame: the first method that works.
AdvanceUnwind ==
  /\ Advances /\ ~ isFirst /\ ~ UseLR
  /\ \E rs \in {Tried} : \E k \in Working(rs) :
       /\ pc' = rs[k].ra /\ sp' = rs[k].sp /\ fp' = rs[k].fp
       /\ Returns(rs[k].ra, methods[k])
  /\ UNCHANGED <<lr, isFirst, usedLR>>

\* advanceCursor() says false: it is too deep, or no method works.
Ends == Len(addresses) = MaxDepth \/ (~ isFirst /\ ~ UseLR /\ Working(Tried) = {})

\* resetCursor(), kssc_resetCursor()
resetCursor ==
  /\ pc' = 0 /\ sp' = 0 /\ fp' = 0 /\ lr' = 0
  /\ isFirst' = TRUE /\ usedLR' = FALSE /\ lastMethod' = "none"
  /\ addresses' = <<>>

\* The end of the first walk; the cursor is reset, and walks again.
Again ==
  /\ pass = "first" /\ Ends
  /\ pass' = "second"
  /\ earlier' = addresses
  /\ gaveUp' = FALSE
  /\ resetCursor
  /\ UNCHANGED <<input, suspended>>

\* The end of the walk: the cursor gives up when it is too deep, and a thread
\* that was suspended is resumed.
End ==
  /\ pass = "second" /\ Ends
  /\ pass' = "done"
  /\ gaveUp' = (Len(addresses) = MaxDepth)
  /\ suspended' = FALSE
  /\ UNCHANGED <<input, context, lastMethod, addresses, earlier>>

Done == pass = "done" /\ UNCHANGED vars

Next == Suspend \/ AdvanceFirst \/ AdvanceLR \/ AdvanceUnwind \/ Again \/ End \/ Done

Spec == Init /\ [][Next]_vars

-----------------------------------------------------------------------------
Least(a, b)  == IF a < b THEN a ELSE b
Callers(n)   == [k \in 1 .. Least(n, Len(stack)) |-> Code(k)]
Zero(trace)  == IF trace # <<>> /\ Last(trace) = 0 THEN Front(trace) ELSE trace
Walked       == addresses # <<>> /\ pass = "done"

\* "This provides accurate stack traces even for code compiled with
\* -fomit-frame-pointer": with all methods, no function that is described is
\* missing from the trace.
BacktraceAccurate ==
  /\ Walked /\ arch # "arm" /\ Len(stack) < MaxDepth
  /\ methods = <<"compact", "dwarf", "frame_pointer">>
  /\ \A k \in 1 .. Len(stack) : stack[k] # "unknown"
  => ToSet(Callers(MaxDepth)) \subseteq ToSet(addresses)

\* When it is accurate: there is a method for every function; the link register
\* still holds the return address; a function that does not say what became of
\* the frame pointer is not called by one that needs it; where the frame
\* pointer is followed from, it leads up the stack; and on ARM, where the
\* stack pointer is not moved if it is followed from the first function, the
\* second one does not need it.
UsesFP(k) == stack[k] \in {"frame", "unknown"}
Compact(k) == stack[k] \in {"frame", "leaf"} \/ (stack[k] = "frameless" /\ arch # "arm")
Covered(k) ==
  \/ Compact(k) /\ "compact" \in ToSet(methods)
  \/ stack[k] \in {"dwarf_saves", "dwarf_keeps"} /\ "dwarf" \in ToSet(methods)
  \/ UsesFP(k) /\ "frame_pointer" \in ToSet(methods)
Sure ==
  /\ \A k \in 1 .. Len(stack) : Covered(k)
  /\ \A j, k \in 1 .. Len(stack) : j < k =>
       /\ UsesFP(k) => stack[j] # "dwarf_keeps"
       /\ UsesFP(j) /\ stack[k] = "dwarf_saves" =>
            (stack[j] = "frame" /\ methods[1] = "compact") \/ \E m \in j + 1 .. k - 1 : UsesFP(m)
  /\ first.lr # Stale
  /\ arch \in ARM /\ stack[1] = "unknown" /\ Len(stack) > 1 => UsesFP(2)

\* The trace lists the functions on the stack, all of them and in their order
\* up to the depth that was asked for, in all the cases described above.
BacktraceExact == Walked /\ Sure => Zero(addresses) = Callers(MaxDepth)

\* A cursor that is reset walks the same way again; and whatever the walk met,
\* the thread runs on after it.
ResetRepeats ==
  pass = "done" => /\ ~ suspended
                   /\ addresses = earlier
=============================================================================
