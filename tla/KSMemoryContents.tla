--------------------------- MODULE KSMemoryContents ---------------------------
(***************************************************************************)
(* The memory in a report (KSCrashReportC.c): what the registers and the   *)
(* words around the stack pointer refer to, when it is notable, and what   *)
(* an exception's reason refers to.  writeMemoryContents(), the functions  *)
(* for the kinds of objects, and itself call each other; the calls to come *)
(* are kept as a list, the next one first.                                 *)
(*                                                                         *)
(* memory is what KSObjC.c finds at an address: its type, its class and    *)
(* the type of that, its instance variables (Scalar, or an address) or its *)
(* elements, whether it is a string of characters, and a zombie's class.   *)
(***************************************************************************)
EXTENDS Integers, Sequences, SequencesExt

CONSTANTS
  Memories,    \* what may be in memory: functions on addresses
  Sources,     \* the lists of <<kind, address>> that a report may go through
  Restricted,  \* doNotIntrospectClasses
  Limit,       \* kDefaultMemorySearchDepth
  MaxIvars     \* the size of the array of ivars

Null   == 0
Scalar == -1

ObjectTypes == {"class", "object", "block", "unknown"}
ClassTypes  == {"array", "string", "url", "date", "number", "dictionary", "exception", "unknown"}

ASSUME ContentsAssumption ==
  /\ Limit \in Nat \ {0} /\ MaxIvars \in Nat \ {0}
  /\ \A m \in Memories : /\ Null \in DOMAIN m /\ DOMAIN m \subseteq Nat
                         /\ \A a \in DOMAIN m :
                              /\ m[a].type \in ObjectTypes /\ (m[a].type = "object" => m[a].classType \in ClassTypes)
                              /\ {m[a].tagged, m[a].string, m[a].zombie} \subseteq BOOLEAN
                              /\ m[a].refs \in Seq(DOMAIN m \cup {Scalar})
                              /\ m[a].classType = "array" => m[a].refs \in Seq(DOMAIN m)
                         /\ \A l \in Sources : l \in Seq({"reason", "register", "stack", "unreadable"} \X DOMAIN m)

VARIABLES
  memory,    \* what is at each address
  sources,   \* registers, stack words and reasons still to be looked at
  calls,     \* the calls of writeMemoryContents() to come, and scalar variables
  limit,     \* *limit
  written    \* the elements written for the current source

contentsVars == <<memory, sources, calls, limit, written>>

Addresses == DOMAIN memory
Types     == {"class", "object", "block", "string", "null_pointer", "unknown"}

ContentsTypeOK ==
  /\ memory \in Memories
  /\ sources \in Seq({"reason", "register", "stack", "unreadable"} \X Addresses)
  /\ calls \in Seq([address : Addresses \cup {Scalar}, level : Nat, of : Addresses])
  /\ limit \in Int
  /\ written \in Seq([address : Addresses, level : Nat, of : Addresses, types : Seq(Types),
                       value : {"none", "memory", "value", "ivars", "payload"}])

ContentsInit ==
  /\ memory \in Memories
  /\ sources \in Sources
  /\ calls = <<>> /\ limit = 0 /\ written = <<>>

-----------------------------------------------------------------------------
\* isValidPointer(): a tagged pointer must be a valid one.
isValidPointer(a) == a # Null /\ (memory[a].tagged => memory[a].type # "unknown")

\* isNotableAddress()
isNotableAddress(a) ==
  /\ isValidPointer(a)
  /\ memory[a].zombie \/ memory[a].type # "unknown" \/ memory[a].string

\* The next source.  A register and a word of the stack that can be read are
\* written when they are notable, what a reason refers to in any case.
NextSource ==
  /\ calls = <<>> /\ sources # <<>>
  /\ LET kind == Head(sources)[1]
         a    == Head(sources)[2] IN
     calls' = IF kind = "reason" \/ (kind # "unreadable" /\ isNotableAddress(a))
              THEN <<[address |-> a, level |-> 1, of |-> Null]>> ELSE <<>>
  /\ limit' = Limit
  /\ written' = <<>>
  /\ sources' = Tail(sources)
  /\ UNCHANGED memory

-----------------------------------------------------------------------------
\* isRestrictedClass()
isRestrictedClass(class) == class \in Restricted

\* What is written of an object, whether writeObjCObject() says true, what it
\* calls writeMemoryContents() with, and by how much it lowers the limit.
Outcome(ok, types, value, refs, cost) ==
  [ok |-> ok, types |-> types, value |-> value, refs |-> refs, cost |-> cost]

\* ksobjc_arrayContents(), of which the first one is taken.
writeArrayContents(o, left) ==
  Outcome(TRUE, <<"object">>, "none", IF left > 0 /\ o.refs # <<>> THEN <<Head(o.refs)>> ELSE <<>>, 0)

\* Mutant of writeUnknownObjectContents: the instance variables are not counted.
writeIvarsUncounted(o, left) ==
  Outcome(TRUE, <<"object">>, "ivars", IF left > 0 THEN o.refs ELSE <<>>, 0)

\* writeUnknownObjectContents(): the value of every instance variable, the
\* pointers among them by a call, however low the limit has become by then.
writeUnknownObjectContents(o, left) ==
  LET ivars == SubSeq(o.refs, 1, IF Len(o.refs) < MaxIvars THEN Len(o.refs) ELSE MaxIvars) IN
  IF left <= 0 THEN Outcome(TRUE, <<"object">>, "none", <<>>, 0)
  ELSE IF o.tagged THEN Outcome(TRUE, <<"object">>, "payload", <<>>, 1)
  ELSE Outcome(TRUE, <<"object">>, "ivars", ivars, 1 + Len(ivars))

\* writeObjCObject(): after the type of a restricted object it says false.
writeObjCObject(o, left) ==
  CASE o.type = "unknown"          -> Outcome(FALSE, <<>>, "none", <<>>, 0)
    [] o.type \in {"class", "block"} -> Outcome(TRUE, <<o.type>>, "none", <<>>, 0)
    [] o.type = "object" /\ isRestrictedClass(o.class) -> Outcome(FALSE, <<"object">>, "none", <<>>, 0)
    [] o.type = "object" /\ ~ isRestrictedClass(o.class) ->
         CASE o.classType = "array" -> writeArrayContents(o, left)
           [] o.classType \in {"string", "url", "date", "number"} -> Outcome(TRUE, <<"object">>, "value", <<>>, 0)
           [] o.classType \in {"dictionary", "exception", "unknown"} -> writeUnknownObjectContents(o, left)

\* writeMemoryContents(): the next call.  An element that is an object lies one
\* level below its array, and two below the object it is a variable of.
writeMemoryContents ==
  LET call == Head(calls)
      o    == memory[call.address]
      c    == writeObjCObject(o, limit - 1)
      kind == IF call.address = Null THEN "null_pointer" ELSE IF o.string THEN "string" ELSE "unknown"
      Call(r) == [address |-> r, of |-> call.address,
                  level |-> call.level + (IF c.value = "ivars" THEN 2 ELSE 1)]
  IN
  /\ calls # <<>> /\ call.address # Scalar
  /\ limit' = limit - 1 - c.cost
  /\ calls' = [i \in 1 .. Len(c.refs) |-> Call(c.refs[i])] \o Tail(calls)
  /\ written' = Append(written,
       [address |-> call.address, level |-> call.level, of |-> call.of,
        types |-> IF c.ok THEN c.types ELSE c.types \o <<kind>>,
        value |-> IF ~ c.ok /\ kind = "string" THEN "memory" ELSE c.value])
  /\ UNCHANGED <<memory, sources>>

\* A variable that is a number: its value is written with the object's.
writeScalarIvar ==
  /\ calls # <<>> /\ Head(calls).address = Scalar
  /\ calls' = Tail(calls)
  /\ UNCHANGED <<memory, sources, limit, written>>

\* Everything has been looked at.
ContentsEnded == sources = <<>> /\ calls = <<>> /\ UNCHANGED contentsVars

-----------------------------------------------------------------------------
ContentsNext == NextSource \/ writeMemoryContents \/ writeScalarIvar \/ ContentsEnded

ContentsSpec == ContentsInit /\ [][ContentsNext]_contentsVars

-----------------------------------------------------------------------------
Class(a) == memory[a].class
IsRestricted(a) == memory[a].type = "object" /\ Class(a) \in Restricted

\* Whatever refers to whatever, in circles too, a source adds fewer elements
\* than the limit and the variables of one object make together, and its levels
\* of nesting are one more than the limit at most: a container of variables is
\* a level of its own, and the last one that the limit allows is still opened.
WithinLimit ==
  /\ Len(written) + Len(calls) < Limit + MaxIvars
  /\ \A i \in 1 .. Len(written) : written[i].level <= Limit + 1

\* Nothing that an object of a restricted class refers to is written, nor its
\* value; and every element has one type but those of restricted classes, which
\* are given a second one by writeMemoryContents().
RestrictedKept ==
  \A i \in 1 .. Len(written) :
    /\ written[i].of # Null => ~ IsRestricted(written[i].of)
    /\ IsRestricted(written[i].address) => written[i].value \notin {"value", "ivars", "payload"}
    /\ Len(written[i].types) = IF IsRestricted(written[i].address) THEN 2 ELSE 1

\* What the memory holds, circles too, neither takes writeMemoryContents() beyond
\* its limit nor makes it write what an object of a restricted class holds.
MemoryBounded == WithinLimit /\ RestrictedKept
=============================================================================
