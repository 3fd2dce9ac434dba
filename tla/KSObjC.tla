------------------------------- MODULE KSObjC -------------------------------
(***************************************************************************)
(* Looking at objects without the runtime (KSObjC.c), as the report writer *)
(* does with every notable pointer (writeObjCObject()) and the zombie      *)
(* monitor with an exception that is freed (copyStringIvar()).             *)
(*                                                                         *)
(* heap is what can be read, by address.  A cell is a tagged pointer, or   *)
(* memory that may be an object or a class:                                *)
(*   isa, superclass   the words that a class starts with                  *)
(*   ro                its class_ro_t, if it can be read: the flags, the   *)
(*                     name ("bad" if it is not a valid one, "unreadable") *)
(*                     and the list of variables, NULL or unreadable too   *)
(*   value             the contents, as its class lays them out: whether   *)
(*                     they are where the object says, a string's encoding *)
(*                     and the kind of an array; and its fields            *)
(* A fault is a read of what cannot be read, in the code itself.           *)
(***************************************************************************)
EXTENDS Integers, Sequences

CONSTANTS
  Heaps,      \* what may be in memory
  Questions,  \* lists of <<"report" or "exception", address>>
  ClassData,  \* g_classData: the type for a class's name
  TaggedData, \* g_taggedClassData: the type for a slot
  MaxSteps    \* how many superclasses are looked at

Null    == 0
Unknown == [type |-> "unknown"]

VARIABLES
  heap,            \* the memory
  questions,       \* what will be looked at
  at, object,      \* where the code is, and the pointer it looks at
  super, sub,      \* superClass and subClass of ksobjc_baseClass()
  steps,           \* its loop variable
  cached,          \* g_classData[].class
  answer, fault,   \* what was found out, and where the code has faulted
  moved            \* history: memory has changed since a class was cached

cursor == <<super, sub, steps>>
vars   == <<heap, questions, at, object, cursor, cached, answer, fault, moved>>

TypeOK ==
  /\ at \in {"idle", "valid", "base", "data", "contents", "ivar", "done"}
  /\ steps \in 0 .. MaxSteps
  /\ cached \in [DOMAIN ClassData -> Nat]
  /\ answer.type \in {"unknown", "object", "class", "block", "exception"}
  /\ fault \in {"none", "base", "contents", "ivar"} /\ moved \in BOOLEAN

Init ==
  /\ heap \in Heaps /\ questions \in Questions
  /\ at = "idle" /\ object = Null
  /\ super = Null /\ sub = Null /\ steps = 0
  /\ cached = [n \in DOMAIN ClassData |-> Null]
  /\ answer = Unknown /\ fault = "none" /\ moved = FALSE

-----------------------------------------------------------------------------
(***************************************************************************)
(* Validation                                                              *)
(***************************************************************************)
isTaggedPointer(p) == p \in DOMAIN heap /\ heap[p].tagged
Readable(p)        == p \in DOMAIN heap /\ ~ heap[p].tagged
isa(p)             == heap[p].isa
RO(p)              == heap[p].ro

\* getClassDataFromTaggedPointer(): whatever is there, behind the table too.
getClassDataFromTaggedPointer(p) ==
  IF heap[p].slot < Len(TaggedData) THEN TaggedData[heap[p].slot + 1] ELSE heap[p].beyond

\* isValidTaggedPointer(): one slot more than there is in the table passes.
isValidTaggedPointer(p) ==
  isTaggedPointer(p) /\ heap[p].slot <= Len(TaggedData) /\ getClassDataFromTaggedPointer(p) # "unknown"

\* containsValidROData(), containsValidExtData()
containsValidROData(p) == Readable(p) /\ RO(p).readable

\* isValidName()
containsValidClassName(p) == RO(p).name \notin {"bad", "unreadable"}

\* containsValidIvarData(), isValidIvarType(): every variable but the first.
containsValidIvarData(p) ==
  LET ivars == RO(p).ivars IN
  /\ ivars.at # "unreadable"
  /\ \A k \in 2 .. Len(ivars.list) : ivars.list[k].ok

isValidClass(p) == containsValidROData(p) /\ containsValidClassName(p) /\ containsValidIvarData(p)

isValidObject(p) ==
  IF isTaggedPointer(p) THEN isValidTaggedPointer(p)
  ELSE Readable(p) /\ Readable(isa(p)) /\ isValidClass(isa(p))

-----------------------------------------------------------------------------
(***************************************************************************)
(* ksobjc_objectType()                                                     *)
(***************************************************************************)
Ask ==
  /\ at = "idle" /\ questions # <<>>
  /\ object' = Head(questions)[2]
  /\ questions' = Tail(questions)
  /\ at' = IF Head(questions)[1] = "report" THEN "valid" ELSE "ivar"
  /\ answer' = Unknown /\ fault' = "none"
  /\ UNCHANGED <<heap, cursor, cached, moved>>

Answers(a) == at' = "done" /\ answer' = a /\ UNCHANGED fault
Faults     == at' = "done" /\ fault' = at /\ UNCHANGED answer
GoesOn(w)  == at' = w /\ UNCHANGED <<answer, fault>>

Validate ==
  /\ at = "valid"
  /\ IF isTaggedPointer(object) THEN GoesOn("data") /\ UNCHANGED cursor
     ELSE IF object = Null \/ ~ (isValidObject(object) \/ isValidClass(object))
     THEN Answers(Unknown) /\ UNCHANGED cursor
     ELSE /\ GoesOn("base")
          /\ super' = isa(object) /\ sub' = isa(object) /\ steps' = 0
  /\ UNCHANGED <<heap, questions, object, cached, moved>>

\* isBlockClass() and isMetaClass(), with the base class or Null; then the name
\* of a class is written.  Neither name has been looked at before.
Kind(base) ==
  IF base # Null /\ RO(base).name = "NSBlock" THEN "block"
  ELSE IF RO(isa(object)).meta THEN "class" ELSE "object"

NameReadable(c) == containsValidROData(c) /\ RO(c).name # "unreadable"

Typed(base) ==
  IF \/ base # Null /\ ~ NameReadable(base)
     \/ Kind(base) = "class" /\ ~ NameReadable(object)
  THEN Faults
  ELSE IF Kind(base) = "object" THEN GoesOn("data") ELSE Answers([type |-> Kind(base)])

\* Mutant of BaseClass: a superclass is followed without a look at it.
BaseClassUnchecked ==
  /\ at = "base"
  /\ IF ~ containsValidROData(super) THEN Faults /\ UNCHANGED cursor
     ELSE IF RO(super).root THEN Typed(sub) /\ UNCHANGED cursor
     ELSE /\ sub' = super /\ super' = heap[super].superclass
          /\ steps' = steps + 1
          /\ IF steps' = MaxSteps THEN Typed(Null) ELSE GoesOn("base")
  /\ UNCHANGED <<heap, questions, object, cached, moved>>

\* ksobjc_baseClass(), one pass of its loop.  What isa refers to has not been
\* looked at if the object is valid as a class only.
BaseClass ==
  /\ at = "base"
  /\ IF ~ containsValidROData(super) THEN Faults /\ UNCHANGED cursor
     ELSE IF RO(super).root THEN Typed(sub) /\ UNCHANGED cursor
     ELSE /\ sub' = super /\ super' = heap[super].superclass
          /\ steps' = steps + 1
          /\ IF ~ containsValidROData(super') \/ steps' = MaxSteps THEN Typed(Null) ELSE GoesOn("base")
  /\ UNCHANGED <<heap, questions, object, cached, moved>>

-----------------------------------------------------------------------------
(***************************************************************************)
(* What an object contains                                                 *)
(***************************************************************************)
\* getClassData(): the entry that this class has been found for before, or the
\* one of its name if no class has been yet.
getClassData(class) ==
  LET n     == RO(class).name
      known == {k \in DOMAIN cached : cached[k] = class}
  IN
  IF known # {} THEN [type |-> ClassData[CHOOSE k \in known : TRUE], cached |-> cached]
  ELSE IF n \in DOMAIN ClassData /\ cached[n] = Null
  THEN [type |-> ClassData[n], cached |-> [cached EXCEPT ![n] = class]]
  ELSE [type |-> "unknown", cached |-> cached]

\* ksobjc_objectClassType(), getClassDataFromObject()
ClassType ==
  /\ at = "data"
  /\ IF isTaggedPointer(object)
     THEN /\ Answers([type |-> "object", class |-> getClassDataFromTaggedPointer(object), value |-> "payload"])
          /\ UNCHANGED cached
     ELSE IF ~ NameReadable(isa(object)) THEN Faults /\ UNCHANGED cached
     ELSE LET data == getClassData(isa(object)) IN
          /\ cached' = data.cached
          /\ at' = "contents" /\ answer' = [type |-> "object", class |-> data.type, value |-> "none"]
          /\ UNCHANGED fault
  /\ UNCHANGED <<heap, questions, object, cursor, moved>>

\* ksobjc_copyStringContents(), ksobjc_stringLength(), copy8BitString(): only
\* what has a length of its own and eight bits a character is copied safely.
CopiesSafely(v) == v.readable \/ (v.explicit /\ ~ v.unicode)
String(v)       == IF v.readable THEN "text" ELSE "none"

\* ksobjc_arrayContents(): nsarrayContents() has none of a mutable array, and
\* cfarrayContents() follows the store of a deque.
ArraySafe(v)  == v.readable \/ v.kind # "deque"
ArrayFirst(v) == IF v.readable /\ v.kind # "mutable" /\ v.count > 0 THEN "first" ELSE "none"

\* ksobjc_ivarList() and ksobjc_ivarValue(), for each of the variables.
IvarsSafe(c) == LET ivars == RO(c).ivars IN
                ivars.at # "unreadable" /\ \A k \in 1 .. Len(ivars.list) : ivars.list[k].ok
Ivars(c)     == IF RO(c).ivars.list = <<>> THEN "none" ELSE "ivars"

\* writeObjCObject(), for an object that is not restricted: nobody asks
\* ksobjc_isValidObject() first, and a URL is read as if it were a string.
Contents ==
  /\ at = "contents"
  /\ LET v    == heap[object].value
         safe == CASE answer.class \in {"string", "url"}  -> CopiesSafely(v)
                   [] answer.class = "array"              -> ArraySafe(v)
                   [] answer.class \in {"number", "date"} -> TRUE
                   [] answer.class = "unknown"            -> IvarsSafe(isa(object))
     IN
     IF ~ safe THEN Faults
     ELSE Answers([answer EXCEPT !.value =
            CASE answer.class \in {"string", "url"}  -> String(v)
              [] answer.class = "array"              -> ArrayFirst(v)
              [] answer.class \in {"number", "date"} -> "number"
              [] answer.class = "unknown"            -> Ivars(isa(object))])
  /\ UNCHANGED <<heap, questions, object, cursor, cached, moved>>

-----------------------------------------------------------------------------
\* ksobjc_isValidObject(), with stringIsValid()
StringIsValid(p) ==
  /\ isValidObject(p)
  /\ isTaggedPointer(p) \/ getClassData(isa(p)).type # "string" \/ heap[p].value.readable

\* copyStringIvar() of an exception that is freed: ksobjc_ivarNamed(), which
\* looks at the variables of its class, and of that only; ksobjc_ivarValue(),
\* ksobjc_isValidObject() and ksobjc_copyStringContents().
CopyStringIvar ==
  LET ivars == RO(isa(object)).ivars IN
  /\ at = "ivar"
  /\ IF ivars.at = "NULL" THEN Faults /\ UNCHANGED cached
     ELSE LET named  == {k \in 1 .. Len(ivars.list) : ivars.list[k].name = "reason"}
              reason == heap[object].value.field
          IN
          /\ Answers([type |-> "exception",
                      value |-> IF named # {} /\ StringIsValid(reason) THEN "text" ELSE "stale"])
          /\ cached' = IF named # {} /\ isValidObject(reason) /\ ~ isTaggedPointer(reason)
                       THEN getClassData(isa(reason)).cached ELSE cached
  /\ UNCHANGED <<heap, questions, object, cursor, moved>>

\* The next pointer; the application may have run in between, when the report
\* was of an exception that is not fatal.
Again ==
  /\ at = "done" /\ fault = "none"
  /\ at' = "idle"
  /\ \/ UNCHANGED <<heap, moved>>
     \/ /\ questions # <<>>
        /\ \E c \in {cached[n] : n \in DOMAIN cached} \ {Null} : \E d \in DOMAIN heap \ {c} :
             /\ containsValidROData(d)
             /\ heap' = [heap EXCEPT ![c] = heap[d]]
        /\ moved' = TRUE
  /\ UNCHANGED <<questions, object, cursor, cached, answer, fault>>

Done == ((questions = <<>> /\ at = "idle") \/ fault # "none") /\ UNCHANGED vars

Next == Ask \/ Validate \/ BaseClass \/ ClassType \/ Contents \/ CopyStringIvar \/ Again \/ Done

Spec == Init /\ [][Next]_vars

-----------------------------------------------------------------------------
(***************************************************************************)
(* Properties.  A cell also says what it is: an object, a class, a block,  *)
(* an exception; or that it has been damaged.                              *)
(***************************************************************************)
Ends == at = "done"

\* Whatever has been damaged, superclasses that cannot be read or are their own
\* among it, a look at a pointer comes to an end.  It faults in ksobjc_objectType()
\* only if the class of what is valid as a class cannot be read, or a name that it
\* asks for; in the contents only if they or the first variable of its class cannot
\* be read, or its class is not valid; and in the reason of an exception only if
\* its class has no variables.  ("Both valid and accessible", KSObjC.h:88, is thus
\* not kept of what is damaged.)
FaultsExplained ==
  Ends =>
  /\ ~ Readable(object) => fault = "none"
  /\ fault = "base" =>
       \/ ~ containsValidROData(isa(object))
       \/ RO(isa(object)).meta /\ ~ NameReadable(object)
       \/ \E c \in DOMAIN heap \ {object} : containsValidROData(c) /\ ~ NameReadable(c)
  /\ fault = "contents" =>
       \/ ~ isValidObject(object) \/ ~ heap[object].value.readable
       \/ ~ RO(isa(object)).ivars.list[1].ok
  /\ fault = "ivar" => RO(isa(object)).ivars.at = "NULL"

Genuine(p)   == heap[p].is # "damaged"
BlockClass(p) == heap[p].is = "class" /\ heap[p].block
Whole        == \A p \in DOMAIN heap : Genuine(p)

\* Of an undamaged memory, objects, classes and blocks are told apart (but the
\* classes of blocks, which pass for blocks), and an object's class is known if
\* it is the first one of its name, for as long as no class is freed.
ObjectsExact ==
  Ends /\ Whole /\ fault = "none" /\ ~ moved /\ answer.type # "exception" =>
    IF object \notin DOMAIN heap THEN answer = Unknown
    ELSE IF isTaggedPointer(object) THEN answer.type = "object"
    ELSE /\ answer.type = IF BlockClass(object) THEN "block" ELSE heap[object].is
         /\ answer.type = "object" =>
              LET n == RO(isa(object)).name IN
              answer.class = IF n \in DOMAIN ClassData /\ cached[n] = isa(object)
                             THEN ClassData[n] ELSE "unknown"
=============================================================================
