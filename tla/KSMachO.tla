------------------------------- MODULE KSMachO --------------------------------
(***************************************************************************)
(* What is read out of the header of an image: the load commands, segments *)
(* and sections that KSMach-O.c searches for, and the description that     *)
(* ksdl_binaryImageForHeader() of KSDynamicLinker.c collects for every     *)
(* image of a report.  Every pass of a loop is one step.                   *)
(***************************************************************************)
EXTENDS Integers, Sequences

CONSTANTS
  Headers,    \* what there may be at an address: NULL, corrupt, or an image
  Requests,   \* the function that is called, and what it searches for
  WordBits    \* the width of an address

VARIABLES
  header,    \* [magic, address, commands, crash]
  request,   \* [function, type, segment, section]
  at,        \* "begin", "commands", "sections", "crash" or "done"
  index,     \* iCmd or commandIndex
  inner,     \* sectionIndex
  image,     \* KSBinaryImage, which every caller has cleared
  answer     \* the command, the command and its section, or whether there is an image

vars == <<header, request, at, index, inner, image, answer>>

CrashFields == {"message", "message2", "backtrace", "signature"}
Cleared == [address |-> 0, vmAddress |-> 0, size |-> 0, slide |-> 0, uuid |-> 0, version |-> <<0, 0, 0>>, crash |-> {}]

TypeOK ==
  /\ header \in Headers /\ request \in Requests
  /\ at \in {"begin", "commands", "sections", "crash", "done"}
  /\ index \in 1 .. Len(header.commands) + 1 /\ inner \in Nat
  /\ DOMAIN image = DOMAIN Cleared /\ image.crash \subseteq CrashFields
  /\ image.slide \in 0 .. 2 ^ WordBits - 1
  /\ Len(answer) <= 2

IsSegment(c) == c.cmd = "LC_SEGMENT"   \* LC_SEGMENT_ARCH_DEPENDENT

Init ==
  /\ header \in Headers /\ request \in Requests
  /\ request.function = "getSectionByTypeFlagFromSegment" => \E k \in DOMAIN header.commands : IsSegment(header.commands[k])
  /\ at = "begin" /\ index = 1 /\ inner = 1
  /\ image = Cleared /\ answer = <<>>

Command == header.commands[index]
AtEnd   == index > Len(header.commands)

\* ksmacho_firstCmdAfterHeader(): a corrupt header has no commands.
HasCommands == header.magic \in {"MH_MAGIC", "MH_CIGAM", "MH_MAGIC_64", "MH_CIGAM_64"}

\* Only ksdl_binaryImageForHeader() looks at the magic number; the others are
\* stopped by NULL alone.
Begin ==
  /\ at = "begin" /\ request.function # "getSectionByTypeFlagFromSegment"
  /\ at' = IF IF request.function = "binaryImageForHeader" THEN HasCommands ELSE header.magic # "NULL"
           THEN "commands" ELSE "done"
  /\ UNCHANGED <<header, request, index, inner, image, answer>>

-----------------------------------------------------------------------------
\* ksmacho_getCommandByTypeFromHeader()
SearchCommand ==
  /\ at = "commands" /\ request.function = "getCommandByTypeFromHeader"
  /\ IF AtEnd THEN at' = "done" /\ UNCHANGED <<index, answer>>
     ELSE IF Command.cmd = request.type THEN at' = "done" /\ answer' = <<index>> /\ UNCHANGED index
     ELSE index' = index + 1 /\ UNCHANGED <<at, answer>>
  /\ UNCHANGED <<header, request, inner, image>>

\* ksmacho_getSegmentByNameFromHeader(), for itself or for a section in it
SearchSegment ==
  /\ at = "commands" /\ request.function \in {"getSegmentByNameFromHeader", "getSectionByNameFromHeader"}
  /\ IF AtEnd THEN at' = "done" /\ UNCHANGED <<index, answer>>
     ELSE IF IsSegment(Command) /\ Command.name = request.segment
     THEN /\ IF request.function = "getSegmentByNameFromHeader"
             THEN at' = "done" /\ answer' = <<index>>
             ELSE at' = "sections" /\ UNCHANGED answer
          /\ UNCHANGED index
     ELSE index' = index + 1 /\ UNCHANGED <<at, answer>>
  /\ UNCHANGED <<header, request, inner, image>>

\* ksmacho_getSectionByTypeFlagFromSegment() is given the segment.
BeginFlag ==
  /\ at = "begin" /\ request.function = "getSectionByTypeFlagFromSegment"
  /\ \E k \in DOMAIN header.commands : IsSegment(header.commands[k]) /\ index' = k
  /\ at' = "sections"
  /\ UNCHANGED <<header, request, inner, image, answer>>

Matches(s) == IF request.function = "getSectionByNameFromHeader" THEN s.name = request.section
                                                                 ELSE s.type = request.type

SearchSection ==
  /\ at = "sections"
  /\ IF inner > Len(Command.sections) THEN at' = "done" /\ UNCHANGED <<inner, answer>>
     ELSE IF Matches(Command.sections[inner]) THEN at' = "done" /\ answer' = <<index, inner>> /\ UNCHANGED inner
     ELSE inner' = inner + 1 /\ UNCHANGED <<at, answer>>
  /\ UNCHANGED <<header, request, index, image>>

-----------------------------------------------------------------------------
(***************************************************************************)
(* ksdl_binaryImageForHeader()                                             *)
(***************************************************************************)
\* A later command of a kind replaces an earlier one.
Collected(c) ==
  CASE IsSegment(c) /\ c.name = "__TEXT" ->
         [image EXCEPT !.size = c.size, !.vmAddress = c.value, !.slide = (header.address - c.value) % 2 ^ WordBits]
    [] c.cmd = "LC_UUID"     -> [image EXCEPT !.uuid = c.value]
    [] c.cmd = "LC_ID_DYLIB" ->
         [image EXCEPT !.version = <<c.value \div 65536, (c.value \div 256) % 256, c.value % 256>>]
    [] OTHER -> image

Collect ==
  /\ at = "commands" /\ request.function = "binaryImageForHeader"
  /\ IF AtEnd
     THEN image' = [image EXCEPT !.address = header.address] /\ at' = "crash" /\ UNCHANGED index
     ELSE image' = Collected(Command) /\ index' = index + 1 /\ UNCHANGED at
  /\ UNCHANGED <<header, request, inner, answer>>

\* getCrashInfo(): a section that is there, large enough, readable, of a version
\* that is known, and with one message at least; then every text in it that is
\* one.
Usable(c) ==
  /\ c.section /\ c.large /\ c.readable /\ c.version \in {4, 5}
  /\ c.message # "NULL" \/ c.message2 # "NULL"

getCrashInfo ==
  /\ at = "crash"
  /\ image' = [image EXCEPT !.crash = IF Usable(header.crash) THEN {f \in CrashFields : header.crash[f] = "string"} ELSE {}]
  /\ answer' = <<TRUE>>
  /\ at' = "done"
  /\ UNCHANGED <<header, request, index, inner>>

Done == at = "done" /\ UNCHANGED vars

Next == Begin \/ SearchCommand \/ SearchSegment \/ BeginFlag \/ SearchSection \/ Collect \/ getCrashInfo \/ Done

Spec == Init /\ [][Next]_vars

-----------------------------------------------------------------------------
\* The indices of the commands of a kind, and what is found if the first counts
Those(P(_))   == {k \in DOMAIN header.commands : P(header.commands[k])}
Earliest(S)   == CHOOSE k \in S : \A j \in S : k <= j
FirstOf(P(_)) == IF header.magic = "NULL" \/ Those(P) = {} THEN <<>> ELSE <<Earliest(Those(P))>>

\* The commands of a kind, if there is only one
IsText(c)     == IsSegment(c) /\ c.name = "__TEXT"
IsUUID(c)     == c.cmd = "LC_UUID"
IsDylib(c)    == c.cmd = "LC_ID_DYLIB"
Single(P(_))  == {header.commands[k] : k \in {j \in Those(P) : Those(P) = {j}}}

\* The first command, segment or section that was asked for is found.  The
\* description of an image is that of its own commands: the address that the
\* image was linked for and the slide are its address, the parts of the version
\* are the version, and the texts of its crash information are reported exactly
\* if they are strings in a section that can be trusted.
HeaderExact ==
  LET Segment(c)  == IsSegment(c) /\ c.name = request.segment
      Type(c)     == c.cmd = request.type
      Found(k, S) == IF S = {} THEN <<>> ELSE <<k, Earliest(S)>>
  IN
  at = "done" =>
    CASE request.function = "getCommandByTypeFromHeader" -> answer = FirstOf(Type)
      [] request.function = "getSegmentByNameFromHeader" -> answer = FirstOf(Segment)
      [] request.function = "getSectionByNameFromHeader" ->
           LET s == FirstOf(Segment) IN
           IF s = <<>> THEN answer = <<>>
           ELSE LET ss == header.commands[s[1]].sections
                IN  answer = Found(s[1], {k \in DOMAIN ss : ss[k].name = request.section})
      [] request.function = "getSectionByTypeFlagFromSegment" ->
           answer = Found(index, {k \in DOMAIN Command.sections : Command.sections[k].type = request.type})
      [] request.function = "binaryImageForHeader" ->
           /\ answer = IF HasCommands THEN <<TRUE>> ELSE <<>>
           /\ answer = <<TRUE>> =>
                /\ image.address = header.address
                /\ \A c \in Single(IsText) : /\ image.vmAddress = c.value /\ image.size = c.size
                                            /\ (image.vmAddress + image.slide) % 2 ^ WordBits = header.address
                /\ \A c \in Single(IsUUID) : image.uuid = c.value
                /\ \A c \in Single(IsDylib) :
                     image.version[1] * 65536 + image.version[2] * 256 + image.version[3] = c.value
                /\ \A f \in CrashFields :
                     f \in image.crash <=> Usable(header.crash) /\ header.crash[f] = "string"
=============================================================================
