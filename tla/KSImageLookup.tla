---------------------------- MODULE KSImageLookup ----------------------------
(***************************************************************************)
(* What KSDynamicLinker.h and KSBinaryImageCache.h promise: an address is  *)
(* looked up among the images that the process has loaded, and so is the   *)
(* symbol next to it.  There is no cache here: a caller asks, and at one   *)
(* moment before it gets its answer the answer was right.                  *)
(*                                                                         *)
(* An image is described by the segments of its header and by its symbol   *)
(* table.  Addresses have the slide applied.                               *)
(***************************************************************************)
EXTENDS Integers, Sequences

CONSTANTS
  Callers,      \* threads that look something up, or load an image
  Images,
  Addresses,    \* addresses that are asked for
  Segments,     \* [Images -> sequence of [start, end, content]]
  Symbols,      \* [Images -> sequence of [value, stab]]
  Unlinked,     \* images without a usable __LINKEDIT
  MaxSegments   \* KSBIC_MAX_SEGMENTS_PER_IMAGE

None    == "none"       \* no image
Nothing == <<>>         \* no request, or no answer yet
No      == <<"false">>  \* the answer NULL or false

VARIABLES
  loaded,   \* the images that dyld lists
  ready,    \* the list is known
  asked,    \* [Callers -> the request, or Nothing]
  answer    \* [Callers -> the answer, or Nothing]

vars == <<loaded, ready, asked, answer>>

\* ksdl_dladdr(), ksbic_getUnwindInfoForAddress() and ..ForHeader()
Requests == ({"dladdr", "unwind"} \X Addresses) \cup ({"header"} \X Images)

-----------------------------------------------------------------------------
\* Segments with content in the file; only the first few of them count.
Content(h) == SelectSeq(Segments[h], LAMBDA s : s.content)
Kept(h)    == SubSeq(Content(h), 1, IF Len(Content(h)) < MaxSegments THEN Len(Content(h)) ELSE MaxSegments)

Covers(h, a) == \E k \in DOMAIN Kept(h) : Kept(h)[k].start <= a /\ a < Kept(h)[k].end

\* The image at an address, and the symbols that are the closest before it.
ImageAt(a) == IF \E h \in loaded : Covers(h, a) THEN CHOOSE h \in loaded : Covers(h, a) ELSE None

Before(h, a)  == {k \in DOMAIN Symbols[h] :
                    ~Symbols[h][k].stab /\ Symbols[h][k].value # 0 /\ Symbols[h][k].value <= a}
Closest(h, a) == {k \in Before(h, a) : \A j \in Before(h, a) : Symbols[h][j].value <= Symbols[h][k].value}

\* The answers that are right now.  The unwind information is that of the
\* image, or is not filled in.
Right(r) ==
  LET h == IF r[1] = "header" THEN r[2] ELSE IF ready THEN ImageAt(r[2]) ELSE None
  IN  CASE h = None                              -> {No}
        [] r[1] = "header"                       -> {IF Kept(h) = <<>> THEN No ELSE <<"true", h>>}
        [] r[1] = "unwind" /\ h # None           -> {<<"true", h>>, <<"true">>}
        [] r[1] = "dladdr" /\ h \in Unlinked     -> {No}
        [] r[1] = "dladdr" /\ h \notin Unlinked \cup {None} ->
             {<<"true", h, k>> : k \in IF Before(h, r[2]) = {} THEN {0} ELSE Closest(h, r[2])}

-----------------------------------------------------------------------------
Init ==
  /\ loaded \in SUBSET Images
  /\ ready = FALSE
  /\ asked = [c \in Callers |-> Nothing]
  /\ answer = [c \in Callers |-> Nothing]

Load ==
  /\ loaded' \in SUBSET Images /\ loaded \subseteq loaded'
  /\ UNCHANGED <<ready, asked, answer>>

Ready ==
  /\ ready' = TRUE
  /\ UNCHANGED <<loaded, asked, answer>>

Ask(c) ==
  /\ asked[c] = Nothing
  /\ \E r \in Requests : asked' = [asked EXCEPT ![c] = r]
  /\ UNCHANGED <<loaded, ready, answer>>

Answer(c) ==
  /\ asked[c] # Nothing /\ answer[c] = Nothing
  /\ \E x \in Right(asked[c]) : answer' = [answer EXCEPT ![c] = x]
  /\ UNCHANGED <<loaded, ready, asked>>

Return(c) ==
  /\ answer[c] # Nothing
  /\ asked' = [asked EXCEPT ![c] = Nothing]
  /\ answer' = [answer EXCEPT ![c] = Nothing]
  /\ UNCHANGED <<loaded, ready>>

Next == Load \/ Ready \/ \E c \in Callers : Ask(c) \/ Answer(c) \/ Return(c)

Spec == Init /\ [][Next]_vars
=============================================================================
