--------------------------- MODULE KSCompactUnwind ---------------------------
(***************************************************************************)
(* kscu_findEntry() of KSCompactUnwind.c: the entry of __unwind_info for   *)
(* an address.  The section is an index of pages, by their first function; *)
(* a page lists functions with their encodings (regular), or, relative to  *)
(* its own offset, with the number of one that is common or the page's own *)
(* (compressed).  Index and page are searched by halving; every comparison *)
(* is one step.                                                            *)
(***************************************************************************)
EXTENDS Integers, Sequences

CONSTANTS
  Sections,   \* what __unwind_info may contain
  Offsets     \* the addresses that are looked up, relative to the image

VARIABLES
  info,                  \* the section
  offset,                \* targetOffset
  level,                 \* "start", "index", "page" or "done"
  page,                  \* pageIndex
  left, right, at,       \* left, right and result of the search, from 0
  found                  \* outEntry, or NoEntry

vars == <<info, offset, level, page, left, right, at, found>>

NoEntry == [start |-> -1]

TypeOK ==
  /\ level \in {"start", "index", "page", "done"}
  /\ page \in -1 .. Len(info.index) - 1
  /\ left \in Nat /\ right \in Int /\ at \in Int
  /\ found = NoEntry \/ found.start \in Nat

Init ==
  /\ info \in Sections /\ offset \in Offsets
  /\ level = "start" /\ page = -1
  /\ left = 0 /\ right = -1 /\ at = -1
  /\ found = NoEntry

-----------------------------------------------------------------------------
Index == info.index[page + 1]
Page  == info.pages[Index.page]
Count == IF level = "index" THEN Len(info.index) ELSE Len(Page.entries)

\* Entries of a compressed page are compared with what is left of the offset.
Compared  == IF level = "index" \/ Page.kind = "regular" THEN offset ELSE offset - Index.offset
First(k)  == IF level = "index" THEN info.index[k + 1].offset ELSE Page.entries[k + 1].offset

Searches(count) == left' = 0 /\ right' = count - 1 /\ at' = -1
Fails == level' = "done" /\ UNCHANGED <<info, offset, page, left, right, at, found>>

\* The header is checked, and the search of the index begins.
Start ==
  /\ level = "start"
  /\ IF info.version # 1 \/ info.index = <<>> THEN Fails
     ELSE /\ level' = "index"
          /\ Searches(Len(info.index))
          /\ UNCHANGED <<info, offset, page, found>>

\* Mutant of Halve: an entry that begins at the address is passed over.
HalveBelow ==
  /\ level \in {"index", "page"} /\ left <= right
  /\ LET mid == left + (right - left) \div 2 IN
     IF First(mid) < Compared THEN at' = mid /\ left' = mid + 1 /\ UNCHANGED right
     ELSE right' = mid - 1 /\ UNCHANGED <<at, left>>
  /\ UNCHANGED <<info, offset, level, page, found>>

\* One comparison of binarySearchFirstLevelIndex(), searchRegularPage() or
\* searchCompressedPage(): the last entry that is not beyond the address.
Halve ==
  /\ level \in {"index", "page"} /\ left <= right
  /\ LET mid == left + (right - left) \div 2 IN
     IF First(mid) <= Compared THEN at' = mid /\ left' = mid + 1 /\ UNCHANGED right
     ELSE right' = mid - 1 /\ UNCHANGED <<at, left>>
  /\ UNCHANGED <<info, offset, level, page, found>>

Finished == left > right

\* The last entry of the index only marks the end: the one before it is taken.
Sentinel(k) == IF k >= 0 /\ k >= Len(info.index) - 1 THEN Len(info.index) - 2 ELSE k

\* The page, if there is one and its kind is known.
EndIndex ==
  /\ level = "index" /\ Finished
  /\ LET k == Sentinel(at) IN
     IF k < 0 \/ info.index[k + 1].page = 0 THEN Fails
     ELSE LET p == info.pages[info.index[k + 1].page] IN
          IF p.kind \notin {"regular", "compressed"} \/ p.entries = <<>> THEN Fails
          ELSE /\ page' = k
               /\ level' = "page"
               /\ Searches(Len(p.entries))
               /\ UNCHANGED <<info, offset, found>>

\* The encoding with a number: the common ones come first.
Encoding(k) ==
  IF k < Len(info.common) THEN info.common[k + 1]
  ELSE IF k - Len(info.common) < Len(Page.encodings) THEN Page.encodings[k - Len(info.common) + 1] ELSE -1

\* What outEntry gets.  How long a page's last function is, is not known.
FoundEntry ==
  LET e    == Page.entries[at + 1]
      base == IF Page.kind = "regular" THEN 0 ELSE Index.offset IN
  [start    |-> base + e.offset,
   length   |-> IF at + 1 < Len(Page.entries) THEN Page.entries[at + 2].offset - e.offset ELSE 0,
   encoding |-> IF Page.kind = "regular" THEN e.encoding ELSE Encoding(e.encoding)]

EndPage ==
  /\ level = "page" /\ Finished
  /\ IF at < 0 \/ FoundEntry.encoding = -1 THEN Fails
     ELSE /\ level' = "done"
          /\ found' = FoundEntry
          /\ UNCHANGED <<info, offset, page, left, right, at>>

Done == level = "done" /\ UNCHANGED vars

Next == Start \/ Halve \/ EndIndex \/ EndPage \/ Done

Spec == Init /\ [][Next]_vars

-----------------------------------------------------------------------------
\* The functions of the section with their encodings, on pages of either kind.
Functions ==
  UNION {LET p == info.pages[info.index[k].page] IN
         {[start    |-> e.offset + (IF p.kind = "regular" THEN 0 ELSE info.index[k].offset),
           encoding |-> IF p.kind = "regular" THEN e.encoding
                        ELSE (info.common \o p.encodings)[e.encoding + 1]] : e \in {p.entries[i] : i \in 1 .. Len(p.entries)}}
         : k \in {j \in 1 .. Len(info.index) - 1 :
                    info.index[j].page # 0 /\ info.pages[info.index[j].page].kind \in {"regular", "compressed"}}}

\* The entry found is that of the last function that begins at the address or
\* before it (also behind the end of the last one), and its length ends before
\* the next one; nothing is found only if there is no such function.
EntryExact ==
  level = "done" /\ info.version = 1 =>
    LET before == {f \in Functions : f.start <= offset} IN
    IF before = {} THEN found = NoEntry
    ELSE LET f == CHOOSE g \in before : \A h \in before : h.start <= g.start IN
         /\ found # NoEntry /\ found.start = f.start /\ found.encoding = f.encoding
         /\ \A h \in Functions : h.start > f.start => found.start + found.length <= h.start

\* While it goes on, the search keeps the entry it looks for within its bounds.
SearchNarrows ==
  level \in {"index", "page"} =>
    /\ at = left - 1
    /\ \A k \in 0 .. Count - 1 : /\ k < left => First(k) <= Compared
                                 /\ k > right => First(k) > Compared
=============================================================================
