--------------------------- MODULE KSDynamicLinker ---------------------------
(***************************************************************************)
(* The symbol cache of KSDynamicLinker.c and, under it, the image cache of *)
(* KSBinaryImageCache.c.  Each is used by one caller at a time, who takes  *)
(* the pointer to it and leaves NULL behind; whoever finds NULL goes       *)
(* without.  A caller may be suspended for good at any point, when the     *)
(* process crashes.                                                        *)
(*                                                                         *)
(* An entry of the image cache is its header: the rest of it is computed   *)
(* from the header when it is inserted.  File names are left out, and      *)
(* addresses have the slide applied.                                       *)
(***************************************************************************)
EXTENDS Integers, Sequences, FiniteSets

CONSTANTS
  Callers,      \* threads that look something up, or load images
  Images,       \* headers
  Addresses,    \* addresses that are asked for
  Segments,     \* [Images -> sequence of [start, end, content]]
  Symbols,      \* [Images -> sequence of [value, stab]]
  Unlinked,     \* images whose segment base or commands cannot be found
  MaxSegments,  \* KSBIC_MAX_SEGMENTS_PER_IMAGE
  MaxImages,    \* KSBIC_MAX_CACHE_ENTRIES
  MaxSymbols,   \* KSDL_SYMBOL_CACHE_SIZE
  MaxHits,      \* 255, where hits saturate
  MaxStopped    \* model bound: callers that are suspended for good

None    == "none"       \* no image
Nothing == <<>>         \* no request, or no answer yet
No      == <<"false">>  \* the answer NULL or false

\* ksdl_dladdr(), ksbic_getUnwindInfoForAddress() and ..ForHeader()
Requests == ({"dladdr", "unwind"} \X Addresses) \cup ({"header"} \X Images)
Op(r)    == r[1]
Arg(r)   == r[2]

VARIABLES
  infoArray,    \* dyld's list of images
  images,       \* g_cache_storage
  symbols,      \* g_symbol_cache_storage
  free,         \* the caches whose pointer is not NULL
  initialized,  \* g_initialized
  known,        \* g_all_image_infos is set
  notifier,     \* ksbic_dyld_image_notifier is installed
  at,           \* where each caller is
  request,      \* the lookup it was called for, or Nothing
  holds,        \* the caches it has taken
  found,        \* its answer, or Nothing
  new,          \* the headers it is going to insert
  stopped       \* callers that are suspended for good

caches == <<images, symbols, free>>
setup  == <<initialized, known, notifier>>
caller == <<at, request, holds, found, new, stopped>>
linkerVars   == <<infoArray, caches, setup, caller>>

LinkerTypeOK ==
  /\ infoArray \in Seq(Images)
  /\ images \in Seq(Images) /\ Len(images) <= MaxImages
  /\ symbols \in Seq([address : Addresses, found : {"true"} \X Images \X Nat, hits : 1 .. MaxHits])
  /\ Len(symbols) <= MaxSymbols
  /\ free \subseteq {"images", "symbols"}
  /\ {initialized, known, notifier} \subseteq BOOLEAN
  /\ at \in [Callers -> {"idle", "infos", "cache", "hook", "symbolCache", "symbols",
                         "search", "images", "look", "put", "store", "done"}]
  /\ request \in [Callers -> Requests \cup {Nothing}]
  /\ holds \in [Callers -> SUBSET {"images", "symbols"}]
  /\ found \in [Callers -> {Nothing, No, <<"true">>} \cup ({"true"} \X Images) \cup ({"true"} \X Images \X Nat)]
  /\ new \in [Callers -> Seq(Images)]
  /\ stopped \subseteq Callers

LinkerInit ==
  /\ \E h \in Images : infoArray = <<h>>
  /\ images = <<>> /\ symbols = <<>> /\ free = {}
  /\ initialized = FALSE /\ known = FALSE /\ notifier = FALSE
  /\ at = [c \in Callers |-> "idle"]
  /\ request = [c \in Callers |-> Nothing]
  /\ holds = [c \in Callers |-> {}]
  /\ found = [c \in Callers |-> Nothing]
  /\ new = [c \in Callers |-> <<>>]
  /\ stopped = {}

Runs(c, where) == at[c] = where /\ c \notin stopped
Goto(c, where) == at' = [at EXCEPT ![c] = where]

-----------------------------------------------------------------------------
(***************************************************************************)
(* The data of the image cache                                             *)
(***************************************************************************)

\* populateCacheEntry(): the range spans all segments with content, of which
\* the first few are kept.  An image without any is not cached.
Content(h)   == SelectSeq(Segments[h], LAMBDA s : s.content)
Kept(h)      == SubSeq(Content(h), 1, IF Len(Content(h)) < MaxSegments THEN Len(Content(h)) ELSE MaxSegments)
Populates(h) == Content(h) # <<>>

Bounds(h)       == {Content(h)[k].start : k \in DOMAIN Content(h)}
Ends(h)         == {Content(h)[k].end : k \in DOMAIN Content(h)}
StartAddress(h) == CHOOSE a \in Bounds(h) : \A b \in Bounds(h) : a <= b
EndAddress(h)   == CHOOSE a \in Ends(h) : \A b \in Ends(h) : a >= b

\* addressInCachedSegments()
InSegments(h, a) == \E k \in DOMAIN Kept(h) : Kept(h)[k].start <= a /\ a < Kept(h)[k].end

\* Mutant of BinarySearchCache: the last entry is never looked at.
BinarySearchCacheShort(s, a) ==
  LET search[range \in (1 .. Len(s) + 1) \X (0 .. Len(s))] ==
        LET l == range[1]  r == range[2]  mid == l + (r - l) \div 2
        IN  IF l > r THEN l - 1
            ELSE IF StartAddress(s[mid]) <= a THEN search[<<mid + 1, r>>] ELSE search[<<l, mid - 1>>]
  IN  IF s = <<>> THEN 0 ELSE search[<<1, Len(s) - 1>>]

\* binarySearchCache(): the rightmost entry that starts at or before a, or 0
BinarySearchCache(s, a) ==
  LET search[range \in (1 .. Len(s) + 1) \X (0 .. Len(s))] ==
        LET l == range[1]  r == range[2]  mid == l + (r - l) \div 2
        IN  IF l > r THEN l - 1
            ELSE IF StartAddress(s[mid]) <= a THEN search[<<mid + 1, r>>] ELSE search[<<l, mid - 1>>]
  IN  search[<<1, Len(s)>>]

\* insertSortedCacheEntry()
InsertSorted(s, h) ==
  LET search[range \in (1 .. Len(s) + 1) \X (1 .. Len(s) + 1)] ==
        LET l == range[1]  r == range[2]  mid == l + (r - l) \div 2
        IN  IF l >= r THEN l
            ELSE IF StartAddress(s[mid]) < StartAddress(h) THEN search[<<mid + 1, r>>] ELSE search[<<l, mid>>]
      k == search[<<1, Len(s) + 1>>]
  IN  IF Len(s) >= MaxImages THEN s
      ELSE SubSeq(s, 1, k - 1) \o <<h>> \o SubSeq(s, k, Len(s))

\* findByHeader()
Cached(s, h) == \E k \in DOMAIN s : s[k] = h

\* Mutant of Hits: the range of an image is taken for the image.
HitsRange(s, a) ==
  {k \in 1 .. BinarySearchCache(s, a) : StartAddress(s[k]) <= a /\ a < EndAddress(s[k])}

\* The entries that the way back from the search would stop at
Hits(s, a) ==
  {k \in 1 .. BinarySearchCache(s, a) :
     StartAddress(s[k]) <= a /\ a < EndAddress(s[k]) /\ InSegments(s[k], a)}

\* linearScanForAddress(): the first image of dyld's list, if it is known
Scan(a) ==
  LET hits == {k \in DOMAIN infoArray : Populates(infoArray[k]) /\ InSegments(infoArray[k], a)}
  IN  IF ~known \/ hits = {} THEN None
      ELSE infoArray[CHOOSE k \in hits : \A j \in hits : k <= j]

\* Segments with content are what populateCacheEntry() takes.  Those that no code
\* is in may be shared by images, as in the shared cache of dyld; an address that
\* is looked up is in one image.
Segment == [start : Nat, end : Nat, content : BOOLEAN]
Symbol  == [value : Nat, stab : BOOLEAN]

ASSUME LinkerAssumption ==
  /\ None \notin Images /\ Addresses \subseteq Nat
  /\ {MaxSegments, MaxImages, MaxSymbols, MaxHits} \subseteq Nat \ {0}
  /\ \A h \in Images : Content(h) \in Seq(Segment) /\ Symbols[h] \in Seq(Symbol)
  /\ \A g, h \in Images : g # h =>
       /\ \A a \in Addresses : ~InSegments(g, a) \/ ~InSegments(h, a)
       /\ Populates(g) /\ Populates(h) => StartAddress(g) # StartAddress(h)

-----------------------------------------------------------------------------
(***************************************************************************)
(* ksdl_init()                                                             *)
(***************************************************************************)
InitBegins(c) ==
  /\ Runs(c, "idle")
  /\ initialized' = TRUE
  /\ Goto(c, IF initialized THEN "idle" ELSE "infos")
  /\ UNCHANGED <<infoArray, caches, known, notifier, request, holds, found, new, stopped>>

\* ksbic_init(), which is called once; task_info() may fail.
InitInfos(c) ==
  /\ Runs(c, "infos")
  /\ \/ known' = TRUE /\ Goto(c, "cache")
     \/ known' = FALSE /\ Goto(c, "symbolCache")
  /\ UNCHANGED <<infoArray, caches, initialized, notifier, request, holds, found, new, stopped>>

InitImageCache(c) ==
  /\ Runs(c, "cache")
  /\ images' = <<>> /\ free' = free \cup {"images"}
  /\ Goto(c, "hook")
  /\ UNCHANGED <<infoArray, symbols, setup, request, holds, found, new, stopped>>

InitNotifier(c) ==
  /\ Runs(c, "hook")
  /\ notifier' = TRUE
  /\ Goto(c, "symbolCache")
  /\ UNCHANGED <<infoArray, caches, initialized, known, request, holds, found, new, stopped>>

InitSymbolCache(c) ==
  /\ Runs(c, "symbolCache")
  /\ symbols' = <<>> /\ free' = free \cup {"symbols"}
  /\ Goto(c, "idle")
  /\ UNCHANGED <<infoArray, images, setup, request, holds, found, new, stopped>>

-----------------------------------------------------------------------------
(***************************************************************************)
(* Taking a cache                                                          *)
(***************************************************************************)

\* atomic_exchange(&g_..._ptr, NULL)
Exchange(c, cache) ==
  /\ free' = free \ {cache}
  /\ holds' = [holds EXCEPT ![c] = @ \cup (free \cap {cache})]

\* atomic_store(&g_..._ptr, cache), for what was taken
Release(c, cache) ==
  /\ free' = free \cup (holds[c] \cap {cache})
  /\ holds' = [holds EXCEPT ![c] = @ \ {cache}]

\* A lookup is called.
Call(c, r) ==
  /\ Runs(c, "idle")
  /\ Op(r) = "header" => Cached(infoArray, Arg(r))
  /\ request' = [request EXCEPT ![c] = r]
  /\ Goto(c, IF Op(r) = "dladdr" THEN "symbols" ELSE "images")
  /\ UNCHANGED <<infoArray, caches, setup, holds, found, new, stopped>>

\* dyld lists new images, one caller at a time, and calls the notifier.
Load(c, batch) ==
  /\ Runs(c, "idle") /\ \A d \in Callers : new[d] = <<>> \/ request[d] # Nothing
  /\ \A k \in DOMAIN batch : ~Cached(infoArray, batch[k])
  /\ infoArray' = infoArray \o batch
  /\ IF notifier THEN Goto(c, "images") /\ new' = [new EXCEPT ![c] = batch]
                 ELSE UNCHANGED <<at, new>>
  /\ UNCHANGED <<caches, setup, request, holds, found, stopped>>

-----------------------------------------------------------------------------
(***************************************************************************)
(* ksdl_dladdr()                                                           *)
(***************************************************************************)
TakeSymbols(c) ==
  /\ Runs(c, "symbols")
  /\ Exchange(c, "symbols")
  /\ Goto(c, IF "symbols" \in free THEN "search" ELSE "images")
  /\ UNCHANGED <<infoArray, images, symbols, setup, request, found, new, stopped>>

\* A hit is the answer, and is counted.
Search(c) ==
  /\ Runs(c, "search")
  /\ LET hits == {k \in DOMAIN symbols : symbols[k].address = Arg(request[c])}
     IN  IF hits = {} THEN Goto(c, "images") /\ UNCHANGED <<symbols, found>>
         ELSE \E k \in hits :
                /\ \A j \in hits : k <= j
                /\ found' = [found EXCEPT ![c] = symbols[k].found]
                /\ symbols' = [symbols EXCEPT ![k].hits = IF @ < MaxHits THEN @ + 1 ELSE @]
                /\ Goto(c, "store")
  /\ UNCHANGED <<infoArray, images, free, setup, request, holds, new, stopped>>

\* The symbol table is searched to the end, or up to an exact match: of equal
\* distances the last one counts.
BestMatch(h, a) ==
  LET table == Symbols[h]
      best[k \in 0 .. Len(table)] ==
        IF k = 0 THEN 0
        ELSE LET b == best[k - 1]
             IN  IF \/ table[k].stab \/ table[k].value = 0 \/ a < table[k].value
                    \/ b # 0 /\ (table[b].value = a \/ table[k].value < table[b].value)
                 THEN b ELSE k
  IN  best[Len(table)]

\* What ksdl_dladdr_uncached() makes of the image
Symbolicated(h, a) == IF h = None \/ h \in Unlinked THEN No ELSE <<"true", h, BestMatch(h, a)>>

\* The entry that is replaced: the first one with the fewest hits, if fewer
\* than can be counted
Victim == LET least == {k \in DOMAIN symbols : /\ symbols[k].hits < MaxHits
                                               /\ \A j \in DOMAIN symbols : symbols[k].hits <= symbols[j].hits}
          IN  IF least = {} THEN 1 ELSE CHOOSE k \in least : \A j \in least : k <= j

\* After a miss the result is added; then the cache is handed back.
Store(c) ==
  /\ Runs(c, "store")
  /\ LET entry == [address |-> Arg(request[c]), found |-> found[c], hits |-> 1]
         hit   == \E k \in DOMAIN symbols : symbols[k].address = Arg(request[c])
     IN  symbols' = IF found[c] = No \/ hit THEN symbols
                    ELSE IF Len(symbols) < MaxSymbols THEN Append(symbols, entry)
                    ELSE [symbols EXCEPT ![Victim] = entry]
  /\ Release(c, "symbols")
  /\ Goto(c, "done")
  /\ UNCHANGED <<infoArray, images, setup, request, found, new, stopped>>

-----------------------------------------------------------------------------
(***************************************************************************)
(* The image cache                                                         *)
(***************************************************************************)
TakeImages(c) ==
  /\ Runs(c, "images")
  /\ Exchange(c, "images")
  /\ Goto(c, "look")
  /\ UNCHANGED <<infoArray, images, symbols, setup, request, found, new, stopped>>

\* Where a lookup goes on once it has its image
AfterImages(c) == IF "symbols" \in holds[c] THEN "store" ELSE "done"

\* ksbic_getUnwindInfoForAddress(): after a miss in a full cache it returns true
\* and fills in nothing.
UnwindAnswer(h, full) ==
  IF h = None THEN No ELSE IF full THEN <<"true">> ELSE <<"true", h>>

\* ksbic_getImageDetailsForAddress() and ksbic_getUnwindInfoForAddress(): the
\* cache if it was taken, then dyld's list
LookUpAddress(c) ==
  /\ Runs(c, "look") /\ request[c] # Nothing /\ Op(request[c]) # "header"
  /\ LET a    == Arg(request[c])
         held == "images" \in holds[c]
         hits == IF held THEN Hits(images, a) ELSE {}
         h    == IF hits # {} THEN images[CHOOSE k \in hits : \A j \in hits : k >= j] ELSE Scan(a)
         full == held /\ hits = {} /\ Len(images) >= MaxImages
     IN  /\ found' = [found EXCEPT ![c] =
                        CASE Op(request[c]) = "dladdr" -> Symbolicated(h, a)
                          [] Op(request[c]) = "unwind" -> UnwindAnswer(h, full)]
         /\ new' = [new EXCEPT ![c] = IF held /\ hits = {} /\ h # None THEN <<h>> ELSE <<>>]
         /\ Goto(c, IF held THEN "put" ELSE AfterImages(c))
  /\ UNCHANGED <<infoArray, caches, setup, request, holds, stopped>>

\* ksbic_getUnwindInfoForHeader()
LookUpHeader(c) ==
  /\ Runs(c, "look") /\ request[c] # Nothing /\ Op(request[c]) = "header"
  /\ LET h      == Arg(request[c])
         held   == "images" \in holds[c]
         cached == held /\ Cached(images, h)
     IN  /\ found' = [found EXCEPT ![c] = IF cached \/ Populates(h) THEN <<"true", h>> ELSE No]
         /\ new' = [new EXCEPT ![c] = IF held /\ ~cached /\ Populates(h) THEN <<h>> ELSE <<>>]
         /\ Goto(c, IF held THEN "put" ELSE "done")
  /\ UNCHANGED <<infoArray, caches, setup, request, holds, stopped>>

\* ksbic_dyld_image_notifier(): without the cache, nothing is inserted.
Notified(c) ==
  /\ Runs(c, "look") /\ request[c] = Nothing
  /\ IF "images" \in holds[c] THEN UNCHANGED new ELSE new' = [new EXCEPT ![c] = <<>>]
  /\ Goto(c, IF "images" \in holds[c] THEN "put" ELSE "done")
  /\ UNCHANGED <<infoArray, caches, setup, request, holds, found, stopped>>

\* What is new is inserted (only the notifier looks whether it is there), and
\* the cache is handed back.
Put(c) ==
  /\ Runs(c, "put")
  /\ LET inserted[k \in 0 .. Len(new[c])] ==
           IF k = 0 THEN images
           ELSE IF \/ ~Populates(new[c][k])
                   \/ request[c] = Nothing /\ Cached(inserted[k - 1], new[c][k])
                THEN inserted[k - 1]
                ELSE InsertSorted(inserted[k - 1], new[c][k])
     IN  images' = inserted[Len(new[c])]
  /\ Release(c, "images")
  /\ new' = [new EXCEPT ![c] = <<>>]
  /\ Goto(c, AfterImages(c))
  /\ UNCHANGED <<infoArray, symbols, setup, request, found, stopped>>

Return(c) ==
  /\ Runs(c, "done")
  /\ Goto(c, "idle")
  /\ request' = [request EXCEPT ![c] = Nothing]
  /\ found' = [found EXCEPT ![c] = Nothing]
  /\ UNCHANGED <<infoArray, caches, setup, holds, new, stopped>>

\* The process crashes, and this thread never runs again.
Stop(c) ==
  /\ Cardinality(stopped) < MaxStopped /\ at[c] # "idle"
  /\ stopped' = stopped \cup {c}
  /\ UNCHANGED <<infoArray, caches, setup, at, request, holds, found, new>>

Batches == {<<h>> : h \in Images} \cup {b \in Images \X Images : b[1] # b[2]}

LinkerNext == \E c \in Callers :
  \/ InitBegins(c) \/ InitInfos(c) \/ InitImageCache(c) \/ InitNotifier(c) \/ InitSymbolCache(c)
  \/ (\E r \in Requests : Call(c, r)) \/ (\E b \in Batches : Load(c, b))
  \/ TakeSymbols(c) \/ Search(c) \/ Store(c)
  \/ TakeImages(c) \/ LookUpAddress(c) \/ LookUpHeader(c) \/ Notified(c) \/ Put(c)
  \/ Return(c) \/ Stop(c)

LinkerSpec == LinkerInit /\ [][LinkerNext]_linkerVars

-----------------------------------------------------------------------------
(***************************************************************************)
(* Properties                                                              *)
(***************************************************************************)

\* "lock-free exclusive access": a cache is in one place, behind its pointer
\* or with one caller, so that no two callers ever change it together and none
\* is lost.
OneHolder ==
  \A cache \in {"images", "symbols"} :
    LET holders == {c \in Callers : cache \in holds[c]}
    IN  /\ Cardinality(holders) <= 1
        /\ cache \in free => holders = {}
        /\ (cache = "images" /\ notifier) \/ (cache = "symbols" /\ symbols # <<>>)
             => cache \in free \/ holders # {}

\* "The cache must be sorted by startAddress in ascending order": the image
\* cache is sorted and lists no image twice, so that binary search is right and
\* no entry is wasted; the symbol cache has no address twice.
CachesSound ==
  /\ \A j, k \in DOMAIN images : j < k => StartAddress(images[j]) < StartAddress(images[k])
  /\ \A j, k \in DOMAIN symbols : symbols[j].address = symbols[k].address => j = k

Lookup == INSTANCE KSImageLookup WITH
  loaded <- {infoArray[k] : k \in DOMAIN infoArray}, ready <- known,
  asked  <- request, answer <- found

\* "lock-free exclusive access": each cache is behind its pointer or with one
\* caller; and the image cache stays sorted and without duplicates, which its
\* binary search needs, and so does the symbol cache (insertSortedCacheEntry,
\* ksdl_dladdr).
LinkerCachesSound == OneHolder /\ CachesSound

\* ksdl_dladdr() and the lookups of KSBinaryImageCache.c: with two caches, callers
\* that go without and callers that never return, each lookup is answered as if
\* there was no cache.
LinkerImplements == Lookup!Spec
=============================================================================
