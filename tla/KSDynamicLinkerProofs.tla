------------------------ MODULE KSDynamicLinkerProofs ------------------------
(***************************************************************************)
(* The image cache and the symbol cache are never with two callers, and    *)
(* stay sorted and without duplicates; and each lookup is answered as if   *)
(* there was no cache.  Both follow from one inductive invariant.          *)
(*                                                                         *)
(* The module first proves what the recursive functions of the caches      *)
(* compute for every input: binary search, insertion, the search of the    *)
(* symbol table.  The invariant and the steps that keep it come next, and  *)
(* the refinement last.                                                    *)
(***************************************************************************)
EXTENDS KSDynamicLinker, WellFoundedInduction, SequenceTheorems, FiniteSetTheorems, TLAPS

\* What the image cache holds: images with content, sorted by address
Sorted(s) ==
  /\ s \in Seq(Images) /\ \A k \in DOMAIN s : Populates(s[k])
  /\ \A j, k \in DOMAIN s : j < k => StartAddress(s[j]) < StartAddress(s[k])

\* What dyld lists
Loaded == {infoArray[k] : k \in DOMAIN infoArray}

\* An entry of the symbol cache
Entry == [address : Addresses, found : {"true"} \X Images \X Nat, hits : 1 .. MaxHits]

-----------------------------------------------------------------------------
(***************************************************************************)
(* The inductive invariant                                                 *)
(***************************************************************************)
Present(cache) == cache \in free \/ \E c \in Callers : cache \in holds[c]

Exclusive ==
  \A c \in Callers : \A cache \in holds[c] :
    /\ cache \notin free
    /\ \A d \in Callers : cache \in holds[d] => d = c

Setup == {"infos", "cache", "hook", "symbolCache"}

\* There is one caller in ksdl_init(), and the caches come one after the other.
SetUp ==
  /\ \A c, d \in Callers : at[c] \in Setup /\ at[d] \in Setup => c = d
  /\ ~initialized \/ (\E c \in Callers : at[c] \in {"infos", "cache"}) => ~Present("images")
  /\ ~initialized \/ (\E c \in Callers : at[c] \in Setup) => ~Present("symbols")
  /\ \A c \in Callers : at[c] \in Setup => initialized
  /\ ~initialized \/ (\E c \in Callers : at[c] = "infos") => ~known
  /\ \A c \in Callers : at[c] \in {"cache", "hook"} => known
  /\ notifier \/ (\E c \in Callers : at[c] = "hook") => Present("images")
  /\ Present("images") => known
  /\ symbols # <<>> => Present("symbols")

Looking(c) == request[c] # Nothing

\* What a caller holds and has found at each point
Places ==
  \A c \in Callers :
    /\ at[c] \in {"idle"} \cup Setup => request[c] = Nothing /\ holds[c] = {}
    /\ at[c] \in {"symbols", "search"} => Looking(c) /\ Op(request[c]) = "dladdr"
    /\ at[c] \in {"symbols", "done"} => holds[c] = {}
    /\ at[c] \in {"search", "store"} => holds[c] = {"symbols"}
    /\ "images" \in holds[c] => at[c] \in {"look", "put"}
    /\ at[c] = "put" => "images" \in holds[c]
    /\ "symbols" \in holds[c] => Looking(c) /\ Op(request[c]) = "dladdr"
    /\ at[c] \notin {"put", "store", "done"} => found[c] = Nothing
    /\ at[c] \in {"put", "store", "done"} => (found[c] = Nothing <=> ~Looking(c))

\* The images that are cached, or going to be, are listed by dyld.  A lookup
\* has at most one, which is not cached.
Entries ==
  /\ Sorted(images)
  /\ \A k \in DOMAIN images : images[k] \in Loaded
  /\ \A c \in Callers :
       /\ \A k \in DOMAIN new[c] : new[c][k] \in Loaded
       /\ Looking(c) /\ Op(request[c]) = "header" => Arg(request[c]) \in Loaded
       /\ at[c] \notin {"images", "look", "put"} => new[c] = <<>>
       /\ at[c] = "put" /\ Looking(c) =>
            Len(new[c]) <= 1 /\ \A k \in DOMAIN new[c] : Populates(new[c][k]) /\ ~Cached(images, new[c][k])

\* What a lookup without caches says of an address
Genuine(a, f) ==
  known /\ \E h \in Loaded : InSegments(h, a) /\ h \notin Unlinked /\ f = <<"true", h, BestMatch(h, a)>>

Answers ==
  /\ \A j, k \in DOMAIN symbols : symbols[j].address = symbols[k].address => j = k
  /\ \A k \in DOMAIN symbols : Genuine(symbols[k].address, symbols[k].found)
  /\ \A c \in Callers : "symbols" \in holds[c] /\ found[c] \notin {Nothing, No}
       => Genuine(Arg(request[c]), found[c])

LinkerInv == LinkerTypeOK /\ Exclusive /\ SetUp /\ Places /\ Entries /\ Answers

-----------------------------------------------------------------------------
(***************************************************************************)
(* Numbers and recursive functions                                         *)
(***************************************************************************)
\* A set of numbers that is not empty has a smallest one.
LEMMA Least == ASSUME NEW T \in SUBSET Nat, T # {} PROVE \E m \in T : \A k \in T : m <= k
<1> DEFINE R == {ss \in Nat \X Nat : ss[1] < ss[2]}
<1>1. IsWellFoundedOn(R, Nat)
  BY NatLessThanWellFounded DEF OpToRel
<1>2. PICK i \in T : \A j \in T : ~ (<<j, i>> \in R)
  <2> HIDE DEF R
  <2> QED BY <1>1, WFMin
<1>3. \A j \in T : i <= j
  <2> TAKE j \in T
  <2>1. ~(j < i)
    BY <1>2
  <2> QED BY <2>1
<1> QED BY <1>3

\* Induction, for sets of numbers
LEMMA Induct == ASSUME NEW T \in SUBSET Nat, 0 \in T, \A n \in T : n + 1 \in T PROVE T = Nat
<1> SUFFICES ASSUME Nat \ T # {} PROVE FALSE
  OBVIOUS
<1>1. PICK m \in Nat \ T : \A k \in Nat \ T : m <= k
  BY Least
<1>2. m - 1 \in Nat /\ m - 1 \in T
  BY <1>1
<1> QED BY <1>2

\* A set of numbers that has a bound has a largest one.
LEMMA Largest ==
  ASSUME NEW T \in SUBSET Nat, T # {}, NEW n \in Nat, \A k \in T : k <= n
  PROVE  \E m \in T : \A k \in T : k <= m
<1> DEFINE U == {j \in Nat : \A k \in T : k <= j}
<1>1. n \in U
  OBVIOUS
<1>2. PICK m \in U : \A k \in U : m <= k
  <2> HIDE DEF U
  <2> U \subseteq Nat
    BY DEF U
  <2> QED BY <1>1, Least
<1>3. m \in T
  <2> SUFFICES ASSUME m \notin T PROVE FALSE
    OBVIOUS
  <2>1. \A k \in T : k <= m - 1
    BY <1>2
  <2>2. m - 1 \in Nat
    <3>1. PICK k \in T : TRUE
      OBVIOUS
    <3>2. k \in Nat /\ k <= m - 1 /\ m \in Nat
      BY <1>2, <2>1, <3>1
    <3> QED BY <3>2
  <2>3. m - 1 \in U
    BY <2>1, <2>2
  <2> QED BY <1>2, <2>3
<1> QED BY <1>2, <1>3

\* A function that is defined by what each value is made of the one before it
\* exists, and is what its definition says.
LEMMA Chain ==
  ASSUME NEW S, NEW first \in S, NEW n \in Nat, NEW step \in [1 .. n -> [S -> S]]
  PROVE  \E f \in [0 .. n -> S] : f = [k \in 0 .. n |-> IF k = 0 THEN first ELSE step[k][f[k - 1]]]
<1> DEFINE P(m) == \E f \in [0 .. m -> S] : f = [k \in 0 .. m |-> IF k = 0 THEN first ELSE step[k][f[k - 1]]]
           T == {m \in Nat : m <= n => P(m)}
<1>1. 0 \in T
  <2> DEFINE f == [k \in 0 .. 0 |-> first]
  <2>1. f \in [0 .. 0 -> S]
    OBVIOUS
  <2>2. f = [k \in 0 .. 0 |-> IF k = 0 THEN first ELSE step[k][f[k - 1]]]
    OBVIOUS
  <2> HIDE DEF f
  <2> QED BY <2>1, <2>2
<1>2. ASSUME NEW m \in Nat, m + 1 <= n, P(m) PROVE P(m + 1)
  <2>1. PICK f \in [0 .. m -> S] : f = [k \in 0 .. m |-> IF k = 0 THEN first ELSE step[k][f[k - 1]]]
    BY <1>2
  <2> DEFINE g == [k \in 0 .. m + 1 |-> IF k <= m THEN f[k] ELSE step[k][f[m]]]
  <2>2. f[m] \in S /\ m + 1 \in 1 .. n
    BY <1>2
  <2>3. step[m + 1][f[m]] \in S
    BY <2>2
  <2>4. g \in [0 .. m + 1 -> S]
    BY <2>3
  <2>5. \A k \in 0 .. m + 1 : g[k] = IF k = 0 THEN first ELSE step[k][g[k - 1]]
    <3> TAKE k \in 0 .. m + 1
    <3>1. CASE k = m + 1
      <4>1. k # 0 /\ k - 1 = m /\ g[k] = step[k][f[m]] /\ g[m] = f[m]
        BY <3>1
      <4> QED BY <4>1
    <3>2. CASE k \in 0 .. m
      <4>1. g[k] = f[k] /\ (k # 0 => g[k - 1] = f[k - 1])
        BY <3>2
      <4>2. f[k] = IF k = 0 THEN first ELSE step[k][f[k - 1]]
        BY <2>1, <3>2
      <4> HIDE DEF g
      <4> QED BY <4>1, <4>2
    <3> QED BY <3>1, <3>2
  <2>6. g = [k \in 0 .. m + 1 |-> IF k = 0 THEN first ELSE step[k][g[k - 1]]]
    <3> HIDE DEF g
    <3> QED BY <2>4, <2>5
  <2> HIDE DEF g
  <2> QED BY <2>4, <2>6
<1>3. T = Nat
  <2> HIDE DEF P
  <2>1. T \subseteq Nat /\ \A m \in T : m + 1 \in T
    BY <1>2
  <2> HIDE DEF T
  <2> QED BY <1>1, <2>1, Induct
<1>4. P(n)
  <2> HIDE DEF P
  <2> QED BY <1>3
<1> QED BY <1>4

-----------------------------------------------------------------------------
(***************************************************************************)
(* binarySearchCache() and insertSortedCacheEntry()                        *)
(***************************************************************************)
\* The middle of a range is in it.
LEMMA Middle ==
  ASSUME NEW l \in Nat, NEW r \in Nat, l <= r
  PROVE  /\ l + (r - l) \div 2 \in l .. r
         /\ l < r => l + (r - l) \div 2 < r
  OBVIOUS

\* The number of entries of a sorted list that a property which is lost once
\* and for all holds of.
LEMMA Falling ==
  ASSUME NEW n \in Nat, NEW Low \in [1 .. n -> BOOLEAN],
         \A j, k \in 1 .. n : j < k /\ Low[k] => Low[j]
  PROVE  \E m \in 0 .. n : \A k \in 1 .. n : Low[k] <=> k <= m
<1> DEFINE T == {k \in 0 .. n : k = 0 \/ Low[k]}
<1>1. T \in SUBSET Nat /\ T # {} /\ \A k \in T : k <= n
  <2>1. 0 \in T
    OBVIOUS
  <2> QED BY <2>1
<1>2. PICK m \in T : \A k \in T : k <= m
  <2> HIDE DEF T
  <2> QED BY <1>1, Largest
<1>3. ASSUME NEW k \in 1 .. n PROVE Low[k] <=> k <= m
  <2>1. Low[k] => k <= m
    BY <1>2
  <2>2. k <= m => Low[k]
    BY <1>2
  <2> QED BY <2>1, <2>2
<1> QED BY <1>2, <1>3

\* binarySearchCache() returns the number of entries that start at or before an
\* address, which is the last one of them.
LEMMA SearchExact ==
  ASSUME NEW s, Sorted(s), NEW a \in Nat, \A h \in Images : Populates(h) => StartAddress(h) \in Nat
  PROVE  /\ BinarySearchCache(s, a) \in 0 .. Len(s)
         /\ \A k \in 1 .. Len(s) : StartAddress(s[k]) <= a <=> k <= BinarySearchCache(s, a)
<1> DEFINE n == Len(s)
           D == (1 .. Len(s) + 1) \X (0 .. Len(s))
           search[range \in (1 .. Len(s) + 1) \X (0 .. Len(s))] ==
             LET l == range[1]  r == range[2]  mid == l + (r - l) \div 2
             IN  IF l > r THEN l - 1
                 ELSE IF StartAddress(s[mid]) <= a THEN search[<<mid + 1, r>>] ELSE search[<<l, mid - 1>>]
<1>1. BinarySearchCache(s, a) = search[<<1, n>>]
  BY DEF BinarySearchCache
<1> DEFINE Low == [k \in 1 .. n |-> StartAddress(s[k]) <= a]
<1>2. n \in Nat /\ \A k \in 1 .. n : s[k] \in Images /\ StartAddress(s[k]) \in Nat
  BY DEF Sorted
<1>3. PICK m \in 0 .. n : \A k \in 1 .. n : StartAddress(s[k]) <= a <=> k <= m
  <2>1. Low \in [1 .. n -> BOOLEAN]
    BY <1>2
  <2>2. \A j, k \in 1 .. n : j < k => StartAddress(s[j]) < StartAddress(s[k])
    BY DEF Sorted
  <2>3. ASSUME NEW j \in 1 .. n, NEW k \in 1 .. n, j < k, Low[k] PROVE Low[j]
    <3>1. StartAddress(s[j]) < StartAddress(s[k]) /\ StartAddress(s[k]) <= a
      BY <2>2, <2>3
    <3>2. StartAddress(s[j]) <= a
      <4> HIDE DEF Low, n
      <4> QED BY <1>2, <3>1
    <3> QED BY <3>2
  <2>4. \E m \in 0 .. n : \A k \in 1 .. n : Low[k] <=> k <= m
    <3> HIDE DEF Low, n
    <3> QED BY <1>2, <2>1, <2>3, Falling
  <2> QED BY <2>4
<1> DEFINE Clamp(l, r) == IF l > r \/ m < l THEN l - 1 ELSE IF r < m THEN r ELSE m
           closed == [range \in D |-> Clamp(range[1], range[2])]
           F(f) == [range \in (1 .. Len(s) + 1) \X (0 .. Len(s)) |->
             LET l == range[1]  r == range[2]  mid == l + (r - l) \div 2
             IN  IF l > r THEN l - 1
                 ELSE IF StartAddress(s[mid]) <= a THEN f[<<mid + 1, r>>] ELSE f[<<l, mid - 1>>]]
<1>4. closed = F(closed)
  <2>1. ASSUME NEW l \in 1 .. n + 1, NEW r \in 0 .. n PROVE closed[<<l, r>>] = F(closed)[<<l, r>>]
    <3> DEFINE mid == l + (r - l) \div 2
    <3>1. l <= r => /\ mid \in l .. r /\ mid \in 1 .. n
                    /\ <<mid + 1, r>> \in D /\ <<l, mid - 1>> \in D
      BY Middle, <1>2
    <3>2. l <= r => (StartAddress(s[mid]) <= a <=> mid <= m)
      BY <3>1, <1>3
    <3>3. closed[<<l, r>>] = Clamp(l, r)
      OBVIOUS
    <3>4. F(closed)[<<l, r>>] = IF l > r THEN l - 1
                 ELSE IF StartAddress(s[mid]) <= a THEN closed[<<mid + 1, r>>] ELSE closed[<<l, mid - 1>>]
      <4> HIDE DEF closed
      <4> QED OBVIOUS
    <3>5. l <= r => /\ closed[<<mid + 1, r>>] = Clamp(mid + 1, r)
                    /\ closed[<<l, mid - 1>>] = Clamp(l, mid - 1)
      BY <3>1
    <3>6. l <= r /\ mid <= m => Clamp(mid + 1, r) = Clamp(l, r)
      <4>1. (l <= r => mid \in l .. r) /\ l \in Int /\ r \in Int /\ m \in Int
        <5> HIDE DEF mid
        <5> QED BY <3>1, <1>2, <1>3
      <4> HIDE DEF mid
      <4> QED BY ONLY <4>1
    <3>7. l <= r /\ m < mid => Clamp(l, mid - 1) = Clamp(l, r)
      <4>1. (l <= r => mid \in l .. r) /\ l \in Int /\ r \in Int /\ m \in Int
        <5> HIDE DEF mid
        <5> QED BY <3>1, <1>2, <1>3
      <4> HIDE DEF mid
      <4> QED BY ONLY <4>1
    <3>8. l > r => Clamp(l, r) = l - 1
      OBVIOUS
    <3>9. CASE l > r
      <4> HIDE DEF mid, Clamp, closed, F, D
      <4> QED BY <3>3, <3>4, <3>8, <3>9
    <3>10. CASE l <= r
      <4>1. mid \in Int /\ ~(l > r)
        BY <3>1, <3>10, <1>2
      <4>2. StartAddress(s[mid]) <= a <=> ~(m < mid)
        BY <3>1, <3>2, <3>10, <1>3
      <4> HIDE DEF mid, Clamp, closed, F, D
      <4>3. CASE StartAddress(s[mid]) <= a
        <5>1. mid <= m
          BY <3>2, <3>10, <4>3
        <5> QED BY <3>3, <3>4, <3>5, <3>6, <3>10, <4>1, <4>3, <5>1
      <4>4. CASE ~(StartAddress(s[mid]) <= a)
        <5>1. m < mid
          BY <4>2, <4>4
        <5> QED BY <3>3, <3>4, <3>5, <3>7, <3>10, <4>1, <4>4, <5>1
      <4> QED BY <4>3, <4>4
    <3> QED BY <3>9, <3>10, <1>2
  <2>2. \A range \in D : closed[range] = F(closed)[range]
    <3> HIDE DEF closed, F
    <3> QED BY <2>1
  <2> QED BY <2>2
<1>5. search = F(search)
  <2>1. search = CHOOSE f : f = F(f)
    OBVIOUS
  <2> HIDE DEF closed, F, search
  <2> QED BY <1>4, <2>1
<1>6. \A l \in 1 .. n + 1, r \in 0 .. n : search[<<l, r>>] = Clamp(l, r)
  <2> HIDE DEF search
  <2> DEFINE Wrong(k) == \E l \in 1 .. n + 1, r \in 0 .. n : k = r - l + 1 /\ l <= r /\ search[<<l, r>>] # Clamp(l, r)
             T == {k \in Nat : Wrong(k)}
  <2>1. ASSUME NEW l \in 1 .. n + 1, NEW r \in 0 .. n
        PROVE  search[<<l, r>>] = IF l > r THEN l - 1
                 ELSE IF StartAddress(s[l + (r - l) \div 2]) <= a
                 THEN search[<<(l + (r - l) \div 2) + 1, r>>] ELSE search[<<l, (l + (r - l) \div 2) - 1>>]
    <3>1. <<l, r>> \in D
      OBVIOUS
    <3>2. search[<<l, r>>] = F(search)[<<l, r>>]
      <4> HIDE DEF F
      <4> QED BY <1>5
    <3>3. F(search)[<<l, r>>] = IF l > r THEN l - 1
                 ELSE IF StartAddress(s[l + (r - l) \div 2]) <= a
                 THEN search[<<(l + (r - l) \div 2) + 1, r>>] ELSE search[<<l, (l + (r - l) \div 2) - 1>>]
      BY <3>1
    <3> HIDE DEF F
    <3> QED BY <3>2, <3>3
  <2>2. ASSUME NEW l \in 1 .. n + 1, NEW r \in 0 .. n, l <= r,
               \A i \in 1 .. n + 1, j \in 0 .. n : j - i < r - l => search[<<i, j>>] = Clamp(i, j)
        PROVE  search[<<l, r>>] = Clamp(l, r)
    <3> DEFINE mid == l + (r - l) \div 2
    <3>1. mid \in l .. r /\ mid \in 1 .. n /\ mid + 1 \in 1 .. n + 1 /\ mid - 1 \in 0 .. n
      BY Middle, <1>2, <2>2
    <3>2. StartAddress(s[mid]) <= a <=> mid <= m
      BY <3>1, <1>3
    <3>3. search[<<mid + 1, r>>] = Clamp(mid + 1, r) /\ search[<<l, mid - 1>>] = Clamp(l, mid - 1)
      <4>1. r - (mid + 1) < r - l /\ (mid - 1) - l < r - l
        <5> HIDE DEF mid
        <5> QED BY <3>1, <1>2
      <4> HIDE DEF mid, Clamp
      <4> QED BY <2>2, <3>1, <4>1
    <3>8. l <= r
      BY <2>2
    <3>4. mid <= m => Clamp(mid + 1, r) = Clamp(l, r)
      <4>1. l <= r /\ mid \in l .. r /\ l \in Int /\ r \in Int /\ m \in Int
        <5> HIDE DEF mid
        <5> QED BY <3>1, <3>8, <1>2, <1>3
      <4> HIDE DEF mid
      <4> QED BY ONLY <4>1
    <3>5. m < mid => Clamp(l, mid - 1) = Clamp(l, r)
      <4>1. l <= r /\ mid \in l .. r /\ l \in Int /\ r \in Int /\ m \in Int
        <5> HIDE DEF mid
        <5> QED BY <3>1, <3>8, <1>2, <1>3
      <4> HIDE DEF mid
      <4> QED BY ONLY <4>1
    <3>6. search[<<l, r>>] = IF mid <= m THEN search[<<mid + 1, r>>] ELSE search[<<l, mid - 1>>]
      <4>1. ~(l > r)
        BY <2>2, <1>2
      <4> QED BY <2>1, <3>2, <4>1
    <3>7. mid <= m \/ (m < mid /\ ~(mid <= m))
      <4> HIDE DEF mid
      <4> QED BY <3>1, <1>2, <1>3
    <3> HIDE DEF mid, Clamp
    <3> QED BY <3>3, <3>4, <3>5, <3>6, <3>7
  <2>3. T = {}
    <3> SUFFICES ASSUME T # {} PROVE FALSE
      OBVIOUS
    <3>1. PICK k \in T : \A j \in T : k <= j
      <4> HIDE DEF Wrong
      <4>1. T \in SUBSET Nat
        OBVIOUS
      <4> HIDE DEF T
      <4> QED BY <4>1, Least
    <3>2. PICK l \in 1 .. n + 1, r \in 0 .. n : k = r - l + 1 /\ l <= r /\ search[<<l, r>>] # Clamp(l, r)
      BY <3>1
    <3>3. ASSUME NEW i \in 1 .. n + 1, NEW j \in 0 .. n, j - i < r - l, search[<<i, j>>] # Clamp(i, j) PROVE FALSE
      <4>1. CASE i > j
        <5>1. search[<<i, j>>] = i - 1
          BY <2>1, <4>1
        <5> QED BY <3>3, <4>1, <5>1
      <4>2. CASE i <= j
        <5>1. j - i + 1 \in Nat /\ j - i + 1 < k
          BY <3>2, <3>3, <4>2, <1>2
        <5>2. Wrong(j - i + 1)
          BY <3>3, <4>2
        <5>3. j - i + 1 \in T
          <6> HIDE DEF Wrong
          <6> QED BY <5>1, <5>2
        <5> HIDE DEF T
        <5> QED BY <3>1, <3>2, <5>1, <5>3, <1>2
      <4> QED BY <4>1, <4>2, <1>2
    <3>4. search[<<l, r>>] = Clamp(l, r)
      <4> HIDE DEF Clamp
      <4> QED BY <2>2, <3>2, <3>3
    <3> QED BY <3>2, <3>4
  <2> SUFFICES ASSUME NEW l \in 1 .. n + 1, NEW r \in 0 .. n PROVE search[<<l, r>>] = Clamp(l, r)
    OBVIOUS
  <2>4. CASE l > r
    BY <2>1, <2>4
  <2>5. CASE l <= r
    <3> SUFFICES ASSUME search[<<l, r>>] # Clamp(l, r) PROVE FALSE
      OBVIOUS
    <3>1. Wrong(r - l + 1)
      BY <2>5
    <3>2. r - l + 1 \in Nat
      BY <2>5, <1>2
    <3>3. r - l + 1 \in T
      <4> HIDE DEF Wrong
      <4> QED BY <3>1, <3>2
    <3> QED BY <2>3, <3>3
  <2> QED BY <2>4, <2>5, <1>2
<1>7. search[<<1, n>>] = m
  <2>1. 1 \in 1 .. n + 1 /\ n \in 0 .. n
    BY <1>2
  <2>2. Clamp(1, n) = m
    BY <1>2, <1>3
  <2> HIDE DEF search, Clamp
  <2> QED BY <1>6, <2>1, <2>2
<1> HIDE DEF search
<1> QED BY <1>1, <1>3, <1>7

\* insertSortedCacheEntry() puts the new entry behind all that start before it.
LEMMA InsertSearch ==
  ASSUME NEW s, Sorted(s), NEW h \in Images, Populates(h), Len(s) < MaxImages, MaxImages \in Nat,
         \A i \in Images : Populates(i) => StartAddress(i) \in Nat
  PROVE  \E m \in 0 .. Len(s) :
           /\ \A k \in 1 .. Len(s) : StartAddress(s[k]) < StartAddress(h) <=> k <= m
           /\ InsertSorted(s, h) = SubSeq(s, 1, m) \o <<h>> \o SubSeq(s, m + 1, Len(s))
<1> DEFINE n == Len(s)
           D == (1 .. Len(s) + 1) \X (1 .. Len(s) + 1)
           search[range \in (1 .. Len(s) + 1) \X (1 .. Len(s) + 1)] ==
             LET l == range[1]  r == range[2]  mid == l + (r - l) \div 2
             IN  IF l >= r THEN l
                 ELSE IF StartAddress(s[mid]) < StartAddress(h) THEN search[<<mid + 1, r>>] ELSE search[<<l, mid>>]
<1>1. InsertSorted(s, h) = LET k == search[<<1, n + 1>>]
                           IN  SubSeq(s, 1, k - 1) \o <<h>> \o SubSeq(s, k, n)
  <2>1. ~(Len(s) >= MaxImages)
    BY DEF Sorted
  <2> QED BY <2>1 DEF InsertSorted
<1> DEFINE Low == [k \in 1 .. n |-> StartAddress(s[k]) < StartAddress(h)]
<1>2. n \in Nat /\ \A k \in 1 .. n : s[k] \in Images /\ StartAddress(s[k]) \in Nat
  BY DEF Sorted
<1>3. PICK m \in 0 .. n : \A k \in 1 .. n : StartAddress(s[k]) < StartAddress(h) <=> k <= m
  <2>1. Low \in [1 .. n -> BOOLEAN]
    BY <1>2
  <2>2. \A j, k \in 1 .. n : j < k => StartAddress(s[j]) < StartAddress(s[k])
    BY DEF Sorted
  <2>3. ASSUME NEW j \in 1 .. n, NEW k \in 1 .. n, j < k, Low[k] PROVE Low[j]
    <3>1. StartAddress(s[j]) < StartAddress(s[k]) /\ StartAddress(s[k]) < StartAddress(h)
      BY <2>2, <2>3
    <3>2. StartAddress(s[j]) < StartAddress(h)
      <4> HIDE DEF Low, n
      <4> QED BY <1>2, <3>1
    <3> QED BY <3>2
  <2>4. \E m \in 0 .. n : \A k \in 1 .. n : Low[k] <=> k <= m
    <3> HIDE DEF Low, n
    <3> QED BY <1>2, <2>1, <2>3, Falling
  <2> QED BY <2>4
<1> DEFINE Clamp(l, r) == IF l >= r \/ m + 1 < l THEN l ELSE IF r < m + 1 THEN r ELSE m + 1
           closed == [range \in D |-> Clamp(range[1], range[2])]
           F(f) == [range \in (1 .. Len(s) + 1) \X (1 .. Len(s) + 1) |->
             LET l == range[1]  r == range[2]  mid == l + (r - l) \div 2
             IN  IF l >= r THEN l
                 ELSE IF StartAddress(s[mid]) < StartAddress(h) THEN f[<<mid + 1, r>>] ELSE f[<<l, mid>>]]
<1>4. closed = F(closed)
  <2>1. ASSUME NEW l \in 1 .. n + 1, NEW r \in 1 .. n + 1 PROVE closed[<<l, r>>] = F(closed)[<<l, r>>]
    <3> DEFINE mid == l + (r - l) \div 2
    <3>1. l < r => /\ mid \in l .. r /\ mid \in 1 .. n /\ mid < r
                    /\ <<mid + 1, r>> \in D /\ <<l, mid>> \in D
      BY Middle, <1>2
    <3>2. l < r => (StartAddress(s[mid]) < StartAddress(h) <=> mid <= m)
      BY <3>1, <1>3
    <3>3. closed[<<l, r>>] = Clamp(l, r)
      OBVIOUS
    <3>4. F(closed)[<<l, r>>] = IF l >= r THEN l
                 ELSE IF StartAddress(s[mid]) < StartAddress(h) THEN closed[<<mid + 1, r>>] ELSE closed[<<l, mid>>]
      <4> HIDE DEF closed
      <4> QED OBVIOUS
    <3>5. l < r => /\ closed[<<mid + 1, r>>] = Clamp(mid + 1, r)
                    /\ closed[<<l, mid>>] = Clamp(l, mid)
      BY <3>1
    <3>6. l < r /\ mid <= m => Clamp(mid + 1, r) = Clamp(l, r)
      <4>1. (l < r => mid \in l .. r /\ mid < r) /\ l \in Int /\ r \in Int /\ m \in Int
        <5> HIDE DEF mid
        <5> QED BY <3>1, <1>2, <1>3
      <4> HIDE DEF mid
      <4> QED BY ONLY <4>1
    <3>7. l < r /\ m < mid => Clamp(l, mid) = Clamp(l, r)
      <4> SUFFICES ASSUME l < r, m < mid PROVE Clamp(l, mid) = Clamp(l, r)
        OBVIOUS
      <4>1. mid \in l .. r /\ mid < r /\ m + 1 <= mid
        BY <3>1, <1>2, <1>3
      <4>2. CASE m + 1 < l
        <5> HIDE DEF mid
        <5> QED BY <4>2
      <4>3. CASE l <= m + 1
        <5> HIDE DEF mid
        <5> QED BY <4>1, <4>3, <1>2, <1>3
      <4> QED BY <4>2, <4>3, <1>2, <1>3
    <3>8. l >= r => Clamp(l, r) = l
      OBVIOUS
    <3>9. CASE l >= r
      <4> HIDE DEF mid, Clamp, closed, F, D
      <4> QED BY <3>3, <3>4, <3>8, <3>9
    <3>10. CASE l < r
      <4>1. mid \in Int /\ ~(l >= r)
        BY <3>1, <3>10, <1>2
      <4>2. StartAddress(s[mid]) < StartAddress(h) <=> ~(m < mid)
        BY <3>1, <3>2, <3>10, <1>3
      <4> HIDE DEF mid, Clamp, closed, F, D
      <4>3. CASE StartAddress(s[mid]) < StartAddress(h)
        <5>1. mid <= m
          BY <3>2, <3>10, <4>3
        <5> QED BY <3>3, <3>4, <3>5, <3>6, <3>10, <4>1, <4>3, <5>1
      <4>4. CASE ~(StartAddress(s[mid]) < StartAddress(h))
        <5>1. m < mid
          BY <4>2, <4>4
        <5> QED BY <3>3, <3>4, <3>5, <3>7, <3>10, <4>1, <4>4, <5>1
      <4> QED BY <4>3, <4>4
    <3> QED BY <3>9, <3>10, <1>2
  <2>2. \A range \in D : closed[range] = F(closed)[range]
    <3> HIDE DEF closed, F
    <3> QED BY <2>1
  <2> QED BY <2>2
<1>5. search = F(search)
  <2>1. search = CHOOSE f : f = F(f)
    OBVIOUS
  <2> HIDE DEF closed, F, search
  <2> QED BY <1>4, <2>1
<1>6. \A l \in 1 .. n + 1, r \in 1 .. n + 1 : search[<<l, r>>] = Clamp(l, r)
  <2> HIDE DEF search
  <2> DEFINE Wrong(k) == \E l \in 1 .. n + 1, r \in 1 .. n + 1 : k = r - l + 1 /\ l < r /\ search[<<l, r>>] # Clamp(l, r)
             T == {k \in Nat : Wrong(k)}
  <2>1. ASSUME NEW l \in 1 .. n + 1, NEW r \in 1 .. n + 1
        PROVE  search[<<l, r>>] = IF l >= r THEN l
                 ELSE IF StartAddress(s[l + (r - l) \div 2]) < StartAddress(h)
                 THEN search[<<(l + (r - l) \div 2) + 1, r>>] ELSE search[<<l, l + (r - l) \div 2>>]
    <3>1. <<l, r>> \in D
      OBVIOUS
    <3>2. search[<<l, r>>] = F(search)[<<l, r>>]
      <4> HIDE DEF F
      <4> QED BY <1>5
    <3>3. F(search)[<<l, r>>] = IF l >= r THEN l
                 ELSE IF StartAddress(s[l + (r - l) \div 2]) < StartAddress(h)
                 THEN search[<<(l + (r - l) \div 2) + 1, r>>] ELSE search[<<l, l + (r - l) \div 2>>]
      BY <3>1
    <3> HIDE DEF F
    <3> QED BY <3>2, <3>3
  <2>2. ASSUME NEW l \in 1 .. n + 1, NEW r \in 1 .. n + 1, l < r,
               \A i \in 1 .. n + 1, j \in 1 .. n + 1 : j - i < r - l => search[<<i, j>>] = Clamp(i, j)
        PROVE  search[<<l, r>>] = Clamp(l, r)
    <3> DEFINE mid == l + (r - l) \div 2
    <3>1. mid \in l .. r /\ mid \in 1 .. n /\ mid + 1 \in 1 .. n + 1 /\ mid \in 1 .. n + 1 /\ mid < r
      BY Middle, <1>2, <2>2
    <3>2. StartAddress(s[mid]) < StartAddress(h) <=> mid <= m
      BY <3>1, <1>3
    <3>3. search[<<mid + 1, r>>] = Clamp(mid + 1, r) /\ search[<<l, mid>>] = Clamp(l, mid)
      <4>1. r - (mid + 1) < r - l /\ (mid) - l < r - l
        <5> HIDE DEF mid
        <5> QED BY <3>1, <1>2
      <4> HIDE DEF mid, Clamp
      <4> QED BY <2>2, <3>1, <4>1
    <3>8. l < r
      BY <2>2
    <3>4. mid <= m => Clamp(mid + 1, r) = Clamp(l, r)
      <4>1. l < r /\ mid \in l .. r /\ l \in Int /\ r \in Int /\ m \in Int /\ mid < r
        <5> HIDE DEF mid
        <5> QED BY <3>1, <3>8, <1>2, <1>3
      <4> HIDE DEF mid
      <4> QED BY ONLY <4>1
    <3>5. m < mid => Clamp(l, mid) = Clamp(l, r)
      <4>1. l < r /\ mid \in l .. r /\ l \in Int /\ r \in Int /\ m \in Int /\ mid < r
        <5> HIDE DEF mid
        <5> QED BY <3>1, <3>8, <1>2, <1>3
      <4> HIDE DEF mid
      <4> QED BY ONLY <4>1
    <3>6. search[<<l, r>>] = IF mid <= m THEN search[<<mid + 1, r>>] ELSE search[<<l, mid>>]
      <4>1. ~(l >= r)
        BY <2>2, <1>2
      <4> QED BY <2>1, <3>2, <4>1
    <3>7. mid <= m \/ (m < mid /\ ~(mid <= m))
      <4> HIDE DEF mid
      <4> QED BY <3>1, <1>2, <1>3
    <3> HIDE DEF mid, Clamp
    <3> QED BY <3>3, <3>4, <3>5, <3>6, <3>7
  <2>3. T = {}
    <3> SUFFICES ASSUME T # {} PROVE FALSE
      OBVIOUS
    <3>1. PICK k \in T : \A j \in T : k <= j
      <4> HIDE DEF Wrong
      <4>1. T \in SUBSET Nat
        OBVIOUS
      <4> HIDE DEF T
      <4> QED BY <4>1, Least
    <3>2. PICK l \in 1 .. n + 1, r \in 1 .. n + 1 : k = r - l + 1 /\ l < r /\ search[<<l, r>>] # Clamp(l, r)
      BY <3>1
    <3>3. ASSUME NEW i \in 1 .. n + 1, NEW j \in 1 .. n + 1, j - i < r - l, search[<<i, j>>] # Clamp(i, j) PROVE FALSE
      <4>1. CASE i >= j
        <5>1. search[<<i, j>>] = i
          BY <2>1, <4>1
        <5> QED BY <3>3, <4>1, <5>1
      <4>2. CASE i < j
        <5>1. j - i + 1 \in Nat /\ j - i + 1 < k
          BY <3>2, <3>3, <4>2, <1>2
        <5>2. Wrong(j - i + 1)
          BY <3>3, <4>2
        <5>3. j - i + 1 \in T
          <6> HIDE DEF Wrong
          <6> QED BY <5>1, <5>2
        <5> HIDE DEF T
        <5> QED BY <3>1, <3>2, <5>1, <5>3, <1>2
      <4> QED BY <4>1, <4>2, <1>2
    <3>4. search[<<l, r>>] = Clamp(l, r)
      <4> HIDE DEF Clamp
      <4> QED BY <2>2, <3>2, <3>3
    <3> QED BY <3>2, <3>4
  <2> SUFFICES ASSUME NEW l \in 1 .. n + 1, NEW r \in 1 .. n + 1 PROVE search[<<l, r>>] = Clamp(l, r)
    OBVIOUS
  <2>4. CASE l >= r
    BY <2>1, <2>4
  <2>5. CASE l < r
    <3> SUFFICES ASSUME search[<<l, r>>] # Clamp(l, r) PROVE FALSE
      OBVIOUS
    <3>1. Wrong(r - l + 1)
      BY <2>5
    <3>2. r - l + 1 \in Nat
      BY <2>5, <1>2
    <3>3. r - l + 1 \in T
      <4> HIDE DEF Wrong
      <4> QED BY <3>1, <3>2
    <3> QED BY <2>3, <3>3
  <2> QED BY <2>4, <2>5, <1>2
<1>7. search[<<1, n + 1>>] = m + 1
  <2>1. 1 \in 1 .. n + 1 /\ n + 1 \in 1 .. n + 1
    BY <1>2
  <2>2. Clamp(1, n + 1) = m + 1
    BY <1>2, <1>3
  <2> HIDE DEF search, Clamp
  <2> QED BY <1>6, <2>1, <2>2
<1>8. (m + 1) - 1 = m
  BY <1>3, <1>2
<1> HIDE DEF search
<1> QED BY <1>1, <1>3, <1>7, <1>8

-----------------------------------------------------------------------------
(***************************************************************************)
(* Segments and addresses                                                  *)
(***************************************************************************)
\* The segments that are kept of an image are some of those with content, and
\* there are none if the image is not cached.
LEMMA KeptFacts ==
  ASSUME NEW h \in Images
  PROVE  /\ Content(h) \in Seq(Segment)
         /\ Kept(h) = <<>> <=> ~Populates(h)
         /\ \A k \in DOMAIN Kept(h) : k \in DOMAIN Content(h) /\ Kept(h)[k] = Content(h)[k]
<1> DEFINE s == Content(h)
           n == Len(s)
           m == IF n < MaxSegments THEN n ELSE MaxSegments
<1>1. s \in Seq(Segment) /\ MaxSegments \in Nat \ {0}
  BY LinkerAssumption
<1>2. /\ n \in Nat /\ m \in 0 .. n /\ (m = 0 <=> n = 0)
      /\ DOMAIN s = 1 .. n /\ \A k \in 1 .. m : s[k] \in Segment
  <2> HIDE DEF s
  <2> QED BY <1>1
<1>3. Kept(h) = SubSeq(s, 1, m)
  BY DEF Kept
<1>4. Populates(h) <=> n # 0
  <2> HIDE DEF s
  <2> QED BY <1>1 DEF Populates, s
<1> HIDE DEF s
<1>5. Kept(h) \in Seq(Segment) /\ Len(Kept(h)) = m /\ \A k \in 1 .. m : Kept(h)[k] = s[k]
  <2> HIDE DEF n, m
  <2>1. /\ SubSeq(s, 1, m) \in Seq(Segment)
        /\ Len(SubSeq(s, 1, m)) = IF 1 <= m THEN m - 1 + 1 ELSE 0
        /\ \A k \in 1 .. m - 1 + 1 : SubSeq(s, 1, m)[k] = s[1 + k - 1]
    BY ONLY <1>2, SubSeqProperties
  <2> QED BY <1>2, <1>3, <2>1
<1>6. DOMAIN Kept(h) = 1 .. m /\ (Kept(h) = <<>> <=> m = 0)
  <2> HIDE DEF n, m
  <2> QED BY <1>2, <1>5
<1>7. /\ Kept(h) = <<>> <=> ~Populates(h)
      /\ \A k \in DOMAIN Kept(h) : k \in DOMAIN s /\ Kept(h)[k] = s[k]
  <2> HIDE DEF n, m
  <2> QED BY <1>2, <1>4, <1>5, <1>6 DEF n
<1> QED BY <1>1, <1>7 DEF s

\* The range of an image that is cached spans all its segments.
LEMMA BoundFacts ==
  ASSUME NEW h \in Images, Populates(h)
  PROVE  /\ StartAddress(h) \in Nat /\ StartAddress(h) \in Bounds(h)
         /\ \A b \in Bounds(h) : StartAddress(h) <= b
         /\ EndAddress(h) \in Nat
         /\ \A b \in Ends(h) : b <= EndAddress(h)
<1> DEFINE s == Content(h)
           n == Len(s)
<1>1. s \in Seq(Segment) /\ s # <<>>
  BY KeptFacts DEF Populates
<1>2. n \in Nat \ {0} /\ DOMAIN s = 1 .. n /\ \A k \in 1 .. n : s[k].start \in Nat /\ s[k].end \in Nat
  <2> HIDE DEF s
  <2>1. n \in Nat \ {0} /\ DOMAIN s = 1 .. n
    BY <1>1
  <2>2. \A k \in 1 .. n : s[k] \in Segment
    BY <1>1, <2>1
  <2> HIDE DEF n
  <2> QED BY <2>1, <2>2 DEF Segment
<1>3. Bounds(h) \in SUBSET Nat /\ Bounds(h) # {} /\ Ends(h) \in SUBSET Nat /\ Ends(h) # {}
  <2> HIDE DEF n
  <2> QED BY <1>2 DEF Bounds, Ends
<1>4. PICK a \in Bounds(h) : \A b \in Bounds(h) : a <= b
  BY <1>3, Least
<1>5. StartAddress(h) \in Bounds(h) /\ \A b \in Bounds(h) : StartAddress(h) <= b
  BY <1>4 DEF StartAddress
<1> DEFINE T == {m \in Nat : m <= n => \E top \in Nat : \A k \in 1 .. m : s[k].end <= top}
<1>6. T = Nat
  <2> HIDE DEF s
  <2>1. 0 \in T
    BY <1>2
  <2>2. ASSUME NEW m \in T PROVE m + 1 \in T
    <3> SUFFICES ASSUME m + 1 <= n PROVE \E top \in Nat : \A k \in 1 .. m + 1 : s[k].end <= top
      <4>1. m + 1 \in Nat
        OBVIOUS
      <4> HIDE DEF n
      <4> QED BY <4>1
    <3> HIDE DEF n
    <3>1. m \in Nat /\ m <= n /\ m + 1 \in 1 .. n
      BY <1>2
    <3>2. PICK top \in Nat : \A k \in 1 .. m : s[k].end <= top
      BY <3>1
    <3>3. s[m + 1].end \in Nat
      BY <1>2, <3>1
    <3>4. \A k \in 1 .. m + 1 : k \in 1 .. m \/ k = m + 1
      BY <3>1
    <3>5. CASE s[m + 1].end <= top
      BY <3>2, <3>4, <3>5
    <3>6. CASE top <= s[m + 1].end
      <4>1. \A k \in 1 .. m : s[k].end <= s[m + 1].end
        <5> TAKE k \in 1 .. m
        <5>1. k \in 1 .. n
          BY <3>1, <1>2
        <5>2. s[k].end \in Nat
          BY <5>1, <1>2
        <5>3. s[k].end <= top
          BY <3>2
        <5> QED BY <3>3, <3>6, <5>2, <5>3
      <4>2. ASSUME NEW k \in 1 .. m + 1 PROVE s[k].end <= s[m + 1].end
        <5>1. CASE k \in 1 .. m
          BY <4>1, <5>1
        <5>2. CASE k = m + 1
          BY <3>3, <5>2
        <5> QED BY <3>4, <5>1, <5>2
      <4> QED BY <3>3, <4>2
    <3> QED BY <3>3, <3>5, <3>6
  <2>3. T \in SUBSET Nat
    OBVIOUS
  <2> HIDE DEF T
  <2> QED BY <2>1, <2>2, <2>3, Induct
<1>7. PICK top \in Nat : \A k \in 1 .. n : s[k].end <= top
  <2> HIDE DEF s
  <2>1. n \in T
    <3> HIDE DEF T, n
    <3> QED BY <1>2, <1>6
  <2> HIDE DEF n
  <2> QED BY <2>1, <1>2
<1>8. \A b \in Ends(h) : b <= top
  BY <1>2, <1>7 DEF Ends
<1>9. PICK e \in Ends(h) : \A b \in Ends(h) : b <= e
  BY <1>3, <1>8, Largest
<1>10. \A b \in Ends(h) : e >= b
  BY <1>3, <1>9
<1>11. EndAddress(h) \in Ends(h) /\ \A b \in Ends(h) : EndAddress(h) >= b
  BY <1>9, <1>10 DEF EndAddress
<1> QED BY <1>3, <1>5, <1>11

\* An address in the kept segments of an image is in its range.
LEMMA SegmentFacts ==
  ASSUME NEW h \in Images, NEW a \in Nat, InSegments(h, a)
  PROVE  /\ Populates(h) /\ StartAddress(h) <= a /\ a < EndAddress(h)
         /\ \E k \in DOMAIN Content(h) : Content(h)[k].start <= a /\ a < Content(h)[k].end
<1>1. PICK k \in DOMAIN Kept(h) : Kept(h)[k].start <= a /\ a < Kept(h)[k].end
  BY DEF InSegments
<1>2. k \in DOMAIN Content(h) /\ Content(h)[k].start <= a /\ a < Content(h)[k].end
  BY <1>1, KeptFacts
<1>3. Content(h) \in Seq(Segment) /\ Content(h)[k] \in Segment
  BY <1>2, KeptFacts
<1>4. Populates(h)
  <2> HIDE DEF Segment
  <2>1. DOMAIN Content(h) # {}
    BY <1>2
  <2> QED BY <2>1 DEF Populates
<1>5. Content(h)[k].start \in Bounds(h) /\ Content(h)[k].end \in Ends(h)
  BY <1>2 DEF Bounds, Ends
<1>6. StartAddress(h) \in Nat /\ StartAddress(h) <= Content(h)[k].start
      /\ EndAddress(h) \in Nat /\ Content(h)[k].end <= EndAddress(h)
      /\ Content(h)[k].start \in Nat /\ Content(h)[k].end \in Nat
  BY <1>3, <1>4, <1>5, BoundFacts DEF Segment
<1>7. StartAddress(h) <= a /\ a < EndAddress(h)
  BY <1>2, <1>6
<1> QED BY <1>2, <1>4, <1>7

\* The cache and the specification of the lookup agree on what an image covers.
LEMMA SameCovers == ASSUME NEW h, NEW a PROVE Lookup!Covers(h, a) <=> InSegments(h, a)
<1>1. Lookup!Content(h) = Content(h)
  BY DEF Lookup!Content, Content
<1>2. Lookup!Kept(h) = Kept(h)
  BY <1>1 DEF Lookup!Kept, Kept
<1> QED BY <1>2 DEF Lookup!Covers, InSegments

\* The way back from the search meets the entry whose image the address is in.
LEMMA HitsExact ==
  ASSUME NEW s, Sorted(s), NEW a \in Nat, a \in Addresses
  PROVE  /\ Hits(s, a) = {k \in DOMAIN s : InSegments(s[k], a)}
         /\ \A j, k \in Hits(s, a) : j = k
<1>1. /\ s \in Seq(Images) /\ DOMAIN s = 1 .. Len(s) /\ Len(s) \in Nat
      /\ \A k \in DOMAIN s : s[k] \in Images
  BY DEF Sorted
<1>2. /\ BinarySearchCache(s, a) \in 0 .. Len(s)
      /\ \A k \in 1 .. Len(s) : StartAddress(s[k]) <= a <=> k <= BinarySearchCache(s, a)
  BY SearchExact, BoundFacts
<1>3. \A k \in DOMAIN s : InSegments(s[k], a) => StartAddress(s[k]) <= a /\ a < EndAddress(s[k])
  BY <1>1, SegmentFacts
<1>4. Hits(s, a) = {k \in DOMAIN s : InSegments(s[k], a)}
  BY <1>1, <1>2, <1>3 DEF Hits
<1>5. ASSUME NEW j \in Hits(s, a), NEW k \in Hits(s, a) PROVE j = k
  <2>1. s[j] = s[k]
    BY <1>1, <1>4, LinkerAssumption
  <2>2. StartAddress(s[j]) \in Nat /\ StartAddress(s[k]) \in Nat
    BY <1>1, <1>4, BoundFacts DEF Sorted
  <2>3. j \in DOMAIN s /\ k \in DOMAIN s /\ j \in Nat /\ k \in Nat
    BY <1>1, <1>4
  <2>4. ~(j < k) /\ ~(k < j)
    BY <2>1, <2>2, <2>3 DEF Sorted
  <2> QED BY <2>3, <2>4
<1> QED BY <1>4, <1>5

\* linearScanForAddress() finds the image that covers an address, if dyld's list
\* is known.
LEMMA ScanExact ==
  ASSUME NEW a \in Nat, infoArray \in Seq(Images), known \in BOOLEAN
  PROVE  \/ Scan(a) = None /\ (known => \A h \in Loaded : ~InSegments(h, a))
         \/ known /\ Scan(a) \in Loaded /\ InSegments(Scan(a), a)
<1> DEFINE hits == {k \in DOMAIN infoArray : Populates(infoArray[k]) /\ InSegments(infoArray[k], a)}
<1>1. DOMAIN infoArray = 1 .. Len(infoArray) /\ \A k \in DOMAIN infoArray : infoArray[k] \in Images
  OBVIOUS
<1>2. hits = {k \in DOMAIN infoArray : InSegments(infoArray[k], a)}
  BY <1>1, SegmentFacts
<1>3. Scan(a) = IF ~known \/ hits = {} THEN None ELSE infoArray[CHOOSE k \in hits : \A j \in hits : k <= j]
  BY DEF Scan
<1>4. CASE ~known \/ hits = {}
  BY <1>2, <1>3, <1>4 DEF Loaded
<1>5. CASE known /\ hits # {}
  <2>1. hits \in SUBSET Nat
    BY <1>1
  <2>2. PICK m \in hits : \A j \in hits : m <= j
    <3> HIDE DEF hits
    <3> QED BY <1>5, <2>1, Least
  <2>3. (CHOOSE k \in hits : \A j \in hits : k <= j) \in hits
    <3> HIDE DEF hits
    <3> QED BY <2>2
  <2>4. PICK k \in hits : Scan(a) = infoArray[k]
    <3> HIDE DEF hits
    <3> QED BY <1>3, <1>5, <2>3
  <2> QED BY <1>2, <1>5, <2>4 DEF Loaded
<1> QED BY <1>4, <1>5

\* The image that the specification of the lookup names.
LEMMA AtExact ==
  ASSUME NEW a \in Nat, a \in Addresses, infoArray \in Seq(Images)
  PROVE  /\ (\A h \in Loaded : ~InSegments(h, a)) => Lookup!ImageAt(a) = None
         /\ \A h \in Loaded : InSegments(h, a) => Lookup!ImageAt(a) = h
<1> DEFINE image == Lookup!ImageAt(a)
<1>1. \A h \in Loaded : h \in Images
  BY DEF Loaded
<1>2. Lookup!ImageAt(a) = IF \E h \in Loaded : Lookup!Covers(h, a)
                          THEN CHOOSE h \in Loaded : Lookup!Covers(h, a) ELSE Lookup!None
  BY DEF Lookup!ImageAt, Loaded
<1>3. ASSUME \A h \in Loaded : ~InSegments(h, a) PROVE Lookup!ImageAt(a) = None
  BY <1>2, <1>3, SameCovers DEF Lookup!None, None
<1>4. ASSUME NEW h \in Loaded, InSegments(h, a) PROVE Lookup!ImageAt(a) = h
  <2>1. Lookup!Covers(h, a)
    BY <1>4, SameCovers
  <2>2. Lookup!ImageAt(a) \in Loaded /\ Lookup!Covers(Lookup!ImageAt(a), a)
    BY <1>2, <2>1
  <2>3. InSegments(Lookup!ImageAt(a), a)
    BY <2>2, SameCovers
  <2> QED BY <1>1, <1>4, <2>2, <2>3, LinkerAssumption
<1> QED BY <1>3, <1>4

-----------------------------------------------------------------------------
(***************************************************************************)
(* The symbol table, and what is inserted                                  *)
(***************************************************************************)
\* The search of the symbol table ends at a symbol that is the closest before
\* the address, or at none if there is none before it.
LEMMA BestMatchExact ==
  ASSUME NEW h \in Images, NEW a \in Nat
  PROVE  /\ BestMatch(h, a) \in Nat
         /\ BestMatch(h, a) \in IF Lookup!Before(h, a) = {} THEN {0} ELSE Lookup!Closest(h, a)
<1> DEFINE table == Symbols[h]
           n == Len(table)
           Skips(k, b) == \/ table[k].stab \/ table[k].value = 0 \/ a < table[k].value
                          \/ b # 0 /\ (table[b].value = a \/ table[k].value < table[b].value)
           best[k \in 0 .. Len(table)] ==
             IF k = 0 THEN 0
             ELSE LET b == best[k - 1]
                  IN  IF \/ table[k].stab \/ table[k].value = 0 \/ a < table[k].value
                         \/ b # 0 /\ (table[b].value = a \/ table[k].value < table[b].value)
                      THEN b ELSE k
           F(f) == [k \in 0 .. Len(table) |->
             IF k = 0 THEN 0
             ELSE LET b == f[k - 1]
                  IN  IF \/ table[k].stab \/ table[k].value = 0 \/ a < table[k].value
                         \/ b # 0 /\ (table[b].value = a \/ table[k].value < table[b].value)
                      THEN b ELSE k]
           step == [k \in 1 .. n |-> [b \in 0 .. n |-> IF Skips(k, b) THEN b ELSE k]]
<1>1. table \in Seq(Symbol)
  BY LinkerAssumption
<1>2. n \in Nat /\ DOMAIN table = 1 .. n
  BY <1>1
<1>3. \A k \in 1 .. n : table[k] \in Symbol
  <2> HIDE DEF n, table
  <2> QED BY <1>1, <1>2 DEF n
<1>4. \A k \in 1 .. n : table[k].value \in Nat /\ table[k].stab \in BOOLEAN
  <2> HIDE DEF n, table
  <2> QED BY <1>3 DEF Symbol
<1>5. step \in [1 .. n -> [0 .. n -> 0 .. n]]
  <2> HIDE DEF Skips, n, table
  <2> QED BY <1>2
<1>6. PICK f \in [0 .. n -> 0 .. n] : f = [k \in 0 .. n |-> IF k = 0 THEN 0 ELSE step[k][f[k - 1]]]
  <2>1. 0 \in 0 .. n
    BY <1>2
  <2> DEFINE S == 0 .. n
  <2>2. 0 \in S /\ n \in Nat /\ step \in [1 .. n -> [S -> S]]
    <3> HIDE DEF step
    <3> QED BY <1>2, <1>5, <2>1
  <2>3. \E f \in [0 .. n -> S] : f = [k \in 0 .. n |-> IF k = 0 THEN 0 ELSE step[k][f[k - 1]]]
    <3> HIDE DEF step, n, S
    <3> QED BY ONLY <2>2, Chain
  <2> QED BY <2>3
<1>7. f = F(f)
  <2>1. ASSUME NEW k \in 0 .. n PROVE f[k] = F(f)[k]
    <3>1. CASE k = 0
      <4>1. f[k] = 0
        <5> HIDE DEF step
        <5> QED BY <1>6, <3>1
      <4>2. F(f)[k] = 0
        BY <3>1
      <4> QED BY <4>1, <4>2
    <3>2. CASE k # 0
      <4>1. k \in 1 .. n /\ k - 1 \in 0 .. n /\ f[k - 1] \in 0 .. n
        BY <3>2, <1>2
      <4>2. f[k] = step[k][f[k - 1]]
        <5> HIDE DEF step
        <5> QED BY <1>6, <3>2
      <4>3. step[k][f[k - 1]] = IF Skips(k, f[k - 1]) THEN f[k - 1] ELSE k
        <5> HIDE DEF Skips
        <5> QED BY <4>1
      <4>4. F(f)[k] = IF Skips(k, f[k - 1]) THEN f[k - 1] ELSE k
        BY <3>2
      <4> QED BY <4>2, <4>3, <4>4
    <3> QED BY <3>1, <3>2
  <2>2. f \in [0 .. n -> 0 .. n] /\ DOMAIN f = DOMAIN F(f)
    OBVIOUS
  <2> HIDE DEF n
  <2> QED BY <2>1, <2>2 DEF n
<1>8. best = F(best)
  <2>1. best = CHOOSE g : g = F(g)
    OBVIOUS
  <2> HIDE DEF F, best
  <2> QED BY <1>7, <2>1
<1>9. BestMatch(h, a) = best[n]
  BY DEF BestMatch
<1> HIDE DEF best
<1>10. best[0] = 0
  BY <1>8, <1>2
<1>11. ASSUME NEW k \in 1 .. n PROVE best[k] = IF Skips(k, best[k - 1]) THEN best[k - 1] ELSE k
  <2>1. k \in 0 .. n /\ k # 0
    BY <1>2
  <2>2. best[k] = F(best)[k]
    <3> HIDE DEF F
    <3> QED BY <1>8
  <2>3. F(best)[k] = IF Skips(k, best[k - 1]) THEN best[k - 1] ELSE k
    BY <2>1
  <2> HIDE DEF F
  <2> QED BY <2>2, <2>3
<1> DEFINE Counts(k) == ~table[k].stab /\ table[k].value # 0 /\ table[k].value <= a
           Good(k, b) == \/ b = 0 /\ \A j \in 1 .. k : ~Counts(j)
                         \/ b \in 1 .. k /\ Counts(b) /\ \A j \in 1 .. k : Counts(j) => table[j].value <= table[b].value
           T == {k \in Nat : k <= n => Good(k, best[k])}
<1>12. ASSUME NEW k \in Nat, k + 1 <= n, Good(k, best[k]) PROVE Good(k + 1, best[k + 1])
  <2>1. k + 1 \in 1 .. n /\ (k + 1) - 1 = k /\ k <= n
    BY <1>12, <1>2
  <2> DEFINE b == best[k]
             v == table[k + 1].value
  <2>2. best[k + 1] = IF Skips(k + 1, b) THEN b ELSE k + 1
    <3> HIDE DEF Skips
    <3> QED BY <1>11, <2>1
  <2>3. v \in Nat /\ table[k + 1].stab \in BOOLEAN
    BY <1>4, <2>1
  <2>4. \A j \in 1 .. k + 1 : j \in 1 .. k \/ j = k + 1
    BY <1>12
  <2>5. \A j \in 1 .. k : j \in 1 .. n /\ table[j].value \in Nat
    BY <1>4, <2>1, <1>2
  <2>6. CASE b = 0
    <3>1. \A j \in 1 .. k : ~Counts(j)
      <4> HIDE DEF Counts
      <4> QED BY <1>12, <2>6, <1>2
    <3>2. Skips(k + 1, b) <=> ~Counts(k + 1)
      BY <2>3, <2>6
    <3>3. CASE Counts(k + 1)
      <4>1. best[k + 1] = k + 1
        <5> HIDE DEF Skips, Counts
        <5> QED BY <2>2, <3>2, <3>3
      <4>2. \A j \in 1 .. k + 1 : Counts(j) => table[j].value <= table[k + 1].value
        <5> HIDE DEF Counts
        <5> QED BY <2>3, <2>4, <3>1
      <4>3. k + 1 \in 1 .. k + 1
        OBVIOUS
      <4> HIDE DEF Counts
      <4> QED BY <4>1, <4>2, <4>3, <3>3
    <3>4. CASE ~Counts(k + 1)
      <4>1. best[k + 1] = 0
        <5> HIDE DEF Skips, Counts
        <5> QED BY <2>2, <3>2, <3>4, <2>6
      <4> HIDE DEF Counts
      <4> QED BY <4>1, <3>1, <3>4, <2>4
    <3> QED BY <3>3, <3>4
  <2>7. CASE b # 0
    <3>1. b \in 1 .. k /\ Counts(b) /\ \A j \in 1 .. k : Counts(j) => table[j].value <= table[b].value
      <4> HIDE DEF Counts
      <4> QED BY <1>12, <2>7
    <3>2. table[b].value \in Nat /\ table[b].value <= a
      BY <3>1, <2>5
    <3>3. Skips(k + 1, b) => (Counts(k + 1) => v <= table[b].value)
      BY <2>3, <2>7, <3>2
    <3>4. ~Skips(k + 1, b) => Counts(k + 1) /\ table[b].value <= v
      BY <2>3, <2>7, <3>2
    <3>5. CASE Skips(k + 1, b)
      <4>1. best[k + 1] = b
        <5> HIDE DEF Skips
        <5> QED BY <2>2, <3>5
      <4>2. b \in 1 .. k + 1
        BY <3>1
      <4>3. \A j \in 1 .. k + 1 : Counts(j) => table[j].value <= table[b].value
        <5> HIDE DEF Counts, Skips
        <5> QED BY <2>4, <3>1, <3>3, <3>5
      <4> HIDE DEF Counts, Skips
      <4> QED BY <4>1, <4>2, <4>3, <3>1
    <3>6. CASE ~Skips(k + 1, b)
      <4>1. best[k + 1] = k + 1
        <5> HIDE DEF Skips
        <5> QED BY <2>2, <3>6
      <4>2. k + 1 \in 1 .. k + 1
        OBVIOUS
      <4>3. ASSUME NEW j \in 1 .. k + 1, Counts(j) PROVE table[j].value <= table[k + 1].value
        <5>1. CASE j \in 1 .. k
          <6>1. table[j].value <= table[b].value
            <7> HIDE DEF Counts
            <7> QED BY <3>1, <4>3, <5>1
          <6>2. table[b].value <= v
            <7> HIDE DEF Counts, Skips
            <7> QED BY <3>4, <3>6
          <6>3. table[j].value \in Nat /\ table[b].value \in Nat /\ v \in Nat
            <7> HIDE DEF b, v
            <7> QED BY <2>3, <2>5, <3>2, <5>1
          <6>4. \A x, y, z \in Nat : x <= y /\ y <= z => x <= z
            OBVIOUS
          <6> HIDE DEF table, b, v
          <6>5. table[j].value <= v
            BY ONLY <6>1, <6>2, <6>3, <6>4
          <6> QED BY <6>5 DEF v
        <5>2. CASE j = k + 1
          BY <2>3, <5>2
        <5> QED BY <2>4, <5>1, <5>2
      <4> HIDE DEF Counts, Skips
      <4> QED BY <4>1, <4>2, <4>3, <3>4, <3>6
    <3> QED BY <3>5, <3>6
  <2> QED BY <2>6, <2>7
<1>13. T = Nat
  <2>1. 0 \in T
    BY <1>10
  <2>2. \A k \in T : k + 1 \in T
    <3> HIDE DEF Good
    <3> SUFFICES ASSUME NEW k \in T, k + 1 <= n PROVE Good(k + 1, best[k + 1])
      OBVIOUS
    <3>1. k \in Nat /\ k <= n
      BY <1>2
    <3> QED BY <3>1, <1>12
  <2>3. T \in SUBSET Nat
    OBVIOUS
  <2> HIDE DEF T
  <2> QED BY <2>1, <2>2, <2>3, Induct
<1>14. Good(n, best[n])
  <2>1. n \in T
    <3> HIDE DEF T, n
    <3> QED BY <1>13, <1>2
  <2> HIDE DEF Good
  <2> QED BY <1>2, <2>1
<1>15. Lookup!Before(h, a) = {k \in 1 .. n : Counts(k)}
  <2>1. Lookup!Before(h, a) = {k \in DOMAIN table : ~table[k].stab /\ table[k].value # 0 /\ table[k].value <= a}
    BY DEF Lookup!Before
  <2> QED BY <1>2, <2>1
<1>16. CASE best[n] = 0
  <2>1. \A j \in 1 .. n : ~Counts(j)
    <3> HIDE DEF Counts, n
    <3> QED BY <1>14, <1>16, <1>2
  <2> HIDE DEF Counts, n
  <2> QED BY <1>9, <1>15, <1>16, <2>1
<1>17. CASE best[n] # 0
  <2>1. /\ best[n] \in 1 .. n /\ Counts(best[n])
        /\ \A j \in 1 .. n : Counts(j) => table[j].value <= table[best[n]].value
    <3> HIDE DEF Counts, n
    <3> QED BY <1>14, <1>17
  <2>2. best[n] \in Lookup!Before(h, a)
    <3> HIDE DEF Counts, n
    <3> QED BY <1>15, <2>1
  <2>3. \A j \in Lookup!Before(h, a) : Symbols[h][j].value <= Symbols[h][best[n]].value
    <3> HIDE DEF Counts, n
    <3> QED BY <1>15, <2>1
  <2>4. best[n] \in Lookup!Closest(h, a)
    <3> HIDE DEF n
    <3> QED BY <2>2, <2>3 DEF Lookup!Closest
  <2>5. best[n] \in Nat
    <3> HIDE DEF Counts, n
    <3> QED BY <1>2, <2>1
  <2> HIDE DEF n
  <2> QED BY ONLY <1>9, <2>2, <2>4, <2>5
<1> QED BY <1>16, <1>17

\* insertSortedCacheEntry() keeps a cache sorted and within its limit.
LEMMA InsertExact ==
  ASSUME NEW s, Sorted(s), Len(s) <= MaxImages, NEW h \in Images, Populates(h), ~Cached(s, h)
  PROVE  /\ Sorted(InsertSorted(s, h)) /\ Len(InsertSorted(s, h)) <= MaxImages
         /\ \A k \in DOMAIN InsertSorted(s, h) : InsertSorted(s, h)[k] = h \/ Cached(s, InsertSorted(s, h)[k])
<1> DEFINE n == Len(s)
           t == InsertSorted(s, h)
<1>1. /\ s \in Seq(Images) /\ n \in Nat /\ DOMAIN s = 1 .. n /\ MaxImages \in Nat
      /\ \A k \in 1 .. n : s[k] \in Images
  BY LinkerAssumption DEF Sorted
<1>2. /\ \A i \in Images : Populates(i) => StartAddress(i) \in Nat
      /\ StartAddress(h) \in Nat /\ \A k \in 1 .. n : StartAddress(s[k]) \in Nat
  BY <1>1, BoundFacts DEF Sorted
<1>3. CASE n >= MaxImages
  <2>1. t = s
    BY <1>3 DEF InsertSorted
  <2> HIDE DEF t
  <2> QED BY <2>1 DEF Cached, t
<1>4. CASE n < MaxImages
  <2>1. PICK m \in 0 .. n :
          /\ \A k \in 1 .. n : StartAddress(s[k]) < StartAddress(h) <=> k <= m
          /\ t = SubSeq(s, 1, m) \o <<h>> \o SubSeq(s, m + 1, n)
    <3> HIDE DEF t, n
    <3> QED BY <1>1, <1>2, <1>4, InsertSearch DEF t, n
  <2> HIDE DEF t
  <2>2. /\ SubSeq(s, 1, m) \in Seq(Images) /\ Len(SubSeq(s, 1, m)) = m
        /\ \A k \in 1 .. m : SubSeq(s, 1, m)[k] = s[k]
    <3> HIDE DEF n
    <3>1. m \in Int /\ 1 \in Int /\ \A k \in 1 .. m : s[k] \in Images
      BY <1>1
    <3>2. /\ SubSeq(s, 1, m) \in Seq(Images)
          /\ Len(SubSeq(s, 1, m)) = IF 1 <= m THEN m - 1 + 1 ELSE 0
          /\ \A k \in 1 .. m - 1 + 1 : SubSeq(s, 1, m)[k] = s[1 + k - 1]
      BY ONLY <3>1, SubSeqProperties
    <3> QED BY <3>2, <1>1
  <2>3. /\ SubSeq(s, m + 1, n) \in Seq(Images) /\ Len(SubSeq(s, m + 1, n)) = n - m
        /\ \A k \in 1 .. n - m : SubSeq(s, m + 1, n)[k] = s[m + k]
    <3> HIDE DEF n
    <3>1. m + 1 \in Int /\ n \in Int /\ \A k \in m + 1 .. n : s[k] \in Images
      BY <1>1
    <3>2. /\ SubSeq(s, m + 1, n) \in Seq(Images)
          /\ Len(SubSeq(s, m + 1, n)) = IF m + 1 <= n THEN n - (m + 1) + 1 ELSE 0
          /\ \A k \in 1 .. n - (m + 1) + 1 : SubSeq(s, m + 1, n)[k] = s[(m + 1) + k - 1]
      BY ONLY <3>1, SubSeqProperties
    <3> QED BY <3>2, <1>1
  <2> DEFINE l == SubSeq(s, 1, m)
             r == SubSeq(s, m + 1, n)
  <2> HIDE DEF l, r
  <2>4. /\ l \o <<h>> \in Seq(Images) /\ Len(l \o <<h>>) = m + 1
        /\ \A k \in 1 .. m + 1 : (l \o <<h>>)[k] = IF k <= m THEN s[k] ELSE h
    <3>1. /\ l \o <<h>> \in Seq(Images) /\ Len(l \o <<h>>) = Len(l) + Len(<<h>>)
          /\ \A k \in 1 .. Len(l) + Len(<<h>>) : (l \o <<h>>)[k] = IF k <= Len(l) THEN l[k] ELSE <<h>>[k - Len(l)]
      <4>1. l \in Seq(Images) /\ <<h>> \in Seq(Images)
        BY <2>2 DEF l
      <4> QED BY ONLY <4>1, ConcatProperties
    <3>2. Len(<<h>>) = 1 /\ Len(l) = m /\ <<h>>[1] = h
      BY <2>2 DEF l
    <3>3. \A k \in 1 .. m : l[k] = s[k]
      BY <2>2 DEF l
    <3> QED BY <3>1, <3>2, <3>3
  <2>5. /\ t \in Seq(Images) /\ Len(t) = n + 1
        /\ \A k \in 1 .. n + 1 : t[k] = IF k <= m THEN s[k] ELSE IF k = m + 1 THEN h ELSE s[k - 1]
    <3> DEFINE q == l \o <<h>>
    <3> HIDE DEF q
    <3>1. q \in Seq(Images) /\ r \in Seq(Images) /\ Len(q) = m + 1 /\ Len(r) = n - m
      BY <2>3, <2>4 DEF q, r
    <3>2. /\ q \o r \in Seq(Images) /\ Len(q \o r) = Len(q) + Len(r)
          /\ \A k \in 1 .. Len(q) + Len(r) : (q \o r)[k] = IF k <= Len(q) THEN q[k] ELSE r[k - Len(q)]
      BY ONLY <3>1, ConcatProperties
    <3>3. t = q \o r
      BY <2>1 DEF q, l, r
    <3>4. Len(q) + Len(r) = n + 1
      BY <3>1, <1>1
    <3>5. ASSUME NEW k \in 1 .. n + 1 PROVE t[k] = IF k <= m THEN s[k] ELSE IF k = m + 1 THEN h ELSE s[k - 1]
      <4>1. CASE k <= m + 1
        <5>1. t[k] = q[k] /\ k \in 1 .. m + 1
          BY <3>1, <3>2, <3>3, <3>4, <3>5, <4>1
        <5>2. q[k] = IF k <= m THEN s[k] ELSE h
          BY <2>4, <5>1 DEF q
        <5> QED BY <5>1, <5>2
      <4>2. CASE k > m + 1
        <5>1. t[k] = r[k - (m + 1)] /\ k - (m + 1) \in 1 .. n - m
          BY <3>1, <3>2, <3>3, <3>4, <3>5, <4>2, <1>1
        <5>2. r[k - (m + 1)] = s[m + (k - (m + 1))]
          BY <2>3, <5>1 DEF r
        <5>3. m + (k - (m + 1)) = k - 1 /\ ~(k <= m) /\ k # m + 1
          BY <4>2, <1>1
        <5> QED BY <5>1, <5>2, <5>3
      <4> QED BY <4>1, <4>2, <1>1
    <3> QED BY <3>2, <3>3, <3>4, <3>5
  <2>6. \A k \in 1 .. n : k > m => StartAddress(h) < StartAddress(s[k])
    <3> SUFFICES ASSUME NEW k \in 1 .. n, k > m PROVE StartAddress(h) < StartAddress(s[k])
      OBVIOUS
    <3>1. ~(StartAddress(s[k]) < StartAddress(h))
      BY <2>1
    <3>2. s[k] # h /\ Populates(s[k])
      BY <1>1 DEF Cached, Sorted
    <3>3. StartAddress(s[k]) # StartAddress(h)
      BY <1>1, <3>2, LinkerAssumption
    <3> QED BY <1>2, <3>1, <3>3
  <2>7. \A j, k \in 1 .. n : j < k => StartAddress(s[j]) < StartAddress(s[k])
    BY <1>1 DEF Sorted
  <2>8. DOMAIN t = 1 .. n + 1 /\ Len(t) <= MaxImages
    BY <1>1, <1>4, <2>5
  <2>9. \A k \in 1 .. n : Populates(s[k])
    BY <1>1 DEF Sorted
  <2>10. ASSUME NEW k \in 1 .. n + 1 PROVE Populates(t[k]) /\ (t[k] = h \/ Cached(s, t[k]))
    <3>1. k <= m => k \in 1 .. n
      BY <1>1
    <3>2. k > m + 1 => k - 1 \in 1 .. n
      BY <1>1
    <3>3. \A j \in 1 .. n : Cached(s, s[j])
      BY <1>1 DEF Cached
    <3>4. k <= m \/ k = m + 1 \/ k > m + 1
      BY <1>1
    <3>5. t[k] = IF k <= m THEN s[k] ELSE IF k = m + 1 THEN h ELSE s[k - 1]
      BY <2>5
    <3>6. k > m + 1 => ~(k <= m) /\ k # m + 1
      BY <1>1
    <3> HIDE DEF n
    <3> QED BY <2>9, <3>1, <3>2, <3>3, <3>4, <3>5, <3>6
  <2>11. ASSUME NEW j \in 1 .. n + 1, NEW k \in 1 .. n + 1, j < k PROVE StartAddress(t[j]) < StartAddress(t[k])
    <3>1. CASE k <= m
      <4>1. j \in 1 .. n /\ k \in 1 .. n /\ t[j] = s[j] /\ t[k] = s[k]
        BY <1>1, <2>5, <2>11, <3>1
      <4> QED BY <2>7, <2>11, <4>1
    <3>2. CASE k = m + 1
      <4>1. j \in 1 .. n /\ j <= m /\ t[j] = s[j] /\ t[k] = h
        BY <1>1, <2>5, <2>11, <3>2
      <4> QED BY <2>1, <4>1
    <3>3. CASE k > m + 1 /\ j = m + 1
      <4>1. k - 1 \in 1 .. n /\ k - 1 > m /\ t[j] = h /\ t[k] = s[k - 1]
        BY <1>1, <2>5, <2>11, <3>3
      <4> QED BY <2>6, <4>1
    <3>4. CASE k > m + 1 /\ j > m + 1
      <4>1. /\ j - 1 \in 1 .. n /\ k - 1 \in 1 .. n /\ j - 1 < k - 1
            /\ t[j] = s[j - 1] /\ t[k] = s[k - 1]
        BY <1>1, <2>5, <2>11, <3>4
      <4> QED BY <2>7, <4>1
    <3>5. CASE k > m + 1 /\ j <= m
      <4>1. /\ j \in 1 .. n /\ k - 1 \in 1 .. n /\ j < k - 1
            /\ t[j] = s[j] /\ t[k] = s[k - 1]
        BY <1>1, <2>5, <2>11, <3>5
      <4> QED BY <2>7, <4>1
    <3> QED BY <1>1, <3>1, <3>2, <3>3, <3>4, <3>5
  <2>12. Sorted(t)
    BY <2>5, <2>8, <2>10, <2>11 DEF Sorted
  <2> QED BY <2>8, <2>10, <2>12 DEF t
<1> QED BY <1>1, <1>3, <1>4

\* What Put() leaves in the image cache
LEMMA PutExact ==
  ASSUME LinkerInv, NEW c \in Callers, Put(c)
  PROVE  Sorted(images') /\ Len(images') <= MaxImages /\ \A k \in DOMAIN images' : images'[k] \in Loaded
<1> DEFINE n == Len(new[c])
           S == {s \in Seq(Images) : Sorted(s) /\ Len(s) <= MaxImages /\ \A k \in DOMAIN s : s[k] \in Loaded}
           inserted[k \in 0 .. Len(new[c])] ==
             IF k = 0 THEN images
             ELSE IF \/ ~Populates(new[c][k])
                     \/ request[c] = Nothing /\ Cached(inserted[k - 1], new[c][k])
                  THEN inserted[k - 1]
                  ELSE InsertSorted(inserted[k - 1], new[c][k])
           Make(k, s) == IF \/ ~Populates(new[c][k])
                            \/ request[c] = Nothing /\ Cached(s, new[c][k])
                         THEN s ELSE InsertSorted(s, new[c][k])
           F(f) == [k \in 0 .. n |-> IF k = 0 THEN images ELSE Make(k, f[k - 1])]
           Stays(k, s) == ~Populates(new[c][k]) \/ Cached(s, new[c][k])
           step == [k \in 1 .. n |-> [s \in S |-> IF Stays(k, s) THEN s ELSE InsertSorted(s, new[c][k])]]
<1>1. images' = inserted[n]
  BY DEF Put
<1>2. new[c] \in Seq(Images) /\ n \in Nat /\ \A k \in 1 .. n : new[c][k] \in Images /\ new[c][k] \in Loaded
  BY DEF LinkerInv, LinkerTypeOK, Entries
<1>3. images \in S
  BY DEF LinkerInv, LinkerTypeOK, Entries, Sorted
<1>4. ASSUME NEW k \in 1 .. n, NEW s \in S, ~Stays(k, s) PROVE InsertSorted(s, new[c][k]) \in S
  <2> DEFINE h == new[c][k]
             t == InsertSorted(s, h)
  <2>1. h \in Images /\ h \in Loaded /\ Populates(h) /\ ~Cached(s, h)
    BY <1>2, <1>4
  <2>2. Sorted(s) /\ Len(s) <= MaxImages /\ \A j \in DOMAIN s : s[j] \in Loaded
    OBVIOUS
  <2>3. Sorted(t) /\ Len(t) <= MaxImages /\ \A j \in DOMAIN t : t[j] = h \/ Cached(s, t[j])
    <3> HIDE DEF h, t
    <3> QED BY <2>1, <2>2, InsertExact DEF t
  <2>4. \A j \in DOMAIN t : t[j] \in Loaded
    <3> HIDE DEF h, t
    <3> QED BY <2>1, <2>2, <2>3 DEF Cached
  <2>5. t \in Seq(Images)
    <3> HIDE DEF h, t
    <3> QED BY <2>3 DEF Sorted
  <2> HIDE DEF h, t
  <2>6. t \in S
    BY <2>3, <2>4, <2>5
  <2> QED BY <2>6 DEF h, t
<1>5. step \in [1 .. n -> [S -> S]]
  <2> HIDE DEF S, Stays, n
  <2> QED BY <1>4
<1>6. PICK f \in [0 .. n -> S] : f = [k \in 0 .. n |-> IF k = 0 THEN images ELSE step[k][f[k - 1]]]
  <2>1. n \in Nat /\ images \in S /\ step \in [1 .. n -> [S -> S]]
    <3> HIDE DEF step, S, n
    <3> QED BY <1>2, <1>3, <1>5
  <2> HIDE DEF step, S, n
  <2> QED BY ONLY <2>1, Chain
<1>7. ASSUME NEW k \in 1 .. n, request[c] # Nothing PROVE n = 1 /\ k = 1 /\ ~Cached(images, new[c][k])
  <2>1. at[c] = "put"
    BY DEF Put, Runs
  <2>2. Len(new[c]) <= 1 /\ \A j \in DOMAIN new[c] : ~Cached(images, new[c][j])
    BY <1>7, <2>1 DEF LinkerInv, Entries, Looking
  <2>3. k \in DOMAIN new[c]
    BY <1>2
  <2>4. n \in Nat /\ n <= 1 /\ k \in 1 .. n
    BY <1>2, <2>2
  <2>5. n = 1 /\ k = 1
    <3> HIDE DEF n
    <3> QED BY <2>4
  <2> QED BY <2>2, <2>3, <2>5
<1>8. f = F(f)
  <2>1. ASSUME NEW k \in 0 .. n PROVE f[k] = F(f)[k]
    <3>1. CASE k = 0
      <4>1. f[k] = images
        <5> HIDE DEF step
        <5> QED BY <1>6, <3>1
      <4>2. F(f)[k] = images
        BY <3>1
      <4> QED BY <4>1, <4>2
    <3>2. CASE k # 0
      <4>1. k \in 1 .. n /\ k - 1 \in 0 .. n /\ f[k - 1] \in S
        <5> HIDE DEF S, step, F, n
        <5> QED BY <1>2, <3>2
      <4>2. f[k] = step[k][f[k - 1]]
        <5> HIDE DEF step, S
        <5> QED BY <1>6, <3>2
      <4>3. step[k][f[k - 1]] = IF Stays(k, f[k - 1]) THEN f[k - 1] ELSE InsertSorted(f[k - 1], new[c][k])
        <5> HIDE DEF Stays, S
        <5> QED BY <4>1
      <4>4. F(f)[k] = Make(k, f[k - 1])
        <5> HIDE DEF Make, n
        <5> QED BY <3>2
      <4>5. request[c] # Nothing => ~Cached(f[k - 1], new[c][k])
        <5> SUFFICES ASSUME request[c] # Nothing PROVE ~Cached(f[k - 1], new[c][k])
          OBVIOUS
        <5>1. k = 1 /\ ~Cached(images, new[c][k])
          <6> HIDE DEF S, step, F, n
          <6> QED BY <1>7, <4>1
        <5>2. f[0] = images
          <6>1. 0 \in 0 .. n
            BY <1>2
          <6> HIDE DEF step, S, n, F
          <6> QED BY <1>6, <6>1
        <5>3. k - 1 = 0
          BY <5>1
        <5> QED BY ONLY <5>1, <5>2, <5>3
      <4>6. Make(k, f[k - 1]) = IF Stays(k, f[k - 1]) THEN f[k - 1] ELSE InsertSorted(f[k - 1], new[c][k])
        <5>1. CASE request[c] = Nothing
          BY <5>1
        <5>2. CASE request[c] # Nothing
          BY <4>5, <5>2
        <5> QED BY <5>1, <5>2
      <4> HIDE DEF Make, Stays, F, step
      <4> QED BY <4>2, <4>3, <4>4, <4>6
    <3> QED BY <3>1, <3>2
  <2>2. f \in [0 .. n -> S] /\ DOMAIN f = 0 .. n /\ DOMAIN F(f) = 0 .. n
    <3> HIDE DEF S
    <3> QED OBVIOUS
  <2>3. F(f) = [k \in 0 .. n |-> F(f)[k]]
    OBVIOUS
  <2> HIDE DEF n, S, F
  <2> QED BY <2>1, <2>2, <2>3
<1>9. inserted = F(inserted)
  <2>1. inserted = CHOOSE g : g = F(g)
    OBVIOUS
  <2> HIDE DEF F, inserted
  <2> QED BY <1>8, <2>1
<1> HIDE DEF inserted
<1> DEFINE T == {k \in Nat : k <= n => inserted[k] = f[k]}
<1>10. T = Nat
  <2>1. 0 \in T
    <3>1. F(inserted)[0] = images /\ F(f)[0] = images
      BY <1>2
    <3>2. inserted[0] = f[0]
      <4> HIDE DEF F
      <4> QED BY <1>8, <1>9, <3>1
    <3> QED BY <3>2
  <2>2. ASSUME NEW k \in T PROVE k + 1 \in T
    <3> SUFFICES ASSUME k + 1 <= n PROVE inserted[k + 1] = f[k + 1]
      <4> k + 1 \in Nat
        OBVIOUS
      <4> HIDE DEF n
      <4> QED OBVIOUS
    <3>1. k \in Nat /\ k <= n /\ inserted[k] = f[k] /\ k + 1 \in 0 .. n /\ (k + 1) - 1 = k /\ k + 1 # 0
      BY <1>2
    <3>2. F(inserted)[k + 1] = Make(k + 1, inserted[k]) /\ F(f)[k + 1] = Make(k + 1, f[k])
      <4> HIDE DEF Make, n
      <4> QED BY <3>1
    <3> HIDE DEF F, Make
    <3> QED BY <1>8, <1>9, <3>1, <3>2
  <2>3. T \in SUBSET Nat
    OBVIOUS
  <2> HIDE DEF T
  <2> QED BY <2>1, <2>2, <2>3, Induct
<1>11. inserted[n] = f[n] /\ f[n] \in S
  <2>1. n \in T /\ n <= n /\ n \in 0 .. n
    <3> HIDE DEF T, n
    <3> QED BY <1>10, <1>2
  <2>2. inserted[n] = f[n]
    <3> HIDE DEF n, S, F
    <3> QED BY <2>1
  <2>3. f[n] \in S
    <3> HIDE DEF n, S, F, T
    <3> QED BY <2>1
  <2> QED BY <2>2, <2>3
<1>12. images' \in S
  <2> HIDE DEF S, n
  <2> QED BY <1>1, <1>11
<1> QED BY <1>12

-----------------------------------------------------------------------------
(***************************************************************************)
(* What the operations do                                                  *)
(***************************************************************************)
\* Requests are told apart by their operation.
LEMMA RequestFacts ==
  ASSUME NEW r \in Requests
  PROVE  /\ r # Nothing
         /\ Op(r) \in {"dladdr", "unwind", "header"}
         /\ Op(r) = "header" => Arg(r) \in Images
         /\ Op(r) # "header" => Arg(r) \in Addresses /\ Arg(r) \in Nat
<1>1. Addresses \subseteq Nat
  BY LinkerAssumption
<1>2. CASE r \in {"dladdr", "unwind"} \X Addresses
  <2>1. PICK x \in {"dladdr", "unwind"}, a \in Addresses : r = <<x, a>>
    BY <1>2
  <2>2. r # Nothing
    BY <2>1 DEF Nothing
  <2> QED BY <1>1, <2>1, <2>2 DEF Op, Arg
<1>3. CASE r \in {"header"} \X Images
  BY <1>3 DEF Op, Arg, Nothing
<1> QED BY <1>2, <1>3 DEF Requests

\* What a lookup of an address finds
LEMMA LookedUp ==
  ASSUME LinkerInv, NEW c \in Callers, LookUpAddress(c)
  PROVE  /\ request[c] \in Requests /\ Op(request[c]) \in {"dladdr", "unwind"}
         /\ \E h \in Loaded \cup {None}, full \in BOOLEAN :
              /\ h = None => (known => \A g \in Loaded : ~InSegments(g, Arg(request[c])))
              /\ h # None => known /\ InSegments(h, Arg(request[c]))
              /\ found' = [found EXCEPT ![c] = IF Op(request[c]) = "dladdr" THEN Symbolicated(h, Arg(request[c]))
                                                                              ELSE UnwindAnswer(h, full)]
              /\ \/ new' = [new EXCEPT ![c] = <<>>]
                 \/ h # None /\ "images" \in holds[c] /\ ~Cached(images, h) /\ new' = [new EXCEPT ![c] = <<h>>]
<1> DEFINE a    == Arg(request[c])
           held == "images" \in holds[c]
           hits == IF held THEN Hits(images, a) ELSE {}
           h    == IF hits # {} THEN images[CHOOSE k \in hits : \A j \in hits : k >= j] ELSE Scan(a)
           full == held /\ hits = {} /\ Len(images) >= MaxImages
<1>1. request[c] \in Requests /\ request[c] # Nothing /\ Op(request[c]) # "header"
  BY DEF LinkerInv, LinkerTypeOK, LookUpAddress
<1>2. Op(request[c]) \in {"dladdr", "unwind"} /\ a \in Addresses /\ a \in Nat
  BY <1>1, RequestFacts
<1>3. found' = [found EXCEPT ![c] = IF Op(request[c]) = "dladdr" THEN Symbolicated(h, a) ELSE UnwindAnswer(h, full)]
  <2>1. found' = [found EXCEPT ![c] = CASE Op(request[c]) = "dladdr" -> Symbolicated(h, a)
                                        [] Op(request[c]) = "unwind" -> UnwindAnswer(h, full)]
    BY DEF LookUpAddress
  <2> HIDE DEF h, a, full
  <2> QED BY <1>2, <2>1
<1>4. new' = [new EXCEPT ![c] = IF held /\ hits = {} /\ h # None THEN <<h>> ELSE <<>>]
  BY DEF LookUpAddress
<1>5. /\ Sorted(images) /\ \A k \in DOMAIN images : images[k] \in Loaded
      /\ infoArray \in Seq(Images) /\ known \in BOOLEAN /\ (held => known)
  BY DEF LinkerInv, LinkerTypeOK, Entries, SetUp, Present
<1>6. CASE hits = {}
  <2>1. h = Scan(a)
    BY <1>6
  <2>2. \/ h = None /\ (known => \A g \in Loaded : ~InSegments(g, a))
        \/ known /\ h \in Loaded /\ InSegments(h, a)
    <3> HIDE DEF h, a
    <3> QED BY <1>2, <1>5, <2>1, ScanExact
  <2>3. None \notin Loaded
    BY <1>5, LinkerAssumption DEF Loaded
  <2>4. held /\ h # None => ~Cached(images, h)
    <3> SUFFICES ASSUME held, h # None, NEW k \in DOMAIN images, images[k] = h PROVE FALSE
      BY DEF Cached
    <3>1. Hits(images, a) = {j \in DOMAIN images : InSegments(images[j], a)}
      <4> HIDE DEF a
      <4> QED BY <1>2, <1>5, HitsExact
    <3>2. Hits(images, a) = {}
      BY <1>6
    <3>3. ~InSegments(h, a)
      <4> HIDE DEF h, a
      <4> QED BY <3>1, <3>2
    <3> HIDE DEF h, a
    <3> QED BY <2>2, <3>3
  <2>5. h \in Loaded \cup {None} /\ full \in BOOLEAN
    <3> HIDE DEF h, a
    <3> QED BY <2>2
  <2> HIDE DEF h, a, full, held, hits
  <2>6. \/ new' = [new EXCEPT ![c] = <<>>]
        \/ h # None /\ held /\ ~Cached(images, h) /\ new' = [new EXCEPT ![c] = <<h>>]
    BY <1>4, <2>4
  <2> QED BY <1>1, <1>2, <1>3, <2>2, <2>3, <2>5, <2>6 DEF a, held
<1>7. CASE hits # {}
  <2>1. held /\ hits = Hits(images, a)
    BY <1>7
  <2>2. /\ hits = {j \in DOMAIN images : InSegments(images[j], a)}
        /\ \A j, k \in hits : j = k
    <3> HIDE DEF a, hits
    <3> QED BY <1>2, <1>5, <2>1, HitsExact
  <2>3. PICK k \in hits : TRUE
    BY <1>7
  <2>4. k \in Int
    <3> HIDE DEF a, hits
    <3> QED BY <1>5, <2>2, <2>3 DEF Sorted
  <2>5. \A j \in hits : k >= j
    <3> HIDE DEF a, hits
    <3> QED BY <2>2, <2>4
  <2>6. (CHOOSE i \in hits : \A j \in hits : i >= j) = k
    <3> HIDE DEF a, hits
    <3> QED BY <2>2, <2>5
  <2>7. h = images[k]
    <3> HIDE DEF a, hits
    <3> QED BY <1>7, <2>6 DEF h
  <2>8. h \in Loaded /\ InSegments(h, a) /\ known
    <3> HIDE DEF h, a, hits
    <3> QED BY <1>5, <2>1, <2>2, <2>3, <2>7
  <2>9. h # None
    <3> HIDE DEF h, a, hits
    <3> QED BY <1>5, <2>8, LinkerAssumption DEF Loaded
  <2>10. full = FALSE
    BY <1>7
  <2> HIDE DEF h, a, full, held, hits
  <2>11. new' = [new EXCEPT ![c] = <<>>]
    BY <1>4, <1>7
  <2>12. h \in Loaded \cup {None} /\ full \in BOOLEAN
    BY <2>8, <2>10
  <2> QED BY <1>1, <1>2, <1>3, <2>8, <2>9, <2>11, <2>12 DEF a
<1> QED BY <1>6, <1>7

\* What ksdl_dladdr_uncached() returns
LEMMA SymbolicatedFacts ==
  ASSUME NEW h \in Images \cup {None}, NEW a \in Nat
  PROVE  \/ Symbolicated(h, a) = No /\ (h = None \/ h \in Unlinked)
         \/ /\ h \in Images /\ h \notin Unlinked
            /\ Symbolicated(h, a) = <<"true", h, BestMatch(h, a)>>
            /\ Symbolicated(h, a) \in {"true"} \X Images \X Nat
<1>1. CASE h = None \/ h \in Unlinked
  BY <1>1 DEF Symbolicated
<1>2. CASE ~(h = None \/ h \in Unlinked)
  <2>1. BestMatch(h, a) \in Nat
    BY <1>2, BestMatchExact
  <2> QED BY <1>2, <2>1 DEF Symbolicated
<1> QED BY <1>1, <1>2

\* What dyld adds at once is a sequence of images.
LEMMA BatchFacts ==
  ASSUME NEW b \in Batches
  PROVE  b \in Seq(Images)
<1>1. CASE b \in {<<h>> : h \in Images}
  <2>1. PICK h \in Images : b = <<h>>
    BY <1>1
  <2> QED BY <2>1
<1>2. CASE b \in Images \X Images
  <2>1. PICK g \in Images, h \in Images : b = <<g, h>>
    BY <1>2
  <2> QED BY <2>1
<1> QED BY <1>1, <1>2 DEF Batches

\* What Load() does to dyld's list
LEMMA LoadFacts ==
  ASSUME LinkerInv, NEW c, NEW b \in Batches, Load(c, b)
  PROVE  /\ \/ UNCHANGED <<at, new>>
            \/ at' = [at EXCEPT ![c] = "images"] /\ new' = [new EXCEPT ![c] = b]
         /\ infoArray' \in Seq(Images) /\ Loaded \subseteq Loaded'
         /\ \A k \in DOMAIN b : b[k] \in Loaded'
<1>1. infoArray \in Seq(Images) /\ b \in Seq(Images) /\ infoArray' = infoArray \o b
  BY BatchFacts DEF LinkerInv, LinkerTypeOK, Load
<1>2. /\ infoArray \o b \in Seq(Images)
      /\ Len(infoArray \o b) = Len(infoArray) + Len(b)
      /\ \A k \in 1 .. Len(infoArray) + Len(b) :
           (infoArray \o b)[k] = IF k <= Len(infoArray) THEN infoArray[k] ELSE b[k - Len(infoArray)]
  BY ONLY <1>1, ConcatProperties
<1>3. ASSUME NEW k \in DOMAIN infoArray PROVE infoArray[k] \in Loaded'
  <2>1. k \in 1 .. Len(infoArray) + Len(b) /\ k <= Len(infoArray) /\ k \in DOMAIN (infoArray \o b)
    BY <1>1, <1>2
  <2> QED BY <1>1, <1>2, <2>1 DEF Loaded
<1>4. ASSUME NEW k \in DOMAIN b PROVE b[k] \in Loaded'
  <2> DEFINE j == k + Len(infoArray)
  <2>1. /\ j \in 1 .. Len(infoArray) + Len(b) /\ ~(j <= Len(infoArray)) /\ j \in DOMAIN (infoArray \o b)
        /\ j - Len(infoArray) = k
    BY <1>1, <1>2
  <2> HIDE DEF j
  <2> QED BY <1>1, <1>2, <2>1 DEF Loaded
<1>5. UNCHANGED <<at, new>> \/ (at' = [at EXCEPT ![c] = "images"] /\ new' = [new EXCEPT ![c] = b])
  BY DEF Load, Goto
<1>6. infoArray' \in Seq(Images)
  BY <1>1, <1>2
<1>7. Loaded \subseteq Loaded'
  BY <1>3 DEF Loaded
<1> QED BY <1>4, <1>5, <1>6, <1>7

\* A hit in the symbol cache is counted, and nothing else of the cache changes.
LEMMA SearchFacts ==
  ASSUME LinkerInv, NEW c \in Callers, Search(c)
  PROVE  \/ UNCHANGED <<symbols, found>> /\ Goto(c, "images")
         \/ \E k \in DOMAIN symbols :
              /\ symbols[k].address = Arg(request[c]) /\ symbols[k].found \in {"true"} \X Images \X Nat
              /\ found' = [found EXCEPT ![c] = symbols[k].found] /\ Goto(c, "store")
              /\ symbols' \in Seq(Entry) /\ DOMAIN symbols' = DOMAIN symbols /\ Len(symbols') = Len(symbols)
              /\ \A j \in DOMAIN symbols : /\ symbols'[j].address = symbols[j].address
                                           /\ symbols'[j].found = symbols[j].found
<1> DEFINE hits == {k \in DOMAIN symbols : symbols[k].address = Arg(request[c])}
<1>1. CASE hits = {}
  BY <1>1 DEF Search
<1>2. CASE hits # {}
  <2>1. PICK k \in hits : /\ found' = [found EXCEPT ![c] = symbols[k].found] /\ Goto(c, "store")
                          /\ symbols' = [symbols EXCEPT ![k].hits = IF @ < MaxHits THEN @ + 1 ELSE @]
    BY <1>2 DEF Search
  <2>2. symbols \in Seq(Entry) /\ MaxHits \in Nat \ {0}
    BY LinkerAssumption DEF LinkerInv, LinkerTypeOK, Entry
  <2>3. /\ DOMAIN symbols = 1 .. Len(symbols) /\ Len(symbols) \in Nat
        /\ \A j \in DOMAIN symbols : symbols[j] \in Entry
    BY <2>2
  <2>4. \A j \in DOMAIN symbols : /\ symbols[j].address \in Addresses /\ symbols[j].found \in {"true"} \X Images \X Nat
                                  /\ symbols[j].hits \in 1 .. MaxHits
                                  /\ symbols[j] = [address |-> symbols[j].address, found |-> symbols[j].found,
                                                   hits |-> symbols[j].hits]
    BY <2>3 DEF Entry
  <2> DEFINE e == [symbols[k] EXCEPT !.hits = IF @ < MaxHits THEN @ + 1 ELSE @]
  <2>5. symbols' = [symbols EXCEPT ![k] = e]
    BY <2>1
  <2>6. e.address = symbols[k].address /\ e.found = symbols[k].found /\ e \in Entry
    <3>1. e = [address |-> symbols[k].address, found |-> symbols[k].found,
               hits |-> IF symbols[k].hits < MaxHits THEN symbols[k].hits + 1 ELSE symbols[k].hits]
      BY <2>4
    <3>2. (IF symbols[k].hits < MaxHits THEN symbols[k].hits + 1 ELSE symbols[k].hits) \in 1 .. MaxHits
      BY <2>2, <2>4
    <3> QED BY <2>4, <3>1, <3>2 DEF Entry
  <2> HIDE DEF e
  <2>7. symbols' \in Seq(Entry) /\ DOMAIN symbols' = DOMAIN symbols /\ Len(symbols') = Len(symbols)
    BY <2>2, <2>3, <2>5, <2>6
  <2>8. \A j \in DOMAIN symbols : /\ symbols'[j].address = symbols[j].address
                                  /\ symbols'[j].found = symbols[j].found
    BY <2>5, <2>6
  <2> QED BY <2>1, <2>4, <2>7, <2>8
<1> QED BY <1>1, <1>2

\* What Store() makes of the symbol cache: the same, or one entry is added or
\* takes the place of another one.
LEMMA StoreFacts ==
  ASSUME LinkerInv, NEW c \in Callers, Store(c)
  PROVE  \/ UNCHANGED symbols
         \/ /\ found[c] \notin {Nothing, No}
            /\ \A k \in DOMAIN symbols : symbols[k].address # Arg(request[c])
            /\ symbols' \in Seq(Entry) /\ Len(symbols') <= MaxSymbols
            /\ \E v \in DOMAIN symbols' :
                 /\ symbols'[v].address = Arg(request[c]) /\ symbols'[v].found = found[c]
                 /\ \A k \in DOMAIN symbols' \ {v} : k \in DOMAIN symbols /\ symbols'[k] = symbols[k]
<1> DEFINE entry == [address |-> Arg(request[c]), found |-> found[c], hits |-> 1]
<1> SUFFICES ASSUME symbols' # symbols
             PROVE  /\ found[c] \notin {Nothing, No}
                    /\ \A k \in DOMAIN symbols : symbols[k].address # Arg(request[c])
                    /\ symbols' \in Seq(Entry) /\ Len(symbols') <= MaxSymbols
                    /\ \E v \in DOMAIN symbols' :
                         /\ symbols'[v].address = Arg(request[c]) /\ symbols'[v].found = found[c]
                         /\ \A k \in DOMAIN symbols' \ {v} : k \in DOMAIN symbols /\ symbols'[k] = symbols[k]
  OBVIOUS
<1>1. /\ found[c] # No /\ \A k \in DOMAIN symbols : symbols[k].address # Arg(request[c])
      /\ Len(symbols) < MaxSymbols => symbols' = Append(symbols, entry)
      /\ ~(Len(symbols) < MaxSymbols) => symbols' = [symbols EXCEPT ![Victim] = entry]
  <2> DEFINE hit == \E k \in DOMAIN symbols : symbols[k].address = Arg(request[c])
  <2>1. symbols' = IF found[c] = No \/ hit THEN symbols
                   ELSE IF Len(symbols) < MaxSymbols THEN Append(symbols, entry)
                   ELSE [symbols EXCEPT ![Victim] = entry]
    BY DEF Store
  <2>2. found[c] # No /\ ~hit
    <3> HIDE DEF entry, hit
    <3> QED BY <2>1
  <2> HIDE DEF entry, hit
  <2>3. Len(symbols) < MaxSymbols => symbols' = Append(symbols, entry)
    BY <2>1, <2>2
  <2>4. ~(Len(symbols) < MaxSymbols) => symbols' = [symbols EXCEPT ![Victim] = entry]
    BY <2>1, <2>2
  <2> QED BY <2>2, <2>3, <2>4 DEF hit
<1>2. /\ at[c] = "store" /\ request[c] # Nothing /\ Op(request[c]) = "dladdr" /\ found[c] # Nothing
      /\ "symbols" \in holds[c] /\ request[c] \in Requests
  BY DEF Store, Runs, LinkerInv, Places, LinkerTypeOK, Looking
<1>3. Arg(request[c]) \in Addresses /\ Genuine(Arg(request[c]), found[c])
  BY <1>1, <1>2, RequestFacts DEF LinkerInv, Answers
<1>4. infoArray \in Seq(Images) /\ Loaded \subseteq Images
  BY DEF LinkerInv, LinkerTypeOK, Loaded
<1>5. found[c] \in {"true"} \X Images \X Nat
  <2>1. PICK h \in Loaded : found[c] = <<"true", h, BestMatch(h, Arg(request[c]))>>
    BY <1>3 DEF Genuine
  <2>2. BestMatch(h, Arg(request[c])) \in Nat
    BY <1>3, <1>4, BestMatchExact, LinkerAssumption
  <2> QED BY <1>4, <2>1, <2>2
<1>6. MaxHits \in Nat \ {0} /\ MaxSymbols \in Nat \ {0}
  BY LinkerAssumption
<1>7. entry \in Entry /\ entry.address = Arg(request[c]) /\ entry.found = found[c]
  BY <1>3, <1>5, <1>6 DEF Entry
<1> HIDE DEF entry
<1>8. symbols \in Seq(Entry) /\ Len(symbols) <= MaxSymbols
  BY DEF LinkerInv, LinkerTypeOK, Entry
<1>9. Len(symbols) \in Nat /\ DOMAIN symbols = 1 .. Len(symbols)
  BY <1>8
<1>10. CASE Len(symbols) < MaxSymbols
  <2>1. /\ symbols' \in Seq(Entry) /\ Len(symbols') = Len(symbols) + 1
        /\ \A i \in 1 .. Len(symbols) : symbols'[i] = symbols[i]
        /\ symbols'[Len(symbols) + 1] = entry
    BY <1>1, <1>7, <1>8, <1>10, AppendProperties
  <2> DEFINE v == Len(symbols) + 1
  <2>2. DOMAIN symbols' = 1 .. v /\ v \in DOMAIN symbols' /\ Len(symbols') <= MaxSymbols
    BY <1>6, <1>9, <1>10, <2>1
  <2>3. \A k \in DOMAIN symbols' \ {v} : k \in DOMAIN symbols /\ symbols'[k] = symbols[k]
    BY <1>9, <2>1, <2>2
  <2> HIDE DEF v
  <2> QED BY <1>1, <1>2, <1>7, <2>1, <2>2, <2>3 DEF v
<1>11. CASE Len(symbols) >= MaxSymbols
  <2>1. Victim \in DOMAIN symbols
    <3> DEFINE least == {k \in DOMAIN symbols : /\ symbols[k].hits < MaxHits
                                                /\ \A j \in DOMAIN symbols : symbols[k].hits <= symbols[j].hits}
    <3>1. Victim = IF least = {} THEN 1 ELSE CHOOSE k \in least : \A j \in least : k <= j
      BY DEF Victim
    <3>2. 1 \in DOMAIN symbols
      BY <1>6, <1>9, <1>11
    <3>3. CASE least = {}
      BY <3>1, <3>2, <3>3
    <3>4. CASE least # {}
      <4>1. least \in SUBSET Nat
        BY <1>9
      <4>2. PICK m \in least : \A j \in least : m <= j
        <5> HIDE DEF least
        <5> QED BY <3>4, <4>1, Least
      <4>3. Victim \in least
        <5> HIDE DEF least
        <5> QED BY <3>1, <3>4, <4>2
      <4> QED BY <4>3
    <3> QED BY <3>3, <3>4
  <2>2. symbols' = [symbols EXCEPT ![Victim] = entry]
    <3>1. ~(Len(symbols) < MaxSymbols)
      BY <1>6, <1>9, <1>11
    <3> QED BY <1>1, <3>1
  <2>3. symbols' \in Seq(Entry) /\ Len(symbols') = Len(symbols) /\ DOMAIN symbols' = DOMAIN symbols
    BY <1>7, <1>8, <1>9, <2>1, <2>2
  <2>4. symbols'[Victim] = entry /\ \A k \in DOMAIN symbols \ {Victim} : symbols'[k] = symbols[k]
    BY <2>1, <2>2
  <2> QED BY <1>1, <1>2, <1>7, <1>8, <2>1, <2>3, <2>4
<1> QED BY <1>6, <1>9, <1>10, <1>11

\* The image that the lookup of a header is for, if it is to be inserted
LEMMA HeaderFacts ==
  ASSUME LinkerInv, NEW c \in Callers, LookUpHeader(c)
  PROVE  /\ Arg(request[c]) \in Images /\ Arg(request[c]) \in Loaded /\ Op(request[c]) = "header"
         /\ found' = [found EXCEPT ![c] = IF Populates(Arg(request[c])) THEN <<"true", Arg(request[c])>> ELSE No]
         /\ \/ new' = [new EXCEPT ![c] = <<>>]
            \/ /\ "images" \in holds[c] /\ Populates(Arg(request[c])) /\ ~Cached(images, Arg(request[c]))
               /\ new' = [new EXCEPT ![c] = <<Arg(request[c])>>]
<1> DEFINE h == Arg(request[c])
           cached == "images" \in holds[c] /\ Cached(images, h)
<1>1. request[c] \in Requests /\ Op(request[c]) = "header" /\ h \in Loaded
  BY DEF LinkerInv, LinkerTypeOK, Entries, Looking, LookUpHeader
<1>2. h \in Images
  BY <1>1, RequestFacts
<1>3. cached => Populates(h)
  BY DEF LinkerInv, Entries, Sorted, Cached
<1>4. found' = [found EXCEPT ![c] = IF cached \/ Populates(h) THEN <<"true", h>> ELSE No]
  BY DEF LookUpHeader
<1>5. new' = [new EXCEPT ![c] = IF "images" \in holds[c] /\ ~cached /\ Populates(h) THEN <<h>> ELSE <<>>]
  BY DEF LookUpHeader
<1> HIDE DEF h
<1>6. found' = [found EXCEPT ![c] = IF Populates(h) THEN <<"true", h>> ELSE No]
  <2> HIDE DEF cached
  <2> QED BY <1>3, <1>4
<1>7. \/ new' = [new EXCEPT ![c] = <<>>]
      \/ "images" \in holds[c] /\ Populates(h) /\ ~Cached(images, h) /\ new' = [new EXCEPT ![c] = <<h>>]
  BY <1>5
<1> QED BY <1>1, <1>2, <1>6, <1>7 DEF h

\* The answers are answers.
LEMMA AnswerFacts ==
  ASSUME LinkerInv, NEW c \in Callers
  PROVE  /\ LookUpAddress(c) \/ LookUpHeader(c) => \E f : f # Nothing /\ found' = [found EXCEPT ![c] = f]
         /\ Search(c) => \/ UNCHANGED <<found, symbols>> /\ Goto(c, "images")
                         \/ /\ \E f : f # Nothing /\ found' = [found EXCEPT ![c] = f]
                            /\ Goto(c, "store")
<1>1. ASSUME LookUpAddress(c) PROVE \E f : f # Nothing /\ found' = [found EXCEPT ![c] = f]
  <2>1. PICK h \in Loaded \cup {None}, full \in BOOLEAN :
          found' = [found EXCEPT ![c] = IF Op(request[c]) = "dladdr" THEN Symbolicated(h, Arg(request[c]))
                                                                       ELSE UnwindAnswer(h, full)]
    BY <1>1, LookedUp
  <2>2. Symbolicated(h, Arg(request[c])) # Nothing
    BY DEF Symbolicated, No, Nothing
  <2>3. UnwindAnswer(h, full) # Nothing
    BY DEF UnwindAnswer, No, Nothing
  <2> QED BY <2>1, <2>2, <2>3
<1>2. ASSUME LookUpHeader(c) PROVE \E f : f # Nothing /\ found' = [found EXCEPT ![c] = f]
  <2> DEFINE f == IF ("images" \in holds[c] /\ Cached(images, Arg(request[c]))) \/ Populates(Arg(request[c]))
                  THEN <<"true", Arg(request[c])>> ELSE No
  <2>1. found' = [found EXCEPT ![c] = f]
    BY <1>2 DEF LookUpHeader
  <2>2. f # Nothing
    BY DEF No, Nothing
  <2> QED BY <2>1, <2>2
<1>3. ASSUME Search(c) PROVE \/ UNCHANGED <<found, symbols>> /\ Goto(c, "images")
                             \/ /\ \E f : f # Nothing /\ found' = [found EXCEPT ![c] = f]
                                /\ Goto(c, "store")
  <2> DEFINE hits == {k \in DOMAIN symbols : symbols[k].address = Arg(request[c])}
  <2>1. CASE hits = {}
    BY <1>3, <2>1 DEF Search
  <2>2. CASE hits # {}
    <3>1. PICK k \in hits : found' = [found EXCEPT ![c] = symbols[k].found] /\ Goto(c, "store")
      BY <1>3, <2>2 DEF Search
    <3> DEFINE R == [address : Addresses, found : {"true"} \X Images \X Nat, hits : 1 .. MaxHits]
    <3>2. symbols[k] \in R
      <4>1. symbols \in Seq(R)
        BY DEF LinkerInv, LinkerTypeOK
      <4> HIDE DEF R
      <4> QED BY <4>1
    <3>3. PICK i \in Images, j \in Nat : symbols[k].found = <<"true", i, j>>
      BY <3>2
    <3>4. symbols[k].found # Nothing
      BY <3>3 DEF Nothing
    <3> QED BY <3>1, <3>4
  <2> QED BY <2>1, <2>2
<1> QED BY <1>1, <1>2, <1>3

\* What was said of an address stays right when dyld lists more images.
LEMMA GenuineStays ==
  ASSUME NEW a, NEW f, Genuine(a, f), known => known', Loaded \subseteq Loaded'
  PROVE  Genuine(a, f)'
  BY DEF Genuine

-----------------------------------------------------------------------------
(***************************************************************************)
(* Every step keeps the invariant                                          *)
(***************************************************************************)
\* The type invariant is kept.
LEMMA TypeNext == ASSUME LinkerInv, [LinkerNext]_linkerVars PROVE LinkerTypeOK'
<1> USE DEF LinkerInv, LinkerTypeOK
<1>1. CASE UNCHANGED linkerVars
  BY <1>1 DEF linkerVars, caches, setup, caller
<1>2. ASSUME NEW c \in Callers, InitBegins(c) PROVE LinkerTypeOK'
  BY <1>2 DEF InitBegins, Runs, Goto, Exchange, Release, AfterImages, caches, setup, caller
<1>3. ASSUME NEW c \in Callers, InitInfos(c) PROVE LinkerTypeOK'
  BY <1>3 DEF InitInfos, Runs, Goto, Exchange, Release, AfterImages, caches, setup, caller
<1>4. ASSUME NEW c \in Callers, InitImageCache(c) PROVE LinkerTypeOK'
  BY <1>4, LinkerAssumption DEF InitImageCache, Runs, Goto, setup
<1>5. ASSUME NEW c \in Callers, InitNotifier(c) PROVE LinkerTypeOK'
  BY <1>5 DEF InitNotifier, Runs, Goto, Exchange, Release, AfterImages, caches, setup, caller
<1>6. ASSUME NEW c \in Callers, InitSymbolCache(c) PROVE LinkerTypeOK'
  BY <1>6, LinkerAssumption DEF InitSymbolCache, Runs, Goto, setup
<1>7. ASSUME NEW c \in Callers, NEW r \in Requests, Call(c, r) PROVE LinkerTypeOK'
  BY <1>7 DEF Call, Runs, Goto, Exchange, Release, AfterImages, caches, setup, caller
<1>8. ASSUME NEW c \in Callers, NEW b \in Batches, Load(c, b) PROVE LinkerTypeOK'
  <2>1. infoArray' \in Seq(Images)
    BY <1>8, LoadFacts
  <2>2. b \in Seq(Images) /\ c \in Callers
    BY <1>8, BatchFacts
  <2>3. (at' = at /\ new' = new) \/ (at' = [at EXCEPT ![c] = "images"] /\ new' = [new EXCEPT ![c] = b])
    BY <1>8, LoadFacts
  <2>4. UNCHANGED <<caches, setup, request, holds, found, stopped>>
    BY <1>8 DEF Load
  <2>5. /\ at' \in [Callers -> {"idle", "infos", "cache", "hook", "symbolCache", "symbols",
                            "search", "images", "look", "put", "store", "done"}]
        /\ new' \in [Callers -> Seq(Images)]
    <3> DEFINE Program == {"idle", "infos", "cache", "hook", "symbolCache", "symbols",
                           "search", "images", "look", "put", "store", "done"}
    <3>1. at \in [Callers -> Program] /\ new \in [Callers -> Seq(Images)] /\ "images" \in Program
      OBVIOUS
    <3> HIDE DEF Program
    <3>2. at' \in [Callers -> Program]
      BY ONLY <2>2, <2>3, <3>1
    <3>3. new' \in [Callers -> Seq(Images)]
      BY ONLY <2>2, <2>3, <3>1
    <3> QED BY <3>2, <3>3 DEF Program
  <2> QED BY <2>1, <2>4, <2>5 DEF caches, setup
<1>9. ASSUME NEW c \in Callers, TakeSymbols(c) PROVE LinkerTypeOK'
  BY <1>9 DEF TakeSymbols, Runs, Goto, Exchange, Release, AfterImages, caches, setup, caller
<1>10. ASSUME NEW c \in Callers, Search(c) PROVE LinkerTypeOK'
  <2>1. Goto(c, "images") \/ Goto(c, "store")
    BY <1>10, SearchFacts
  <2>2. at' \in [Callers -> {"idle", "infos", "cache", "hook", "symbolCache", "symbols",
                         "search", "images", "look", "put", "store", "done"}]
    BY <2>1 DEF Goto
  <2>3. CASE UNCHANGED <<symbols, found>>
    BY <1>10, <2>2, <2>3 DEF Search, setup
  <2>4. CASE \E k \in DOMAIN symbols :
              /\ symbols[k].found \in {"true"} \X Images \X Nat
              /\ found' = [found EXCEPT ![c] = symbols[k].found]
              /\ symbols' \in Seq(Entry) /\ Len(symbols') = Len(symbols)
    <3>1. found' \in [Callers -> {Nothing, No, <<"true">>} \cup ({"true"} \X Images) \cup ({"true"} \X Images \X Nat)]
      BY <2>4
    <3>2. /\ symbols' \in Seq([address : Addresses, found : {"true"} \X Images \X Nat, hits : 1 .. MaxHits])
          /\ Len(symbols') <= MaxSymbols
      BY <2>4 DEF Entry
    <3> QED BY <1>10, <2>2, <3>1, <3>2 DEF Search, setup
  <2> QED BY <1>10, <2>3, <2>4, SearchFacts
<1>11. ASSUME NEW c \in Callers, Store(c) PROVE LinkerTypeOK'
  <2>1. \/ UNCHANGED symbols
        \/ symbols' \in Seq([address : Addresses, found : {"true"} \X Images \X Nat, hits : 1 .. MaxHits])
           /\ Len(symbols') <= MaxSymbols
    BY <1>11, StoreFacts DEF Entry
  <2> QED BY <1>11, <2>1 DEF Store, Release, Goto, setup
<1>12. ASSUME NEW c \in Callers, TakeImages(c) PROVE LinkerTypeOK'
  BY <1>12 DEF TakeImages, Runs, Goto, Exchange, Release, AfterImages, caches, setup, caller
<1>13. ASSUME NEW c \in Callers, LookUpAddress(c) PROVE LinkerTypeOK'
  <2>1. PICK h \in Loaded \cup {None}, full \in BOOLEAN :
              /\ h = None => (known => \A g \in Loaded : ~InSegments(g, Arg(request[c])))
              /\ h # None => known /\ InSegments(h, Arg(request[c]))
              /\ found' = [found EXCEPT ![c] = IF Op(request[c]) = "dladdr" THEN Symbolicated(h, Arg(request[c]))
                                                                              ELSE UnwindAnswer(h, full)]
              /\ \/ new' = [new EXCEPT ![c] = <<>>]
                 \/ h # None /\ "images" \in holds[c] /\ ~Cached(images, h) /\ new' = [new EXCEPT ![c] = <<h>>]
    <3> HIDE DEF LinkerInv, LinkerTypeOK
    <3> QED BY <1>13, LookedUp
  <2>2. request[c] \in Requests /\ Op(request[c]) \in {"dladdr", "unwind"}
    BY <1>13, LookedUp
  <2>3. Arg(request[c]) \in Nat
    BY <2>2, RequestFacts
  <2>4. h \in Images \cup {None}
    BY DEF Loaded
  <2> DEFINE Found == {Nothing, No, <<"true">>} \cup ({"true"} \X Images) \cup ({"true"} \X Images \X Nat)
  <2>5. Symbolicated(h, Arg(request[c])) \in Found
    BY <2>3, <2>4, SymbolicatedFacts
  <2>6. UnwindAnswer(h, full) \in Found
    BY <2>4 DEF UnwindAnswer
  <2>7. found \in [Callers -> Found] /\ new \in [Callers -> Seq(Images)]
    OBVIOUS
  <2>8. found' \in [Callers -> Found]
    <3> HIDE DEF Found
    <3> QED BY <2>1, <2>5, <2>6, <2>7
  <2>9. new' \in [Callers -> Seq(Images)]
    <3>1. h # None => <<h>> \in Seq(Images)
      BY <2>4
    <3>2. <<>> \in Seq(Images)
      OBVIOUS
    <3> QED BY ONLY <2>1, <2>7, <3>1, <3>2
  <2> QED BY <1>13, <2>8, <2>9 DEF LookUpAddress, Goto, AfterImages, caches, setup
<1>14. ASSUME NEW c \in Callers, LookUpHeader(c) PROVE LinkerTypeOK'
  <2>1. found' \in [Callers -> {Nothing, No, <<"true">>} \cup ({"true"} \X Images) \cup ({"true"} \X Images \X Nat)]
    <3> DEFINE Found == {Nothing, No, <<"true">>} \cup ({"true"} \X Images) \cup ({"true"} \X Images \X Nat)
    <3>1. <<"true", Arg(request[c])>> \in Found /\ No \in Found
      BY <1>14, HeaderFacts
    <3>2. found' = [found EXCEPT ![c] = <<"true", Arg(request[c])>>] \/ found' = [found EXCEPT ![c] = No]
      BY <1>14, HeaderFacts
    <3>3. found \in [Callers -> Found]
      OBVIOUS
    <3> HIDE DEF Found
    <3>4. found' \in [Callers -> Found]
      BY ONLY <3>1, <3>2, <3>3
    <3> QED BY <3>4 DEF Found
  <2>2. new' \in [Callers -> Seq(Images)]
    <3>1. <<Arg(request[c])>> \in Seq(Images) /\ <<>> \in Seq(Images) /\ new \in [Callers -> Seq(Images)]
      BY <1>14, HeaderFacts
    <3>2. new' = [new EXCEPT ![c] = <<>>] \/ new' = [new EXCEPT ![c] = <<Arg(request[c])>>]
      BY <1>14, HeaderFacts
    <3> QED BY ONLY <3>1, <3>2
  <2> QED BY <1>14, <2>1, <2>2 DEF LookUpHeader, Goto, caches, setup
<1>15. ASSUME NEW c \in Callers, Notified(c) PROVE LinkerTypeOK'
  <2>1. new' = new \/ new' = [new EXCEPT ![c] = <<>>]
    BY <1>15 DEF Notified
  <2>2. <<>> \in Seq(Images)
    OBVIOUS
  <2>3. at' = [at EXCEPT ![c] = "put"] \/ at' = [at EXCEPT ![c] = "done"]
    BY <1>15 DEF Notified, Goto
  <2>4. UNCHANGED <<infoArray, caches, setup, request, holds, found, stopped>>
    BY <1>15 DEF Notified
  <2>5. new' \in [Callers -> Seq(Images)]
    BY <2>1, <2>2
  <2> QED BY <2>3, <2>4, <2>5 DEF caches, setup
<1>16. ASSUME NEW c \in Callers, Put(c) PROVE LinkerTypeOK'
  <2>1. images' \in Seq(Images) /\ Len(images') <= MaxImages
    BY <1>16, PutExact DEF Sorted
  <2>2. /\ free' = free \cup (holds[c] \cap {"images"}) /\ holds' = [holds EXCEPT ![c] = @ \ {"images"}]
        /\ new' = [new EXCEPT ![c] = <<>>] /\ UNCHANGED <<infoArray, symbols, setup, request, found, stopped>>
        /\ at' = [at EXCEPT ![c] = "store"] \/ at' = [at EXCEPT ![c] = "done"]
    BY <1>16 DEF Put, Release, Goto, AfterImages
  <2>3. <<>> \in Seq(Images)
    OBVIOUS
  <2> QED BY <2>1, <2>2, <2>3 DEF setup
<1>17. ASSUME NEW c \in Callers, Return(c) PROVE LinkerTypeOK'
  BY <1>17 DEF Return, Runs, Goto, Exchange, Release, AfterImages, caches, setup, caller
<1>18. ASSUME NEW c \in Callers, Stop(c) PROVE LinkerTypeOK'
  BY <1>18 DEF Stop, Runs, Goto, Exchange, Release, AfterImages, caches, setup, caller
<1> QED
  BY <1>1, <1>2, <1>3, <1>4, <1>5, <1>6, <1>7, <1>8, <1>9, <1>10, <1>11, <1>12, <1>13, <1>14, <1>15, <1>16, <1>17, <1>18 DEF LinkerNext

\* The image cache stays sorted, and what is cached is listed by dyld.
LEMMA EntriesNext == ASSUME LinkerInv, [LinkerNext]_linkerVars PROVE Entries'
<1> USE DEF LinkerInv, LinkerTypeOK, Exclusive, Places, Setup, Entries, Loaded, Looking
<1>1. CASE UNCHANGED linkerVars
  BY <1>1 DEF linkerVars, caches, setup, caller
<1>2. ASSUME NEW c \in Callers, InitBegins(c) PROVE Entries'
  <2>1. UNCHANGED <<infoArray, images, request, new>> /\ at[c] = "idle" /\ at' = [at EXCEPT ![c] = IF initialized THEN "idle" ELSE "infos"]
    BY <1>2 DEF InitBegins, Runs, Goto, Exchange, Release, caches
  <2> QED BY <2>1
<1>3. ASSUME NEW c \in Callers, InitInfos(c) PROVE Entries'
  <2>1. UNCHANGED <<infoArray, images, request, new>> /\ at[c] = "infos" /\ at' = [at EXCEPT ![c] = IF known' THEN "cache" ELSE "symbolCache"]
    BY <1>3 DEF InitInfos, Runs, Goto, Exchange, Release, caches
  <2> QED BY <2>1
<1>4. ASSUME NEW c \in Callers, InitImageCache(c) PROVE Entries'
  <2>1. /\ UNCHANGED <<infoArray, request, new>> /\ at[c] = "cache" /\ at' = [at EXCEPT ![c] = "hook"]
        /\ images' = <<>>
    BY <1>4 DEF InitImageCache, Runs, Goto
  <2>2. Sorted(<<>>) /\ DOMAIN <<>> = {}
    BY DEF Sorted
  <2> QED BY <2>1, <2>2 DEF Cached
<1>5. ASSUME NEW c \in Callers, InitNotifier(c) PROVE Entries'
  <2>1. UNCHANGED <<infoArray, images, request, new>> /\ at[c] = "hook" /\ at' = [at EXCEPT ![c] = "symbolCache"]
    BY <1>5 DEF InitNotifier, Runs, Goto, Exchange, Release, caches
  <2> QED BY <2>1
<1>6. ASSUME NEW c \in Callers, InitSymbolCache(c) PROVE Entries'
  <2>1. UNCHANGED <<infoArray, images, request, new>> /\ at[c] = "symbolCache" /\ at' = [at EXCEPT ![c] = "idle"]
    BY <1>6 DEF InitSymbolCache, Runs, Goto, Exchange, Release, caches
  <2> QED BY <2>1
<1>7. ASSUME NEW c \in Callers, NEW r \in Requests, Call(c, r) PROVE Entries'
  <2>1. /\ at[c] = "idle" /\ UNCHANGED <<images, infoArray, new>> /\ request' = [request EXCEPT ![c] = r]
        /\ at' = [at EXCEPT ![c] = "symbols"] \/ at' = [at EXCEPT ![c] = "images"]
        /\ Op(r) = "header" => Arg(r) \in Loaded
    <3> HIDE DEF LinkerInv, LinkerTypeOK, Entries
    <3> QED BY <1>7 DEF Call, Runs, Goto, caches, Cached
  <2> QED BY <2>1
<1>8. ASSUME NEW c \in Callers, NEW b \in Batches, Load(c, b) PROVE Entries'
  <2>1. Loaded \subseteq Loaded' /\ \A k \in DOMAIN b : b[k] \in Loaded'
    BY <1>8, LoadFacts
  <2>2. at[c] = "idle" /\ request' = request /\ images' = images /\ ~Looking(c)
    BY <1>8 DEF Load, Runs, caches
  <2>3. (at' = at /\ new' = new) \/ (at' = [at EXCEPT ![c] = "images"] /\ new' = [new EXCEPT ![c] = b])
    BY <1>8, LoadFacts
  <2>4. CASE at' = at /\ new' = new
    BY <2>1, <2>2, <2>4
  <2>5. CASE at' = [at EXCEPT ![c] = "images"] /\ new' = [new EXCEPT ![c] = b]
    <3>1. at[c] = "idle" /\ new'[c] = b /\ at'[c] = "images"
      BY <2>2, <2>5
    <3>2. \A d \in Callers : d # c => at'[d] = at[d] /\ new'[d] = new[d]
      BY <2>5
    <3>3. \A d \in Callers : \A k \in DOMAIN new'[d] : new'[d][k] \in Loaded'
      <4> HIDE DEF Loaded
      <4> QED BY <2>1, <3>1, <3>2
    <3>4. Looking(c)' = Looking(c) /\ \A d \in Callers : request'[d] = request[d] /\ Looking(d)' = Looking(d)
      BY <2>2
    <3> HIDE DEF Loaded, Looking
    <3> QED BY <2>1, <2>2, <3>1, <3>2, <3>3, <3>4
  <2> QED BY <2>3, <2>4, <2>5
<1>9. ASSUME NEW c \in Callers, TakeSymbols(c) PROVE Entries'
  <2>1. UNCHANGED <<infoArray, images, request, new>> /\ at[c] = "symbols" /\ at' = [at EXCEPT ![c] = IF "symbols" \in free THEN "search" ELSE "images"]
    BY <1>9 DEF TakeSymbols, Runs, Goto, Exchange, Release, caches
  <2> QED BY <2>1
<1>10. ASSUME NEW c \in Callers, Search(c) PROVE Entries'
  <2>1. /\ at[c] = "search" /\ UNCHANGED <<request, images, infoArray, new>>
        /\ at' = [at EXCEPT ![c] = "images"] \/ at' = [at EXCEPT ![c] = "store"]
    BY <1>10, SearchFacts DEF Search, Runs, Goto
  <2>2. Loaded' = Loaded
    BY <2>1
  <2>3. at'[c] \in {"images", "store"} /\ \A d \in Callers : d # c => at'[d] = at[d]
    BY <2>1
  <2> HIDE DEF Loaded
  <2> QED BY <2>1, <2>2, <2>3
<1>11. ASSUME NEW c \in Callers, Store(c) PROVE Entries'
  <2>1. UNCHANGED <<infoArray, images, request, new>> /\ at[c] = "store" /\ at' = [at EXCEPT ![c] = "done"]
    BY <1>11 DEF Store, Runs, Goto, Exchange, Release, caches
  <2> QED BY <2>1
<1>12. ASSUME NEW c \in Callers, TakeImages(c) PROVE Entries'
  <2>1. UNCHANGED <<infoArray, images, request, new>> /\ at[c] = "images" /\ at' = [at EXCEPT ![c] = "look"]
    BY <1>12 DEF TakeImages, Runs, Goto, Exchange, Release, caches
  <2> QED BY <2>1
<1>13. ASSUME NEW c \in Callers, LookUpAddress(c) PROVE Entries'
  <2>1. PICK h \in Loaded \cup {None} :
          /\ h # None => InSegments(h, Arg(request[c]))
          /\ \/ new' = [new EXCEPT ![c] = <<>>]
             \/ h # None /\ "images" \in holds[c] /\ ~Cached(images, h) /\ new' = [new EXCEPT ![c] = <<h>>]
    BY <1>13, LookedUp
  <2>2. request[c] \in Requests /\ Arg(request[c]) \in Nat
    <3>1. request[c] \in Requests /\ Op(request[c]) \in {"dladdr", "unwind"}
      BY <1>13, LookedUp
    <3> QED BY <3>1, RequestFacts
  <2>8. Loaded \subseteq Images
    OBVIOUS
  <2>3. h # None => Populates(h)
    BY <2>1, <2>2, <2>8, SegmentFacts
  <2>4. /\ at[c] = "look" /\ UNCHANGED <<request, images, infoArray, holds>> /\ Looking(c)
        /\ at' = [at EXCEPT ![c] = IF "images" \in holds[c] THEN "put" ELSE AfterImages(c)]
        /\ AfterImages(c) \in {"store", "done"}
    BY <1>13 DEF LookUpAddress, Runs, Goto, AfterImages, caches
  <2>5. Loaded' = Loaded
    BY <2>4
  <2>6. CASE new' = [new EXCEPT ![c] = <<>>]
    BY <2>4, <2>5, <2>6
  <2>7. CASE h # None /\ "images" \in holds[c] /\ ~Cached(images, h) /\ new' = [new EXCEPT ![c] = <<h>>]
    <3>1. Len(<<h>>) = 1 /\ DOMAIN <<h>> = {1} /\ <<h>>[1] = h
      OBVIOUS
    <3>2. /\ new'[c] = <<h>> /\ at'[c] = "put" /\ \A d \in Callers : d # c => new'[d] = new[d] /\ at'[d] = at[d]
          /\ \A d \in Callers : Looking(d)' = Looking(d) /\ request'[d] = request[d]
      BY <2>4, <2>7
    <3> HIDE DEF Loaded, Looking
    <3>3. \A k \in DOMAIN new'[c] : new'[c][k] = h
      BY <3>1, <3>2
    <3> QED BY <2>1, <2>3, <2>4, <2>5, <2>7, <3>1, <3>2, <3>3
  <2> QED BY <2>1, <2>6, <2>7
<1>14. ASSUME NEW c \in Callers, LookUpHeader(c) PROVE Entries'
  <2> DEFINE h == Arg(request[c])
  <2>1. /\ h \in Loaded
        /\ \/ new' = [new EXCEPT ![c] = <<>>]
           \/ "images" \in holds[c] /\ Populates(h) /\ ~Cached(images, h) /\ new' = [new EXCEPT ![c] = <<h>>]
    BY <1>14, HeaderFacts
  <2>4. /\ at[c] = "look" /\ UNCHANGED <<request, images, infoArray, holds>> /\ Looking(c)
        /\ at' = [at EXCEPT ![c] = IF "images" \in holds[c] THEN "put" ELSE "done"]
    BY <1>14 DEF LookUpHeader, Runs, Goto, caches
  <2>5. Loaded' = Loaded
    BY <2>4
  <2> HIDE DEF h
  <2>6. CASE new' = [new EXCEPT ![c] = <<>>]
    BY <2>4, <2>5, <2>6
  <2>7. CASE "images" \in holds[c] /\ Populates(h) /\ ~Cached(images, h) /\ new' = [new EXCEPT ![c] = <<h>>]
    <3>1. Len(<<h>>) = 1 /\ DOMAIN <<h>> = {1} /\ <<h>>[1] = h
      OBVIOUS
    <3>2. /\ new'[c] = <<h>> /\ at'[c] = "put" /\ \A d \in Callers : d # c => new'[d] = new[d] /\ at'[d] = at[d]
          /\ \A d \in Callers : Looking(d)' = Looking(d) /\ request'[d] = request[d]
      BY <2>4, <2>7
    <3> HIDE DEF Loaded, Looking
    <3>3. \A k \in DOMAIN new'[c] : new'[c][k] = h
      BY <3>1, <3>2
    <3> QED BY <2>1, <2>4, <2>5, <2>7, <3>1, <3>2, <3>3
  <2> QED BY <2>1, <2>6, <2>7
<1>15. ASSUME NEW c \in Callers, Notified(c) PROVE Entries'
  BY <1>15 DEF Notified, Runs, Goto, Exchange, Release, AfterImages, caches, setup, caller
<1>16. ASSUME NEW c \in Callers, Put(c) PROVE Entries'
  <2>1. Sorted(images') /\ \A k \in DOMAIN images' : images'[k] \in Loaded
    BY <1>16, PutExact
  <2>2. /\ at[c] = "put" /\ request' = request /\ infoArray' = infoArray /\ new' = [new EXCEPT ![c] = <<>>]
        /\ at' = [at EXCEPT ![c] = AfterImages(c)] /\ AfterImages(c) \in {"store", "done"}
    BY <1>16 DEF Put, Runs, Goto, AfterImages
  <2>3. \A d \in Callers : at[d] = "put" => d = c
    BY <2>2
  <2>4. Loaded' = Loaded
    BY <2>2 DEF Loaded
  <2> QED BY <2>1, <2>2, <2>3, <2>4
<1>17. ASSUME NEW c \in Callers, Return(c) PROVE Entries'
  BY <1>17 DEF Return, Runs, Goto, Exchange, Release, AfterImages, caches, setup, caller
<1>18. ASSUME NEW c \in Callers, Stop(c) PROVE Entries'
  BY <1>18 DEF Stop, Runs, Goto, Exchange, Release, AfterImages, caches, setup, caller
<1> QED
  BY <1>1, <1>2, <1>3, <1>4, <1>5, <1>6, <1>7, <1>8, <1>9, <1>10, <1>11, <1>12, <1>13, <1>14, <1>15, <1>16, <1>17, <1>18 DEF LinkerNext
\* A cache is never in two places: it is only taken from behind its pointer.
LEMMA ExclusiveNext == ASSUME LinkerInv, [LinkerNext]_linkerVars PROVE Exclusive'
<1> USE DEF LinkerInv, LinkerTypeOK, Exclusive, SetUp, Places, Present, Setup
<1>1. CASE UNCHANGED linkerVars
  BY <1>1 DEF linkerVars, caches, setup, caller
<1>2. ASSUME NEW c \in Callers, InitBegins(c) PROVE Exclusive'
  BY <1>2 DEF InitBegins, Runs, Goto, Exchange, Release, AfterImages, caches, setup, caller
<1>3. ASSUME NEW c \in Callers, InitInfos(c) PROVE Exclusive'
  BY <1>3 DEF InitInfos, Runs, Goto, Exchange, Release, AfterImages, caches, setup, caller
<1>4. ASSUME NEW c \in Callers, InitImageCache(c) PROVE Exclusive'
  BY <1>4 DEF InitImageCache, Runs, Goto, Exchange, Release, AfterImages, caches, setup, caller
<1>5. ASSUME NEW c \in Callers, InitNotifier(c) PROVE Exclusive'
  BY <1>5 DEF InitNotifier, Runs, Goto, Exchange, Release, AfterImages, caches, setup, caller
<1>6. ASSUME NEW c \in Callers, InitSymbolCache(c) PROVE Exclusive'
  BY <1>6 DEF InitSymbolCache, Runs, Goto, Exchange, Release, AfterImages, caches, setup, caller
<1>7. ASSUME NEW c \in Callers, NEW r \in Requests, Call(c, r) PROVE Exclusive'
  BY <1>7 DEF Call, Runs, Goto, Exchange, Release, AfterImages, caches, setup, caller
<1>8. ASSUME NEW c \in Callers, NEW b \in Batches, Load(c, b) PROVE Exclusive'
  BY <1>8 DEF Load, Runs, Goto, Exchange, Release, AfterImages, caches, setup, caller
<1>9. ASSUME NEW c \in Callers, TakeSymbols(c) PROVE Exclusive'
  BY <1>9 DEF TakeSymbols, Runs, Goto, Exchange, Release, AfterImages, caches, setup, caller
<1>10. ASSUME NEW c \in Callers, Search(c) PROVE Exclusive'
  BY <1>10 DEF Search, Runs, Goto, Exchange, Release, AfterImages, caches, setup, caller
<1>11. ASSUME NEW c \in Callers, Store(c) PROVE Exclusive'
  BY <1>11 DEF Store, Runs, Goto, Exchange, Release, AfterImages, caches, setup, caller
<1>12. ASSUME NEW c \in Callers, TakeImages(c) PROVE Exclusive'
  BY <1>12 DEF TakeImages, Runs, Goto, Exchange, Release, AfterImages, caches, setup, caller
<1>13. ASSUME NEW c \in Callers, LookUpAddress(c) PROVE Exclusive'
  BY <1>13 DEF LookUpAddress, Runs, Goto, Exchange, Release, AfterImages, caches, setup, caller
<1>14. ASSUME NEW c \in Callers, LookUpHeader(c) PROVE Exclusive'
  BY <1>14 DEF LookUpHeader, Runs, Goto, Exchange, Release, AfterImages, caches, setup, caller
<1>15. ASSUME NEW c \in Callers, Notified(c) PROVE Exclusive'
  BY <1>15 DEF Notified, Runs, Goto, Exchange, Release, AfterImages, caches, setup, caller
<1>16. ASSUME NEW c \in Callers, Put(c) PROVE Exclusive'
  BY <1>16 DEF Put, Runs, Goto, Exchange, Release, AfterImages, caches, setup, caller
<1>17. ASSUME NEW c \in Callers, Return(c) PROVE Exclusive'
  BY <1>17 DEF Return, Runs, Goto, Exchange, Release, AfterImages, caches, setup, caller
<1>18. ASSUME NEW c \in Callers, Stop(c) PROVE Exclusive'
  BY <1>18 DEF Stop, Runs, Goto, Exchange, Release, AfterImages, caches, setup, caller
<1> QED
  BY <1>1, <1>2, <1>3, <1>4, <1>5, <1>6, <1>7, <1>8, <1>9, <1>10, <1>11, <1>12, <1>13, <1>14, <1>15, <1>16, <1>17, <1>18 DEF LinkerNext

\* ksdl_init() sets up one cache after the other, once.
LEMMA SetUpNext == ASSUME LinkerInv, [LinkerNext]_linkerVars PROVE SetUp'
<1> USE DEF LinkerInv, LinkerTypeOK, Exclusive, SetUp, Present, Setup, Places
<1>1. CASE UNCHANGED linkerVars
  BY <1>1 DEF linkerVars, caches, setup, caller
<1>2. ASSUME NEW c \in Callers, InitBegins(c) PROVE SetUp'
  BY <1>2 DEF InitBegins, Runs, Goto, Exchange, Release, AfterImages, caches, setup, caller
<1>3. ASSUME NEW c \in Callers, InitInfos(c) PROVE SetUp'
  <2>1. /\ at[c] = "infos" /\ c \in Callers /\ free' = free /\ holds' = holds /\ images' = images
        /\ symbols' = symbols /\ initialized' = initialized /\ notifier' = notifier
        /\ \/ known' = TRUE /\ at' = [at EXCEPT ![c] = "cache"]
           \/ known' = FALSE /\ at' = [at EXCEPT ![c] = "symbolCache"]
    BY <1>3 DEF InitInfos, Runs, Goto, caches
  <2>2. ~known /\ initialized /\ ~Present("images") /\ ~Present("symbols") /\ ~notifier /\ symbols = <<>>
    BY <2>1
  <2>3. \A d \in Callers : at[d] \in Setup => d = c
    BY <2>1
  <2>4. ~Present("images")' /\ ~Present("symbols")'
    BY <2>1, <2>2
  <2>5. \A d \in Callers : d # c => at'[d] = at[d] /\ at'[d] \notin Setup
    BY <2>1, <2>3
  <2>6. /\ \A d \in Callers : at'[d] \in Setup => d = c
        /\ at'[c] \in {"cache", "symbolCache"} /\ (at'[c] = "cache" <=> known')
    BY <2>1, <2>5
  <2> HIDE DEF Present, Setup
  <2> QED BY <2>1, <2>2, <2>4, <2>6 DEF Setup
<1>4. ASSUME NEW c \in Callers, InitImageCache(c) PROVE SetUp'
  BY <1>4 DEF InitImageCache, Runs, Goto, Exchange, Release, AfterImages, caches, setup, caller
<1>5. ASSUME NEW c \in Callers, InitNotifier(c) PROVE SetUp'
  BY <1>5 DEF InitNotifier, Runs, Goto, Exchange, Release, AfterImages, caches, setup, caller
<1>6. ASSUME NEW c \in Callers, InitSymbolCache(c) PROVE SetUp'
  BY <1>6 DEF InitSymbolCache, Runs, Goto, Exchange, Release, AfterImages, caches, setup, caller
<1>7. ASSUME NEW c \in Callers, NEW r \in Requests, Call(c, r) PROVE SetUp'
  BY <1>7 DEF Call, Runs, Goto, Exchange, Release, AfterImages, caches, setup, caller
<1>8. ASSUME NEW c \in Callers, NEW b \in Batches, Load(c, b) PROVE SetUp'
  <2>1. at[c] = "idle" /\ UNCHANGED <<free, holds, images, symbols, initialized, known, notifier, request, found>>
    BY <1>8 DEF Load, Runs, caches, setup
  <2>2. at' = at \/ at' = [at EXCEPT ![c] = "images"]
    BY <1>8 DEF Load, Goto
  <2>3. \A d \in Callers : at'[d] \in Setup => at'[d] = at[d]
    BY <2>1, <2>2
  <2>4. Present("images")' = Present("images") /\ Present("symbols")' = Present("symbols")
    BY <2>1
  <2>5. \A d \in Callers : at'[d] \in {"infos", "cache", "hook"} => at'[d] = at[d]
    BY <2>3
  <2> HIDE DEF Present
  <2> QED BY <2>1, <2>3, <2>4, <2>5
<1>9. ASSUME NEW c \in Callers, TakeSymbols(c) PROVE SetUp'
  BY <1>9 DEF TakeSymbols, Runs, Goto, Exchange, Release, AfterImages, caches, setup, caller
<1>10. ASSUME NEW c \in Callers, Search(c) PROVE SetUp'
  <2>1. /\ at[c] = "search" /\ free' = free /\ holds' = holds /\ images' = images
        /\ initialized' = initialized /\ notifier' = notifier /\ known' = known
        /\ \/ at' = [at EXCEPT ![c] = "images"]
           \/ at' = [at EXCEPT ![c] = "store"]
    BY <1>10, AnswerFacts DEF Search, Runs, Goto, setup
  <2>2. Present("symbols")'
    BY <2>1
  <2> QED BY <2>1, <2>2
<1>11. ASSUME NEW c \in Callers, Store(c) PROVE SetUp'
  BY <1>11 DEF Store, Runs, Goto, Exchange, Release, AfterImages, caches, setup, caller
<1>12. ASSUME NEW c \in Callers, TakeImages(c) PROVE SetUp'
  BY <1>12 DEF TakeImages, Runs, Goto, Exchange, Release, AfterImages, caches, setup, caller
<1>13. ASSUME NEW c \in Callers, LookUpAddress(c) PROVE SetUp'
  BY <1>13 DEF LookUpAddress, Runs, Goto, Exchange, Release, AfterImages, caches, setup, caller
<1>14. ASSUME NEW c \in Callers, LookUpHeader(c) PROVE SetUp'
  BY <1>14 DEF LookUpHeader, Runs, Goto, Exchange, Release, AfterImages, caches, setup, caller
<1>15. ASSUME NEW c \in Callers, Notified(c) PROVE SetUp'
  BY <1>15 DEF Notified, Runs, Goto, Exchange, Release, AfterImages, caches, setup, caller
<1>16. ASSUME NEW c \in Callers, Put(c) PROVE SetUp'
  BY <1>16 DEF Put, Runs, Goto, Exchange, Release, AfterImages, caches, setup, caller
<1>17. ASSUME NEW c \in Callers, Return(c) PROVE SetUp'
  BY <1>17 DEF Return, Runs, Goto, Exchange, Release, AfterImages, caches, setup, caller
<1>18. ASSUME NEW c \in Callers, Stop(c) PROVE SetUp'
  BY <1>18 DEF Stop, Runs, Goto, Exchange, Release, AfterImages, caches, setup, caller
<1> QED
  BY <1>1, <1>2, <1>3, <1>4, <1>5, <1>6, <1>7, <1>8, <1>9, <1>10, <1>11, <1>12, <1>13, <1>14, <1>15, <1>16, <1>17, <1>18 DEF LinkerNext

\* What a caller holds and has found follows from where it is.
LEMMA PlacesNext == ASSUME LinkerInv, [LinkerNext]_linkerVars PROVE Places'
<1> USE DEF LinkerInv, LinkerTypeOK, Exclusive, SetUp, Places, Setup, Looking
<1>1. CASE UNCHANGED linkerVars
  BY <1>1 DEF linkerVars, caches, setup, caller
<1>2. ASSUME NEW c \in Callers, InitBegins(c) PROVE Places'
  BY <1>2 DEF InitBegins, Runs, Goto, Exchange, Release, AfterImages, caches, setup, caller
<1>3. ASSUME NEW c \in Callers, InitInfos(c) PROVE Places'
  BY <1>3 DEF InitInfos, Runs, Goto, Exchange, Release, AfterImages, caches, setup, caller
<1>4. ASSUME NEW c \in Callers, InitImageCache(c) PROVE Places'
  BY <1>4 DEF InitImageCache, Runs, Goto, Exchange, Release, AfterImages, caches, setup, caller
<1>5. ASSUME NEW c \in Callers, InitNotifier(c) PROVE Places'
  BY <1>5 DEF InitNotifier, Runs, Goto, Exchange, Release, AfterImages, caches, setup, caller
<1>6. ASSUME NEW c \in Callers, InitSymbolCache(c) PROVE Places'
  BY <1>6 DEF InitSymbolCache, Runs, Goto, Exchange, Release, AfterImages, caches, setup, caller
<1>7. ASSUME NEW c \in Callers, NEW r \in Requests, Call(c, r) PROVE Places'
  <2>1. /\ r # Nothing /\ Op(r) \in {"dladdr", "unwind", "header"} /\ at[c] = "idle"
        /\ request' = [request EXCEPT ![c] = r]
        /\ at' = [at EXCEPT ![c] = IF Op(r) = "dladdr" THEN "symbols" ELSE "images"]
        /\ holds' = holds /\ found' = found
    BY <1>7, RequestFacts DEF Call, Runs, Goto
  <2> QED BY <2>1
<1>8. ASSUME NEW c \in Callers, NEW b \in Batches, Load(c, b) PROVE Places'
  <2>1. at[c] = "idle" /\ UNCHANGED <<free, holds, images, symbols, initialized, known, notifier, request, found>>
    BY <1>8 DEF Load, Runs, caches, setup
  <2>2. at' = at \/ at' = [at EXCEPT ![c] = "images"]
    BY <1>8 DEF Load, Goto
  <2> QED BY <2>1, <2>2
<1>9. ASSUME NEW c \in Callers, TakeSymbols(c) PROVE Places'
  BY <1>9 DEF TakeSymbols, Runs, Goto, Exchange, Release, AfterImages, caches, setup, caller
<1>10. ASSUME NEW c \in Callers, Search(c) PROVE Places'
  <2>1. at[c] = "search" /\ holds' = holds /\ request' = request
    BY <1>10 DEF Search, Runs
  <2>2. CASE UNCHANGED found /\ Goto(c, "images")
    BY <2>1, <2>2 DEF Goto
  <2>3. CASE (\E f : f # Nothing /\ found' = [found EXCEPT ![c] = f]) /\ Goto(c, "store")
    <3>1. PICK f : f # Nothing /\ found' = [found EXCEPT ![c] = f]
      BY <2>3
    <3> QED BY <2>1, <2>3, <3>1 DEF Goto
  <2> QED BY <1>10, <2>2, <2>3, AnswerFacts
<1>11. ASSUME NEW c \in Callers, Store(c) PROVE Places'
  BY <1>11 DEF Store, Runs, Goto, Exchange, Release, AfterImages, caches, setup, caller
<1>12. ASSUME NEW c \in Callers, TakeImages(c) PROVE Places'
  BY <1>12 DEF TakeImages, Runs, Goto, Exchange, Release, AfterImages, caches, setup, caller
<1>13. ASSUME NEW c \in Callers, LookUpAddress(c) PROVE Places'
  <2>1. PICK f : f # Nothing /\ found' = [found EXCEPT ![c] = f]
    BY <1>13, AnswerFacts
  <2>2. /\ at[c] = "look" /\ holds' = holds /\ request' = request /\ Looking(c)
        /\ at' = [at EXCEPT ![c] = IF "images" \in holds[c] THEN "put" ELSE IF "symbols" \in holds[c] THEN "store" ELSE "done"]
        /\ "header" # Op(request[c])
    BY <1>13 DEF LookUpAddress, Runs, Goto, AfterImages
  <2>3. holds[c] \subseteq {"images", "symbols"}
    OBVIOUS
  <2>4. "images" \notin holds[c] => holds[c] = IF "symbols" \in holds[c] THEN {"symbols"} ELSE {}
    BY ONLY <2>3
  <2> QED BY <2>1, <2>2, <2>4
<1>14. ASSUME NEW c \in Callers, LookUpHeader(c) PROVE Places'
  <2>1. PICK f : f # Nothing /\ found' = [found EXCEPT ![c] = f]
    BY <1>14, AnswerFacts
  <2>2. /\ at[c] = "look" /\ holds' = holds /\ request' = request /\ Looking(c)
        /\ at' = [at EXCEPT ![c] = IF "images" \in holds[c] THEN "put" ELSE "done"]
        /\ "header" = Op(request[c])
    BY <1>14 DEF LookUpHeader, Runs, Goto, AfterImages
  <2>3. holds[c] \subseteq {"images", "symbols"} /\ ("symbols" \in holds[c] => Op(request[c]) = "dladdr")
    OBVIOUS
  <2>4. "images" \notin holds[c] => holds[c] = {}
    BY ONLY <2>2, <2>3
  <2> QED BY <2>1, <2>2, <2>4
<1>15. ASSUME NEW c \in Callers, Notified(c) PROVE Places'
  <2>1. /\ at[c] = "look" /\ holds' = holds /\ request' = request /\ found' = found /\ ~Looking(c)
        /\ at' = [at EXCEPT ![c] = IF "images" \in holds[c] THEN "put" ELSE "done"]
    BY <1>15 DEF Notified, Runs, Goto
  <2>2. holds[c] \subseteq {"images", "symbols"} /\ "symbols" \notin holds[c]
    BY <2>1
  <2>3. "images" \notin holds[c] => holds[c] = {}
    BY ONLY <2>2
  <2> QED BY <2>1, <2>3
<1>16. ASSUME NEW c \in Callers, Put(c) PROVE Places'
  BY <1>16 DEF Put, Runs, Goto, Exchange, Release, AfterImages, caches, setup, caller
<1>17. ASSUME NEW c \in Callers, Return(c) PROVE Places'
  BY <1>17 DEF Return, Runs, Goto, Exchange, Release, AfterImages, caches, setup, caller
<1>18. ASSUME NEW c \in Callers, Stop(c) PROVE Places'
  BY <1>18 DEF Stop, Runs, Goto, Exchange, Release, AfterImages, caches, setup, caller
<1> QED
  BY <1>1, <1>2, <1>3, <1>4, <1>5, <1>6, <1>7, <1>8, <1>9, <1>10, <1>11, <1>12, <1>13, <1>14, <1>15, <1>16, <1>17, <1>18 DEF LinkerNext

\* The symbol cache has no address twice, and its results are right.
LEMMA AnswersNext == ASSUME LinkerInv, [LinkerNext]_linkerVars PROVE Answers'
<1> USE DEF Answers
<1>. Answers /\ DOMAIN found = Callers
  BY DEF LinkerInv, LinkerTypeOK
<1>1. CASE UNCHANGED linkerVars
  <2>1. UNCHANGED <<symbols, infoArray, known, found, request, holds>>
    BY <1>1 DEF linkerVars, setup, caches, caller
  <2>2. \A a, f : Genuine(a, f)' <=> Genuine(a, f)
    BY <2>1 DEF Genuine, Loaded
  <2> QED BY <2>1, <2>2
<1>2. ASSUME NEW c \in Callers, InitBegins(c) PROVE Answers'
  <2>1. UNCHANGED <<symbols, infoArray, known, found, request>> /\ holds' = holds
    BY <1>2 DEF InitBegins, Runs, Release, setup, caches
  <2>2. \A a, f : Genuine(a, f)' <=> Genuine(a, f)
    BY <2>1 DEF Genuine, Loaded
  <2> QED BY <2>1, <2>2
<1>3. ASSUME NEW c \in Callers, InitInfos(c) PROVE Answers'
  <2>1. UNCHANGED <<symbols, infoArray, found, request, holds>> /\ ~known
    BY <1>3 DEF InitInfos, Runs, caches, LinkerInv, SetUp
  <2>2. symbols = <<>> /\ \A d \in Callers : "symbols" \notin holds[d]
    BY <1>3 DEF InitInfos, Runs, LinkerInv, SetUp, Present, Setup
  <2> QED BY <2>1, <2>2
<1>4. ASSUME NEW c \in Callers, InitImageCache(c) PROVE Answers'
  <2>1. UNCHANGED <<symbols, infoArray, known, found, request>> /\ holds' = holds
    BY <1>4 DEF InitImageCache, Runs, Release, setup, caches
  <2>2. \A a, f : Genuine(a, f)' <=> Genuine(a, f)
    BY <2>1 DEF Genuine, Loaded
  <2> QED BY <2>1, <2>2
<1>5. ASSUME NEW c \in Callers, InitNotifier(c) PROVE Answers'
  <2>1. UNCHANGED <<symbols, infoArray, known, found, request>> /\ holds' = holds
    BY <1>5 DEF InitNotifier, Runs, Release, setup, caches
  <2>2. \A a, f : Genuine(a, f)' <=> Genuine(a, f)
    BY <2>1 DEF Genuine, Loaded
  <2> QED BY <2>1, <2>2
<1>6. ASSUME NEW c \in Callers, InitSymbolCache(c) PROVE Answers'
  <2>1. symbols' = <<>> /\ UNCHANGED <<found, request, holds>>
    BY <1>6 DEF InitSymbolCache
  <2>2. \A d \in Callers : "symbols" \notin holds[d]
    BY <1>6 DEF InitSymbolCache, Runs, LinkerInv, SetUp, Present, Setup
  <2> QED BY <2>1, <2>2
<1>7. ASSUME NEW c \in Callers, NEW r \in Requests, Call(c, r) PROVE Answers'
  <2>1. /\ UNCHANGED <<symbols, infoArray, known, found, holds>> /\ request' = [request EXCEPT ![c] = r]
        /\ holds[c] = {}
    BY <1>7 DEF Call, Runs, setup, caches, LinkerInv, Places
  <2>2. \A a, f : Genuine(a, f)' <=> Genuine(a, f)
    BY <2>1 DEF Genuine, Loaded
  <2> QED BY <2>1, <2>2
<1>8. ASSUME NEW c \in Callers, NEW b \in Batches, Load(c, b) PROVE Answers'
  <2>1. UNCHANGED <<symbols, known, found, holds, request>>
    BY <1>8 DEF Load, setup, caches
  <2>2. \A a, f : Genuine(a, f) => Genuine(a, f)'
    BY <1>8, <2>1, LoadFacts, GenuineStays
  <2> QED BY <2>1, <2>2
<1>9. ASSUME NEW c \in Callers, TakeSymbols(c) PROVE Answers'
  <2>1. /\ UNCHANGED <<symbols, infoArray, known, found, request>> /\ found[c] = Nothing
        /\ holds' = [holds EXCEPT ![c] = @ \cup (free \cap {"symbols"})]
    BY <1>9 DEF TakeSymbols, Runs, Exchange, setup, LinkerInv, Places
  <2>2. \A a, f : Genuine(a, f)' <=> Genuine(a, f)
    BY <2>1 DEF Genuine, Loaded
  <2>3. \A d \in Callers : d # c => holds'[d] = holds[d]
    BY <2>1
  <2> QED BY <2>1, <2>2, <2>3
<1>10. ASSUME NEW c \in Callers, Search(c) PROVE Answers'
  <2>1. UNCHANGED <<infoArray, known, holds, request>>
    BY <1>10 DEF Search, setup
  <2>2. \A a, f : Genuine(a, f)' <=> Genuine(a, f)
    BY <2>1 DEF Genuine, Loaded
  <2>3. CASE UNCHANGED <<symbols, found>>
    BY <2>1, <2>2, <2>3
  <2>4. CASE \E k \in DOMAIN symbols :
              /\ symbols[k].address = Arg(request[c])
              /\ found' = [found EXCEPT ![c] = symbols[k].found]
              /\ DOMAIN symbols' = DOMAIN symbols
              /\ \A j \in DOMAIN symbols : /\ symbols'[j].address = symbols[j].address
                                           /\ symbols'[j].found = symbols[j].found
    <3>1. PICK k \in DOMAIN symbols :
              /\ symbols[k].address = Arg(request[c])
              /\ found' = [found EXCEPT ![c] = symbols[k].found]
              /\ DOMAIN symbols' = DOMAIN symbols
              /\ \A j \in DOMAIN symbols : /\ symbols'[j].address = symbols[j].address
                                           /\ symbols'[j].found = symbols[j].found
      BY <2>4
    <3>2. Genuine(Arg(request[c]), symbols[k].found)
      BY <3>1
    <3>3. ASSUME NEW d \in Callers, "symbols" \in holds'[d], found'[d] \notin {Nothing, No}
          PROVE  Genuine(Arg(request[d]), found[d])'
      <4>1. request'[d] = request[d] /\ holds'[d] = holds[d]
        BY <2>1
      <4>2. CASE d = c
        <5>1. found'[d] = symbols[k].found
          BY <3>1, <4>2 DEF LinkerInv, LinkerTypeOK
        <5> QED BY <2>2, <3>2, <4>1, <4>2, <5>1
      <4>3. CASE d # c
        <5>1. found'[d] = found[d]
          BY <3>1, <4>3
        <5> QED BY <2>2, <3>3, <4>1, <5>1
      <4> QED BY <4>2, <4>3
    <3>4. \A j \in DOMAIN symbols' : Genuine(symbols[j].address, symbols[j].found)'
      BY <2>2, <3>1
    <3> QED BY <3>1, <3>3, <3>4
  <2> QED BY <1>10, <2>3, <2>4, SearchFacts
<1>11. ASSUME NEW c \in Callers, Store(c) PROVE Answers'
  <2>1. UNCHANGED <<infoArray, known, found, request>> /\ holds' = [holds EXCEPT ![c] = @ \ {"symbols"}]
    BY <1>11 DEF Store, Release, setup
  <2>2. \A a, f : Genuine(a, f)' <=> Genuine(a, f)
    BY <2>1 DEF Genuine, Loaded
  <2>3. \A d \in Callers : "symbols" \in holds'[d] => "symbols" \in holds[d]
    BY <2>1 DEF LinkerInv, LinkerTypeOK
  <2>4. CASE UNCHANGED symbols
    BY <2>1, <2>2, <2>3, <2>4
  <2>5. CASE /\ found[c] \notin {Nothing, No}
             /\ \A k \in DOMAIN symbols : symbols[k].address # Arg(request[c])
             /\ \E v \in DOMAIN symbols' :
                  /\ symbols'[v].address = Arg(request[c]) /\ symbols'[v].found = found[c]
                  /\ \A k \in DOMAIN symbols' \ {v} : k \in DOMAIN symbols /\ symbols'[k] = symbols[k]
    <3>1. PICK v \in DOMAIN symbols' :
                  /\ symbols'[v].address = Arg(request[c]) /\ symbols'[v].found = found[c]
                  /\ \A k \in DOMAIN symbols' \ {v} : k \in DOMAIN symbols /\ symbols'[k] = symbols[k]
      BY <2>5
    <3>2. Genuine(Arg(request[c]), found[c])
      <4>1. "symbols" \in holds[c]
        BY <1>11 DEF Store, Runs, LinkerInv, Places
      <4> QED BY <2>5, <4>1
    <3>3. \A k \in DOMAIN symbols' : Genuine(symbols[k].address, symbols[k].found)'
      BY <2>2, <3>1, <3>2
    <3>4. \A j, k \in DOMAIN symbols' : symbols'[j].address = symbols'[k].address => j = k
      BY <2>5, <3>1
    <3> QED BY <2>1, <2>2, <2>3, <3>3, <3>4
  <2> QED BY <1>11, <2>4, <2>5, StoreFacts
<1>12. ASSUME NEW c \in Callers, TakeImages(c) PROVE Answers'
  <2>1. UNCHANGED <<symbols, infoArray, known, found, request>> /\ holds' = [holds EXCEPT ![c] = @ \cup (free \cap {"images"})]
    BY <1>12 DEF TakeImages, Exchange, Runs, Release, setup, caches
  <2>2. \A a, f : Genuine(a, f)' <=> Genuine(a, f)
    BY <2>1 DEF Genuine, Loaded
  <2> QED BY <2>1, <2>2
<1>13. ASSUME NEW c \in Callers, LookUpAddress(c) PROVE Answers'
  <2>1. UNCHANGED <<symbols, infoArray, known, holds, request>>
    BY <1>13 DEF LookUpAddress, setup, caches
  <2>2. \A a, f : Genuine(a, f)' <=> Genuine(a, f)
    BY <2>1 DEF Genuine, Loaded
  <2>3. PICK h \in Loaded \cup {None}, full \in BOOLEAN :
              /\ h = None => (known => \A g \in Loaded : ~InSegments(g, Arg(request[c])))
              /\ h # None => known /\ InSegments(h, Arg(request[c]))
              /\ found' = [found EXCEPT ![c] = IF Op(request[c]) = "dladdr" THEN Symbolicated(h, Arg(request[c]))
                                                                              ELSE UnwindAnswer(h, full)]
              /\ \/ new' = [new EXCEPT ![c] = <<>>]
                 \/ h # None /\ "images" \in holds[c] /\ ~Cached(images, h) /\ new' = [new EXCEPT ![c] = <<h>>]
    BY <1>13, LookedUp
  <2>4. \A d \in Callers : d # c => found'[d] = found[d]
    BY <2>3
  <2>5. ASSUME "symbols" \in holds[c], found'[c] \notin {Nothing, No} PROVE Genuine(Arg(request[c]), found'[c])
    <3>1. Op(request[c]) = "dladdr" /\ request[c] \in Requests /\ found \in [Callers -> {found[d] : d \in Callers}]
      BY <1>13, <2>5, LookedUp DEF LinkerInv, Places, LinkerTypeOK
    <3>2. found'[c] = Symbolicated(h, Arg(request[c]))
      BY <2>3, <3>1
    <3>3. h \in Images \cup {None} /\ Arg(request[c]) \in Nat
      BY <1>13, <3>1, RequestFacts, LookedUp DEF Loaded, LinkerInv, LinkerTypeOK
    <3>4. h \in Images /\ h \notin Unlinked /\ found'[c] = <<"true", h, BestMatch(h, Arg(request[c]))>>
      BY <2>5, <3>2, <3>3, SymbolicatedFacts
    <3>5. h # None
      BY <3>4, LinkerAssumption
    <3> QED BY <2>3, <3>4, <3>5 DEF Genuine
  <2> QED BY <2>1, <2>2, <2>4, <2>5
<1>14. ASSUME NEW c \in Callers, LookUpHeader(c) PROVE Answers'
  <2>1. UNCHANGED <<symbols, infoArray, known, holds, request>> /\ "symbols" \notin holds[c]
    BY <1>14 DEF LookUpHeader, setup, caches, LinkerInv, Places
  <2>2. \A a, f : Genuine(a, f)' <=> Genuine(a, f)
    BY <2>1 DEF Genuine, Loaded
  <2>3. \A d \in Callers : d # c => found'[d] = found[d]
    BY <1>14, HeaderFacts
  <2> QED BY <2>1, <2>2, <2>3
<1>15. ASSUME NEW c \in Callers, Notified(c) PROVE Answers'
  <2>1. UNCHANGED <<symbols, infoArray, known, found, request>> /\ holds' = holds
    BY <1>15 DEF Notified, Runs, Release, setup, caches
  <2>2. \A a, f : Genuine(a, f)' <=> Genuine(a, f)
    BY <2>1 DEF Genuine, Loaded
  <2> QED BY <2>1, <2>2
<1>16. ASSUME NEW c \in Callers, Put(c) PROVE Answers'
  <2>1. UNCHANGED <<symbols, infoArray, known, found, request>> /\ holds' = [holds EXCEPT ![c] = @ \ {"images"}]
    BY <1>16 DEF Put, Runs, Release, setup, caches
  <2>2. \A a, f : Genuine(a, f)' <=> Genuine(a, f)
    BY <2>1 DEF Genuine, Loaded
  <2> QED BY <2>1, <2>2
<1>17. ASSUME NEW c \in Callers, Return(c) PROVE Answers'
  <2>1. /\ UNCHANGED <<symbols, infoArray, known, holds>> /\ holds[c] = {}
        /\ request' = [request EXCEPT ![c] = Nothing] /\ found' = [found EXCEPT ![c] = Nothing]
    BY <1>17 DEF Return, Runs, setup, caches, LinkerInv, Places
  <2>2. \A a, f : Genuine(a, f)' <=> Genuine(a, f)
    BY <2>1 DEF Genuine, Loaded
  <2> QED BY <2>1, <2>2
<1>18. ASSUME NEW c \in Callers, Stop(c) PROVE Answers'
  <2>1. UNCHANGED <<symbols, infoArray, known, found, request>> /\ holds' = holds
    BY <1>18 DEF Stop, Runs, Release, setup, caches
  <2>2. \A a, f : Genuine(a, f)' <=> Genuine(a, f)
    BY <2>1 DEF Genuine, Loaded
  <2> QED BY <2>1, <2>2
<1> QED
  BY <1>1, <1>2, <1>3, <1>4, <1>5, <1>6, <1>7, <1>8, <1>9, <1>10, <1>11, <1>12, <1>13, <1>14, <1>15, <1>16, <1>17, <1>18 DEF LinkerNext

\* The invariant holds when the process starts.
LEMMA InvInit == ASSUME LinkerInit PROVE LinkerInv
<1>1. infoArray \in Seq(Images) /\ MaxImages \in Nat /\ MaxSymbols \in Nat
  <2>1. PICK h \in Images : infoArray = <<h>>
    BY DEF LinkerInit
  <2> QED BY <2>1, LinkerAssumption
<1>2. LinkerTypeOK
  <2>1. /\ images \in Seq(Images) /\ Len(images) <= MaxImages
        /\ symbols \in Seq([address : Addresses, found : {"true"} \X Images \X Nat, hits : 1 .. MaxHits])
        /\ Len(symbols) <= MaxSymbols
    BY <1>1 DEF LinkerInit
  <2>2. new \in [Callers -> Seq(Images)]
    BY DEF LinkerInit
  <2>3. /\ free \subseteq {"images", "symbols"} /\ {initialized, known, notifier} \subseteq BOOLEAN
        /\ at \in [Callers -> {"idle", "infos", "cache", "hook", "symbolCache", "symbols",
                               "search", "images", "look", "put", "store", "done"}]
        /\ request \in [Callers -> Requests \cup {Nothing}]
        /\ holds \in [Callers -> SUBSET {"images", "symbols"}]
        /\ found \in [Callers -> {Nothing, No, <<"true">>} \cup ({"true"} \X Images) \cup ({"true"} \X Images \X Nat)]
        /\ stopped \subseteq Callers
    BY DEF LinkerInit
  <2> QED BY <1>1, <2>1, <2>2, <2>3 DEF LinkerTypeOK
<1>3. Exclusive
  BY DEF LinkerInit, Exclusive
<1>4. SetUp
  BY DEF LinkerInit, SetUp, Setup, Present
<1>5. Places
  BY DEF LinkerInit, Places, Setup, Looking
<1>6. Entries
  BY DEF LinkerInit, Entries, Sorted, Looking
<1>7. Answers
  BY DEF LinkerInit, Answers
<1> QED BY <1>2, <1>3, <1>4, <1>5, <1>6, <1>7 DEF LinkerInv

\* Every step keeps it.
LEMMA InvNext == ASSUME LinkerInv, [LinkerNext]_linkerVars PROVE LinkerInv'
  BY TypeNext, ExclusiveNext, SetUpNext, PlacesNext, EntriesNext, AnswersNext DEF LinkerInv

\* It implies that the caches are sound.
LEMMA InvSound == ASSUME LinkerInv PROVE LinkerCachesSound
<1>1. CachesSound
  BY DEF LinkerInv, Entries, Sorted, Answers, CachesSound
<1>2. ASSUME NEW cache \in {"images", "symbols"}
      PROVE  LET holders == {c \in Callers : cache \in holds[c]}
             IN  /\ Cardinality(holders) <= 1
                 /\ cache \in free => holders = {}
                 /\ (cache = "images" /\ notifier) \/ (cache = "symbols" /\ symbols # <<>>)
                      => cache \in free \/ holders # {}
  <2> DEFINE holders == {c \in Callers : cache \in holds[c]}
  <2>1. \A c, d \in holders : c = d
    BY DEF LinkerInv, Exclusive
  <2>2. Cardinality(holders) <= 1
    <3>1. CASE holders = {}
      BY <3>1, FS_EmptySet
    <3>2. CASE holders # {}
      <4>1. PICK c \in holders : TRUE
        BY <3>2
      <4>2. holders = {c}
        BY <2>1, <4>1
      <4>3. Cardinality({c}) = 1
        BY FS_Singleton
      <4> HIDE DEF holders
      <4> QED BY <4>2, <4>3
    <3> QED BY <3>1, <3>2
  <2>3. cache \in free => holders = {}
    BY DEF LinkerInv, Exclusive
  <2>4. (cache = "images" /\ notifier) \/ (cache = "symbols" /\ symbols # <<>>)
          => cache \in free \/ holders # {}
    BY DEF LinkerInv, SetUp, Present
  <2> QED BY <2>2, <2>3, <2>4
<1> QED BY <1>1, <1>2 DEF LinkerCachesSound, OneHolder

\* "lock-free exclusive access" and "must be sorted by startAddress": for any
\* number of callers, images and cache sizes, a cache is with one caller at most,
\* none is lost, and both stay sorted and without duplicates.
THEOREM LinkerCachesExact == LinkerSpec => []LinkerCachesSound
<1>1. LinkerInit => LinkerInv
  BY InvInit
<1>2. LinkerInv /\ [LinkerNext]_linkerVars => LinkerInv'
  BY InvNext
<1>3. LinkerInv => LinkerCachesSound
  BY InvSound
<1> QED BY <1>1, <1>2, <1>3, PTL DEF LinkerSpec

-----------------------------------------------------------------------------
(***************************************************************************)
(* The lookup without caches is implemented                                *)
(***************************************************************************)
\* The constants of the specification of the lookup are those of the caches.
LEMMA SameNames == Lookup!Nothing = Nothing /\ Lookup!No = No /\ Lookup!None = None /\ Lookup!Requests = Requests
  BY DEF Lookup!Nothing, Nothing, Lookup!No, No, Lookup!None, None, Lookup!Requests, Requests

\* The answers of the lookup without caches
LEMMA RightAddress ==
  ASSUME infoArray \in Seq(Images), known \in BOOLEAN, NEW r \in Requests, Op(r) # "header",
         NEW h \in Loaded \cup {None}, NEW full \in BOOLEAN,
         h = None => (known => \A g \in Loaded : ~InSegments(g, Arg(r))),
         h # None => known /\ InSegments(h, Arg(r))
  PROVE  (IF Op(r) = "dladdr" THEN Symbolicated(h, Arg(r)) ELSE UnwindAnswer(h, full)) \in Lookup!Right(r)
<1> DEFINE a == Arg(r)
           image == IF r[1] = "header" THEN r[2] ELSE IF known THEN Lookup!ImageAt(r[2]) ELSE Lookup!None
<1>1. a \in Nat /\ a \in Addresses /\ r[1] \in {"dladdr", "unwind"} /\ r[2] = a /\ Op(r) = r[1]
  BY RequestFacts DEF Op, Arg
<1>2. Loaded \subseteq Images /\ None \notin Images
  BY LinkerAssumption DEF Loaded
<1>3. image = h
  <2> image = IF known THEN Lookup!ImageAt(a) ELSE None
    <3> HIDE DEF a
    <3> QED BY <1>1, SameNames
  <2> HIDE DEF image
  <2>1. CASE h = None
    <3>1. known => Lookup!ImageAt(a) = None
      BY <1>1, <2>1, AtExact
    <3> HIDE DEF a
    <3> QED BY <2>1, <3>1
  <2>2. CASE h # None
    <3>1. known /\ h \in Loaded /\ InSegments(h, a)
      BY <2>2
    <3>2. Lookup!ImageAt(a) = h
      <4> HIDE DEF a
      <4> QED BY <1>1, <3>1, AtExact
    <3> HIDE DEF a
    <3> QED BY <3>1, <3>2
  <2> QED BY <2>1, <2>2
<1>4. Lookup!Right(r) =
        CASE image = None                              -> {No}
          [] r[1] = "header"                           -> {IF Lookup!Kept(image) = <<>> THEN No ELSE <<"true", image>>}
          [] r[1] = "unwind" /\ image # None           -> {<<"true", image>>, <<"true">>}
          [] r[1] = "dladdr" /\ image \in Unlinked     -> {No}
          [] r[1] = "dladdr" /\ image \notin Unlinked \cup {None} ->
               {<<"true", image, k>> : k \in IF Lookup!Before(image, r[2]) = {} THEN {0} ELSE Lookup!Closest(image, r[2])}
  BY SameNames DEF Lookup!Right
<1> HIDE DEF image
<1>5. CASE h = None
  <2>1. Lookup!Right(r) = {No}
    BY <1>1, <1>3, <1>4, <1>5
  <2>2. Symbolicated(h, a) = No /\ UnwindAnswer(h, full) = No
    BY <1>5 DEF Symbolicated, UnwindAnswer
  <2> QED BY <2>1, <2>2
<1>6. CASE h # None /\ r[1] = "unwind"
  <2>1. Lookup!Right(r) = {<<"true", h>>, <<"true">>}
    BY <1>3, <1>4, <1>6
  <2>2. UnwindAnswer(h, full) \in {<<"true", h>>, <<"true">>}
    BY <1>6 DEF UnwindAnswer
  <2> QED BY <1>1, <1>6, <2>1, <2>2
<1>7. CASE h # None /\ r[1] = "dladdr" /\ h \in Unlinked
  <2>1. Lookup!Right(r) = {No}
    BY <1>3, <1>4, <1>7
  <2>2. Symbolicated(h, a) = No
    BY <1>7 DEF Symbolicated
  <2> QED BY <1>1, <1>7, <2>1, <2>2
<1>8. CASE h # None /\ r[1] = "dladdr" /\ h \notin Unlinked
  <2>1. Lookup!Right(r) = {<<"true", h, k>> : k \in IF Lookup!Before(h, a) = {} THEN {0} ELSE Lookup!Closest(h, a)}
    BY <1>1, <1>3, <1>4, <1>8
  <2>2. Symbolicated(h, a) = <<"true", h, BestMatch(h, a)>>
    BY <1>8 DEF Symbolicated
  <2>3. h \in Images
    BY <1>2, <1>8
  <2>4. BestMatch(h, a) \in IF Lookup!Before(h, a) = {} THEN {0} ELSE Lookup!Closest(h, a)
    BY <1>1, <2>3, BestMatchExact
  <2> HIDE DEF a
  <2>5. Symbolicated(h, a) \in Lookup!Right(r)
    BY <2>1, <2>2, <2>4
  <2> QED BY <1>1, <1>8, <2>5 DEF a
<1> QED BY <1>1, <1>5, <1>6, <1>7, <1>8

\* ksbic_getUnwindInfoForHeader() answers for the image it is asked for.
LEMMA RightHeader ==
  ASSUME NEW r \in Requests, Op(r) = "header"
  PROVE  (IF Populates(Arg(r)) THEN <<"true", Arg(r)>> ELSE No) \in Lookup!Right(r)
<1> DEFINE h == Arg(r)
<1>1. h \in Images /\ h # None /\ r[1] = "header" /\ r[2] = h
  BY RequestFacts, LinkerAssumption DEF Op, Arg
<1>2. Lookup!Kept(h) = Kept(h)
  BY DEF Lookup!Kept, Kept, Lookup!Content, Content
<1>3. Lookup!Right(r) = {IF Lookup!Kept(h) = <<>> THEN No ELSE <<"true", h>>}
  <2> HIDE DEF h
  <2> QED BY <1>1, SameNames DEF Lookup!Right
<1>4. Kept(h) = <<>> <=> ~Populates(h)
  BY <1>1, KeptFacts
<1> HIDE DEF h
<1>5. CASE Populates(h)
  <2>1. Lookup!Right(r) = {<<"true", h>>}
    BY <1>2, <1>3, <1>4, <1>5
  <2> QED BY <1>5, <2>1 DEF h
<1>6. CASE ~Populates(h)
  <2>1. Lookup!Right(r) = {No}
    BY <1>2, <1>3, <1>4, <1>6
  <2> QED BY <1>6, <2>1 DEF h
<1> QED BY <1>5, <1>6

\* The initial states are those of the lookup without caches.
LEMMA SimulatesInit == ASSUME LinkerInit PROVE Lookup!Init
<1>1. PICK h \in Images : infoArray = <<h>>
  BY DEF LinkerInit
<1>2. \A k \in DOMAIN infoArray : infoArray[k] \in Images
  BY <1>1
<1> QED BY <1>2, SameNames DEF LinkerInit, Lookup!Init

\* Every step is one of the lookup without caches, or changes nothing that it has.
LEMMA SimulatesNext == ASSUME LinkerInv, [LinkerNext]_linkerVars PROVE [Lookup!Next]_(Lookup!vars)
<1>1. CASE UNCHANGED linkerVars
  BY <1>1 DEF linkerVars, setup, caller, Lookup!vars
<1>2. ASSUME NEW c \in Callers, InitBegins(c) PROVE [Lookup!Next]_(Lookup!vars)
  <2>1. UNCHANGED <<infoArray, known, request, found>>
    BY <1>2 DEF InitBegins, setup, Exchange, Release
  <2> QED BY <2>1 DEF Lookup!vars
<1>3. ASSUME NEW c \in Callers, InitInfos(c) PROVE [Lookup!Next]_(Lookup!vars)
  <2>1. UNCHANGED <<infoArray, request, found>> /\ known' \in BOOLEAN
    BY <1>3 DEF InitInfos
  <2>2. known = FALSE
    BY <1>3 DEF InitInfos, Runs, LinkerInv, LinkerTypeOK, SetUp
  <2>3. CASE known' = TRUE
    <3>1. Lookup!Ready
      BY <2>1, <2>3 DEF Lookup!Ready
    <3> QED BY <3>1 DEF Lookup!Next
  <2>4. CASE known' = FALSE
    BY <2>1, <2>2, <2>4 DEF Lookup!vars
  <2> QED BY <2>1, <2>3, <2>4
<1>4. ASSUME NEW c \in Callers, InitImageCache(c) PROVE [Lookup!Next]_(Lookup!vars)
  <2>1. UNCHANGED <<infoArray, known, request, found>>
    BY <1>4 DEF InitImageCache, setup, Exchange, Release
  <2> QED BY <2>1 DEF Lookup!vars
<1>5. ASSUME NEW c \in Callers, InitNotifier(c) PROVE [Lookup!Next]_(Lookup!vars)
  <2>1. UNCHANGED <<infoArray, known, request, found>>
    BY <1>5 DEF InitNotifier, setup, Exchange, Release
  <2> QED BY <2>1 DEF Lookup!vars
<1>6. ASSUME NEW c \in Callers, InitSymbolCache(c) PROVE [Lookup!Next]_(Lookup!vars)
  <2>1. UNCHANGED <<infoArray, known, request, found>>
    BY <1>6 DEF InitSymbolCache, setup, Exchange, Release
  <2> QED BY <2>1 DEF Lookup!vars
<1>7. ASSUME NEW c \in Callers, NEW r \in Requests, Call(c, r) PROVE [Lookup!Next]_(Lookup!vars)
  <2>1. UNCHANGED <<infoArray, known, found>> /\ request' = [request EXCEPT ![c] = r]
    BY <1>7 DEF Call, setup
  <2>2. request[c] = Nothing
    BY <1>7 DEF Call, Runs, LinkerInv, Places
  <2>3. Lookup!Ask(c)
    BY <2>1, <2>2, SameNames DEF Lookup!Ask
  <2> QED BY <2>3 DEF Lookup!Next
<1>8. ASSUME NEW c \in Callers, NEW b \in Batches, Load(c, b) PROVE [Lookup!Next]_(Lookup!vars)
  <2>1. UNCHANGED <<known, request, found>>
    BY <1>8 DEF Load, setup
  <2>2. infoArray' \in Seq(Images) /\ Loaded \subseteq Loaded'
    BY <1>8, LoadFacts
  <2>3. Loaded' \in SUBSET Images
    BY <2>2 DEF Loaded
  <2>4. Lookup!Load
    BY <2>1, <2>2, <2>3 DEF Lookup!Load, Loaded
  <2> QED BY <2>4 DEF Lookup!Next
<1>9. ASSUME NEW c \in Callers, TakeSymbols(c) PROVE [Lookup!Next]_(Lookup!vars)
  <2>1. UNCHANGED <<infoArray, known, request, found>>
    BY <1>9 DEF TakeSymbols, setup, Exchange, Release
  <2> QED BY <2>1 DEF Lookup!vars
<1>10. ASSUME NEW c \in Callers, Search(c) PROVE [Lookup!Next]_(Lookup!vars)
  <2>1. UNCHANGED <<infoArray, known, request>>
    BY <1>10 DEF Search, setup
  <2>2. CASE UNCHANGED <<symbols, found>>
    BY <2>1, <2>2 DEF Lookup!vars
  <2>3. CASE \E k \in DOMAIN symbols :
              /\ symbols[k].address = Arg(request[c])
              /\ found' = [found EXCEPT ![c] = symbols[k].found]
    <3>1. PICK k \in DOMAIN symbols :
              /\ symbols[k].address = Arg(request[c])
              /\ found' = [found EXCEPT ![c] = symbols[k].found]
      BY <2>3
    <3>2. /\ request[c] # Nothing /\ found[c] = Nothing /\ Op(request[c]) = "dladdr" /\ request[c] \in Requests
          /\ infoArray \in Seq(Images) /\ known \in BOOLEAN
      BY <1>10 DEF Search, Runs, LinkerInv, LinkerTypeOK, Places, Looking
    <3>3. Genuine(Arg(request[c]), symbols[k].found)
      BY <3>1 DEF LinkerInv, Answers
    <3>4. PICK h \in Loaded : /\ known /\ InSegments(h, Arg(request[c])) /\ h \notin Unlinked
                              /\ symbols[k].found = <<"true", h, BestMatch(h, Arg(request[c]))>>
      BY <3>3 DEF Genuine
    <3>5. h # None
      BY <3>2, LinkerAssumption DEF Loaded
    <3>6. symbols[k].found = Symbolicated(h, Arg(request[c]))
      BY <3>4, <3>5 DEF Symbolicated
    <3>7. symbols[k].found \in Lookup!Right(request[c])
      BY <3>2, <3>4, <3>5, <3>6, RightAddress
    <3>8. Lookup!Answer(c)
      BY <2>1, <3>1, <3>2, <3>7, SameNames DEF Lookup!Answer
    <3> QED BY <3>8 DEF Lookup!Next
  <2> QED BY <1>10, <2>2, <2>3, SearchFacts
<1>11. ASSUME NEW c \in Callers, Store(c) PROVE [Lookup!Next]_(Lookup!vars)
  <2>1. UNCHANGED <<infoArray, known, request, found>>
    BY <1>11 DEF Store, setup, Exchange, Release
  <2> QED BY <2>1 DEF Lookup!vars
<1>12. ASSUME NEW c \in Callers, TakeImages(c) PROVE [Lookup!Next]_(Lookup!vars)
  <2>1. UNCHANGED <<infoArray, known, request, found>>
    BY <1>12 DEF TakeImages, setup, Exchange, Release
  <2> QED BY <2>1 DEF Lookup!vars
<1>13. ASSUME NEW c \in Callers, LookUpAddress(c) PROVE [Lookup!Next]_(Lookup!vars)
  <2> DEFINE r == request[c]
             f(h, full) == IF Op(r) = "dladdr" THEN Symbolicated(h, Arg(r)) ELSE UnwindAnswer(h, full)
  <2>1. UNCHANGED <<infoArray, known, request>> /\ request[c] # Nothing
    BY <1>13 DEF LookUpAddress, setup
  <2>2. /\ found[c] = Nothing /\ infoArray \in Seq(Images) /\ known \in BOOLEAN
    BY <1>13 DEF LookUpAddress, Runs, LinkerInv, LinkerTypeOK, Places
  <2>3. r \in Requests /\ Op(r) \in {"dladdr", "unwind"}
    BY <1>13, LookedUp
  <2>4. PICK h \in Loaded \cup {None}, full \in BOOLEAN :
              /\ h = None => (known => \A g \in Loaded : ~InSegments(g, Arg(r)))
              /\ h # None => known /\ InSegments(h, Arg(r))
              /\ found' = [found EXCEPT ![c] = f(h, full)]
    BY <1>13, LookedUp
  <2>5. f(h, full) \in Lookup!Right(r)
    <3> HIDE DEF r
    <3> QED BY <2>2, <2>3, <2>4, RightAddress
  <2>6. Lookup!Answer(c)
    <3> HIDE DEF f
    <3> QED BY <2>1, <2>2, <2>4, <2>5, SameNames DEF Lookup!Answer
  <2> QED BY <2>6 DEF Lookup!Next
<1>14. ASSUME NEW c \in Callers, LookUpHeader(c) PROVE [Lookup!Next]_(Lookup!vars)
  <2> DEFINE f == IF Populates(Arg(request[c])) THEN <<"true", Arg(request[c])>> ELSE No
  <2>1. UNCHANGED <<infoArray, known, request>> /\ request[c] # Nothing
    BY <1>14 DEF LookUpHeader, setup
  <2>2. found[c] = Nothing /\ request[c] \in Requests
    BY <1>14 DEF LookUpHeader, Runs, LinkerInv, LinkerTypeOK, Places
  <2>3. Op(request[c]) = "header" /\ found' = [found EXCEPT ![c] = f]
    BY <1>14, HeaderFacts
  <2>4. f \in Lookup!Right(request[c])
    BY <2>2, <2>3, RightHeader
  <2>5. Lookup!Answer(c)
    <3> HIDE DEF f
    <3> QED BY <2>1, <2>2, <2>3, <2>4, SameNames DEF Lookup!Answer
  <2> QED BY <2>5 DEF Lookup!Next
<1>15. ASSUME NEW c \in Callers, Notified(c) PROVE [Lookup!Next]_(Lookup!vars)
  <2>1. UNCHANGED <<infoArray, known, request, found>>
    BY <1>15 DEF Notified, setup, Exchange, Release
  <2> QED BY <2>1 DEF Lookup!vars
<1>16. ASSUME NEW c \in Callers, Put(c) PROVE [Lookup!Next]_(Lookup!vars)
  <2>1. UNCHANGED <<infoArray, known, request, found>>
    BY <1>16 DEF Put, setup, Exchange, Release
  <2> QED BY <2>1 DEF Lookup!vars
<1>17. ASSUME NEW c \in Callers, Return(c) PROVE [Lookup!Next]_(Lookup!vars)
  <2>1. /\ UNCHANGED <<infoArray, known>> /\ request' = [request EXCEPT ![c] = Nothing]
        /\ found' = [found EXCEPT ![c] = Nothing]
    BY <1>17 DEF Return, setup
  <2>2. /\ found[c] = Nothing <=> request[c] = Nothing
        /\ request \in [Callers -> Requests \cup {Nothing}] /\ DOMAIN found = Callers
    BY <1>17 DEF Return, Runs, LinkerInv, LinkerTypeOK, Places, Looking
  <2>3. CASE found[c] # Nothing
    <3>1. Lookup!Return(c)
      BY <2>1, <2>3, SameNames DEF Lookup!Return
    <3> QED BY <3>1 DEF Lookup!Next
  <2>4. CASE found[c] = Nothing
    <3>1. found' = found /\ request' = request
      <4>1. found = [d \in Callers |-> found[d]]
        BY <1>17 DEF LinkerInv, LinkerTypeOK
      <4> QED BY <2>1, <2>2, <2>4, <4>1
    <3> QED BY <2>1, <3>1 DEF Lookup!vars
  <2> QED BY <2>3, <2>4
<1>18. ASSUME NEW c \in Callers, Stop(c) PROVE [Lookup!Next]_(Lookup!vars)
  <2>1. UNCHANGED <<infoArray, known, request, found>>
    BY <1>18 DEF Stop, setup, Exchange, Release
  <2> QED BY <2>1 DEF Lookup!vars
<1> QED
  BY <1>1, <1>2, <1>3, <1>4, <1>5, <1>6, <1>7, <1>8, <1>9, <1>10, <1>11, <1>12, <1>13, <1>14, <1>15, <1>16, <1>17, <1>18 DEF LinkerNext

\* ksdl_dladdr(), ksbic_getUnwindInfoForAddress() and ..ForHeader(): in spite of
\* caches that others hold, are full or are lost with a suspended caller, each
\* lookup is answered as if there was no cache.
THEOREM LinkerAnswers == LinkerSpec => LinkerImplements
<1>1. LinkerInit => LinkerInv /\ Lookup!Init
  BY InvInit, SimulatesInit
<1>2. LinkerInv /\ [LinkerNext]_linkerVars => LinkerInv' /\ [Lookup!Next]_(Lookup!vars)
  BY InvNext, SimulatesNext
<1> QED BY <1>1, <1>2, PTL DEF LinkerSpec, LinkerImplements, Lookup!Spec
=============================================================================
