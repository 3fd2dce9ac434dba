------------------------- MODULE KSThreadCacheProofs -------------------------
(***************************************************************************)
(* Whatever the number of caches and of report writers, and whatever the   *)
(* background thread does: no pointer is ever left to a freed cache, and   *)
(* at most one cache is ever lost; before two writers have frozen the      *)
(* cache at once, no name is ever read from a freed cache, and until then  *)
(* and until a writer faults no cache is lost.                             *)
(***************************************************************************)
EXTENDS KSThreadCache, TLAPS

\* Every pointer that may be used is NULL or points to an allocated cache.
Live ==
  /\ \A p \in {active, frozen, old} : p = NULL \/ p \in allocated
  /\ \A w \in Writers : hand[w] = NULL \/ hand[w] \in allocated

\* The places a cache can be in never hold the same one: the cache that the
\* background thread is about to free is in no other place.
Apart ==
  /\ old # NULL => old # active /\ old # frozen
  /\ \A w \in Writers : hand[w] # NULL => hand[w] # old

\* There is one cache in use at the most, in one place: the exchanges only move
\* it, and while the background thread builds a new one the old one is with it
\* alone.  No condition on the writers is needed.
OnePlace ==
  /\ active # NULL => frozen = NULL
  /\ updater = "building" => active = NULL /\ frozen = NULL
  /\ \A w \in Writers :
       hand[w] # NULL => active = NULL /\ frozen = NULL /\ updater # "building"
  /\ \A v, w \in Writers : v # w => hand[v] = NULL \/ hand[w] = NULL

\* What the writer's local variables hold at each point.
Local ==
  \A w \in Writers :
    /\ hand[w] # NULL => pc[w] \in {"taken", "unfreezing"}
    /\ held[w] # NULL => pc[w] = "reading"

\* Until two writers have frozen the cache at once, there is one of them at the
\* most between freeze and unfreeze, and it reads the cache that is frozen.
Alone ==
  ~overlapped =>
    /\ \A v, w \in Writers : Busy(v) /\ Busy(w) => v = w
    /\ \A w \in Writers : held[w] # NULL => held[w] = frozen

CacheInv == TypeOK /\ Live /\ Apart /\ OnePlace /\ Local /\ Alone

\* The initial cache is in g_activeCache only.
LEMMA InitCacheInv == Init => CacheInv
  BY CacheAssumption DEF Init, CacheInv, TypeOK, Live, Apart, OnePlace, Local, Alone, Busy, Pointer

\* A step of the background thread keeps the places apart.
LEMMA UpdateCacheInv == CacheInv /\ Update => CacheInv'
<1> SUFFICES ASSUME CacheInv, Update PROVE CacheInv'
  OBVIOUS
<1> USE CacheAssumption DEF Pointer
<1>1. CASE Acquire
  <2>1. TypeOK'
    BY <1>1 DEF CacheInv, TypeOK, Acquire, process
  <2>2. Live'
    BY <1>1 DEF CacheInv, TypeOK, Live, Apart, Acquire, process
  <2>3. Apart'
    BY <1>1 DEF CacheInv, TypeOK, Live, Apart, OnePlace, Acquire, process
  <2>4. OnePlace'
    BY <1>1 DEF CacheInv, TypeOK, OnePlace, Local, Acquire, process
  <2>5. Local'
    BY <1>1 DEF CacheInv, TypeOK, Local, Acquire, process
  <2>6. Alone'
    BY <1>1 DEF CacheInv, TypeOK, Alone, Local, Busy, Acquire, process
  <2>7. QED  BY <2>1, <2>2, <2>3, <2>4, <2>5, <2>6 DEF CacheInv
<1>2. CASE BuildFails
  <2>1. TypeOK'
    BY <1>2 DEF CacheInv, TypeOK, BuildFails, process
  <2>2. Live'
    BY <1>2 DEF CacheInv, TypeOK, Live, Apart, BuildFails, process
  <2>3. Apart'
    BY <1>2 DEF CacheInv, TypeOK, Live, Apart, OnePlace, BuildFails, process
  <2>4. OnePlace'
    BY <1>2 DEF CacheInv, TypeOK, OnePlace, Local, BuildFails, process
  <2>5. Local'
    BY <1>2 DEF CacheInv, TypeOK, Local, BuildFails, process
  <2>6. Alone'
    BY <1>2 DEF CacheInv, TypeOK, Alone, Local, Busy, BuildFails, process
  <2>7. QED  BY <2>1, <2>2, <2>3, <2>4, <2>5, <2>6 DEF CacheInv
<1>3. CASE Build
  <2>1. PICK c \in Caches \ allocated :
           allocated' = allocated \cup {c} /\ active' = c /\ new' = c
    BY <1>3 DEF Build
  <2>2. TypeOK'
    BY <1>3, <2>1 DEF CacheInv, TypeOK, Build, process
  <2>3. Live'
    BY <1>3, <2>1 DEF CacheInv, TypeOK, Live, Apart, Build, process
  <2>4. Apart'
    BY <1>3, <2>1 DEF CacheInv, TypeOK, Live, Apart, OnePlace, Build, process
  <2>5. OnePlace'
    BY <1>3, <2>1 DEF CacheInv, TypeOK, OnePlace, Local, Build, process
  <2>6. Local'
    BY <1>3, <2>1 DEF CacheInv, TypeOK, Local, Build, process
  <2>7. Alone'
    BY <1>3, <2>1 DEF CacheInv, TypeOK, Alone, Local, Busy, Build, process
  <2>8. QED  BY <2>2, <2>3, <2>4, <2>5, <2>6, <2>7 DEF CacheInv
<1>4. CASE Free
  <2>1. TypeOK'
    BY <1>4 DEF CacheInv, TypeOK, Free, pointers, process
  <2>2. Live'
    BY <1>4 DEF CacheInv, TypeOK, Live, Apart, Free, pointers, process
  <2>3. Apart'
    BY <1>4 DEF CacheInv, TypeOK, Live, Apart, OnePlace, Free, pointers, process
  <2>4. OnePlace'
    BY <1>4 DEF CacheInv, TypeOK, OnePlace, Local, Free, pointers, process
  <2>5. Local'
    BY <1>4 DEF CacheInv, TypeOK, Local, Free, pointers, process
  <2>6. Alone'
    BY <1>4 DEF CacheInv, TypeOK, Alone, Local, Busy, Free, pointers, process
  <2>7. QED  BY <2>1, <2>2, <2>3, <2>4, <2>5, <2>6 DEF CacheInv
<1>5. QED  BY <1>1, <1>2, <1>3, <1>4 DEF Update

-----------------------------------------------------------------------------
\* A step of a report writer keeps the places apart, whatever the others do.
LEMMA WriterCacheInv ==
  ASSUME CacheInv, NEW w \in Writers, Begin(w) \/ Write(w) \/ Recrash(w)
  PROVE  CacheInv'
<1> USE CacheAssumption DEF Pointer, Step
<1>1. CASE Begin(w)
  <2>1. TypeOK'
    BY <1>1 DEF CacheInv, TypeOK, Begin, pointers, updating
  <2>2. Live'
    BY <1>1 DEF CacheInv, TypeOK, Live, Apart, Begin, pointers, updating
  <2>3. Apart'
    BY <1>1 DEF CacheInv, TypeOK, Live, Apart, OnePlace, Begin, pointers, updating
  <2>4. OnePlace'
    BY <1>1 DEF CacheInv, TypeOK, OnePlace, Local, Begin, pointers, updating
  <2>5. Local'
    BY <1>1 DEF CacheInv, TypeOK, Local, Begin, pointers, updating
  <2>6. Alone'
    BY <1>1 DEF CacheInv, TypeOK, Alone, Local, Busy, Begin, pointers, updating
  <2>7. QED  BY <2>1, <2>2, <2>3, <2>4, <2>5, <2>6 DEF CacheInv
<1>2. CASE Freeze(w)
  <2>1. TypeOK'
    BY <1>2 DEF CacheInv, TypeOK, Freeze, TakeActive, updating, process
  <2>2. Live'
    BY <1>2 DEF CacheInv, TypeOK, Live, Apart, Freeze, TakeActive, updating, process
  <2>3. Apart'
    BY <1>2 DEF CacheInv, TypeOK, Live, Apart, OnePlace, Freeze, TakeActive, updating, process
  <2>4. OnePlace'
    BY <1>2 DEF CacheInv, TypeOK, OnePlace, Local, Freeze, TakeActive, updating, process
  <2>5. Local'
    BY <1>2 DEF CacheInv, TypeOK, Local, Freeze, TakeActive, updating, process
  <2>6. Alone'
    <3>1. ~overlapped' => ~overlapped /\ \A v \in Writers : v # w => ~Busy(v)
      BY <1>2 DEF Freeze
    <3>2. \A v \in Writers : v # w => (Busy(v)' <=> Busy(v))
      BY <1>2 DEF CacheInv, TypeOK, Freeze, Busy
    <3>3. \A v \in Writers : held'[v] # NULL => held[v] # NULL /\ Busy(v) /\ v # w
      BY <1>2 DEF CacheInv, TypeOK, Local, Freeze, Busy
    <3>4. QED  BY <3>1, <3>2, <3>3 DEF Alone
  <2>7. QED  BY <2>1, <2>2, <2>3, <2>4, <2>5, <2>6 DEF CacheInv
<1>3. CASE FreezeRetry(w)
  <2>1. TypeOK'
    BY <1>3 DEF CacheInv, TypeOK, FreezeRetry, TakeActive, updating, process
  <2>2. Live'
    BY <1>3 DEF CacheInv, TypeOK, Live, Apart, FreezeRetry, TakeActive, updating, process
  <2>3. Apart'
    BY <1>3 DEF CacheInv, TypeOK, Live, Apart, OnePlace, FreezeRetry, TakeActive, updating, process
  <2>4. OnePlace'
    BY <1>3 DEF CacheInv, TypeOK, OnePlace, Local, FreezeRetry, TakeActive, updating, process
  <2>5. Local'
    BY <1>3 DEF CacheInv, TypeOK, Local, FreezeRetry, TakeActive, updating, process
  <2>6. Alone'
    BY <1>3 DEF CacheInv, TypeOK, Alone, Local, Busy, FreezeRetry, TakeActive, updating, process
  <2>7. QED  BY <2>1, <2>2, <2>3, <2>4, <2>5, <2>6 DEF CacheInv
<1>4. CASE StoreFrozen(w)
  <2>1. TypeOK'
    BY <1>4 DEF CacheInv, TypeOK, StoreFrozen, updating, process
  <2>2. Live'
    BY <1>4 DEF CacheInv, TypeOK, Live, Apart, StoreFrozen, updating, process
  <2>3. Apart'
    BY <1>4 DEF CacheInv, TypeOK, Live, Apart, OnePlace, StoreFrozen, updating, process
  <2>4. OnePlace'
    BY <1>4 DEF CacheInv, TypeOK, OnePlace, Local, StoreFrozen, updating, process
  <2>5. Local'
    BY <1>4 DEF CacheInv, TypeOK, Local, StoreFrozen, updating, process
  <2>6. Alone'
    BY <1>4 DEF CacheInv, TypeOK, Alone, Local, Busy, StoreFrozen, updating, process
  <2>7. QED  BY <2>1, <2>2, <2>3, <2>4, <2>5, <2>6 DEF CacheInv
<1>5. CASE LookUp(w)
  <2>1. TypeOK'
    BY <1>5 DEF CacheInv, TypeOK, LookUp, pointers, updating, process
  <2>2. Live'
    BY <1>5 DEF CacheInv, TypeOK, Live, Apart, LookUp, pointers, updating, process
  <2>3. Apart'
    BY <1>5 DEF CacheInv, TypeOK, Live, Apart, OnePlace, LookUp, pointers, updating, process
  <2>4. OnePlace'
    BY <1>5 DEF CacheInv, TypeOK, OnePlace, Local, LookUp, pointers, updating, process
  <2>5. Local'
    BY <1>5 DEF CacheInv, TypeOK, Local, LookUp, pointers, updating, process
  <2>6. Alone'
    BY <1>5 DEF CacheInv, TypeOK, Alone, Local, Busy, LookUp, pointers, updating, process
  <2>7. QED  BY <2>1, <2>2, <2>3, <2>4, <2>5, <2>6 DEF CacheInv
<1>6. CASE ThreadsWritten(w)
  <2>1. TypeOK'
    BY <1>6 DEF CacheInv, TypeOK, ThreadsWritten, pointers, updating
  <2>2. Live'
    BY <1>6 DEF CacheInv, TypeOK, Live, Apart, ThreadsWritten, pointers, updating
  <2>3. Apart'
    BY <1>6 DEF CacheInv, TypeOK, Live, Apart, OnePlace, ThreadsWritten, pointers, updating
  <2>4. OnePlace'
    BY <1>6 DEF CacheInv, TypeOK, OnePlace, Local, ThreadsWritten, pointers, updating
  <2>5. Local'
    BY <1>6 DEF CacheInv, TypeOK, Local, ThreadsWritten, pointers, updating
  <2>6. Alone'
    BY <1>6 DEF CacheInv, TypeOK, Alone, Local, Busy, ThreadsWritten, pointers, updating
  <2>7. QED  BY <2>1, <2>2, <2>3, <2>4, <2>5, <2>6 DEF CacheInv
<1>7. CASE Unfreeze(w)
  <2>1. TypeOK'
    BY <1>7 DEF CacheInv, TypeOK, Unfreeze, updating, process
  <2>2. Live'
    BY <1>7 DEF CacheInv, TypeOK, Live, Apart, Unfreeze, updating, process
  <2>3. Apart'
    BY <1>7 DEF CacheInv, TypeOK, Live, Apart, OnePlace, Unfreeze, updating, process
  <2>4. OnePlace'
    BY <1>7 DEF CacheInv, TypeOK, OnePlace, Local, Unfreeze, updating, process
  <2>5. Local'
    BY <1>7 DEF CacheInv, TypeOK, Local, Unfreeze, updating, process
  <2>6. Alone'
    BY <1>7 DEF CacheInv, TypeOK, Alone, Local, Busy, Unfreeze, updating, process
  <2>7. QED  BY <2>1, <2>2, <2>3, <2>4, <2>5, <2>6 DEF CacheInv
<1>8. CASE StoreActive(w)
  <2>1. TypeOK'
    BY <1>8 DEF CacheInv, TypeOK, StoreActive, updating, process
  <2>2. Live'
    BY <1>8 DEF CacheInv, TypeOK, Live, Apart, StoreActive, updating, process
  <2>3. Apart'
    BY <1>8 DEF CacheInv, TypeOK, Live, Apart, OnePlace, StoreActive, updating, process
  <2>4. OnePlace'
    BY <1>8 DEF CacheInv, TypeOK, OnePlace, Local, StoreActive, updating, process
  <2>5. Local'
    BY <1>8 DEF CacheInv, TypeOK, Local, StoreActive, updating, process
  <2>6. Alone'
    BY <1>8 DEF CacheInv, TypeOK, Alone, Local, Busy, StoreActive, updating, process
  <2>7. QED  BY <2>1, <2>2, <2>3, <2>4, <2>5, <2>6 DEF CacheInv
<1>9. CASE End(w)
  <2>1. TypeOK'
    BY <1>9 DEF CacheInv, TypeOK, End, pointers, updating
  <2>2. Live'
    BY <1>9 DEF CacheInv, TypeOK, Live, Apart, End, pointers, updating
  <2>3. Apart'
    BY <1>9 DEF CacheInv, TypeOK, Live, Apart, OnePlace, End, pointers, updating
  <2>4. OnePlace'
    BY <1>9 DEF CacheInv, TypeOK, OnePlace, Local, End, pointers, updating
  <2>5. Local'
    BY <1>9 DEF CacheInv, TypeOK, Local, End, pointers, updating
  <2>6. Alone'
    BY <1>9 DEF CacheInv, TypeOK, Alone, Local, Busy, End, pointers, updating
  <2>7. QED  BY <2>1, <2>2, <2>3, <2>4, <2>5, <2>6 DEF CacheInv
<1>10. CASE Recrash(w)
  <2>1. TypeOK'
    BY <1>10 DEF CacheInv, TypeOK, Recrash, pointers, updating
  <2>2. Live'
    BY <1>10 DEF CacheInv, TypeOK, Live, Apart, Recrash, pointers, updating
  <2>3. Apart'
    BY <1>10 DEF CacheInv, TypeOK, Live, Apart, OnePlace, Recrash, pointers, updating
  <2>4. OnePlace'
    BY <1>10 DEF CacheInv, TypeOK, OnePlace, Local, Recrash, pointers, updating
  <2>5. Local'
    BY <1>10 DEF CacheInv, TypeOK, Local, Recrash, pointers, updating
  <2>6. Alone'
    BY <1>10 DEF CacheInv, TypeOK, Alone, Local, Busy, Recrash, pointers, updating
  <2>7. QED  BY <2>1, <2>2, <2>3, <2>4, <2>5, <2>6 DEF CacheInv
<1>11. QED  BY <1>1, <1>2, <1>3, <1>4, <1>5, <1>6, <1>7, <1>8, <1>9, <1>10 DEF Write

\* Every step keeps the invariant.
LEMMA NextCacheInv == ASSUME CacheInv, [Next]_vars PROVE CacheInv'
<1>1. CASE Update
  BY <1>1, UpdateCacheInv
<1>2. ASSUME NEW w \in Writers, Begin(w) \/ Write(w) \/ Recrash(w) PROVE CacheInv'
  BY <1>2, WriterCacheInv
<1>3. CASE UNCHANGED vars
  BY <1>3 DEF CacheInv, TypeOK, Live, Apart, OnePlace, Local, Alone, Busy, Pointer,
              vars, pointers, updating, process
<1>4. QED  BY <1>1, <1>2, <1>3 DEF Next, Dead

\* The invariant says what a reader needs.
LEMMA InvGivesLive == CacheInv => ReadersHoldLiveCache
  BY DEF CacheInv, Live, Alone, ReadersHoldLiveCache, Pointers

\* kstc_freeze(), kstc_unfreeze(), updateCache(): for any number of threads that
\* write reports at once, however often they fault and wherever the background
\* thread is suspended, no global and no local variable is left pointing to a
\* cache that updateCache() has freed; and until two of them have frozen the
\* cache at once, a name is never read from a freed cache.
THEOREM ReadersSafe == Spec => []ReadersHoldLiveCache
  BY InitCacheInv, NextCacheInv, InvGivesLive, PTL DEF Spec
-----------------------------------------------------------------------------
(***************************************************************************)
(* No leak, and one at the most.  A step that overwrites a pointer finds   *)
(* NULL there, or else leaves no cache in use, so that there is none left  *)
(* to be lost later.                                                       *)
(***************************************************************************)
\* Nothing points to a cache that is in use.
NoneInUse ==
  active = NULL /\ frozen = NULL /\ updater # "building" /\ \A w \in Writers : hand[w] = NULL

\* A cache that is lost was the only one in use.
OneLost == Lost # {} => NoneInUse /\ \A b, c \in Lost : b = c

\* Without overlapping and without a fault, the frozen cache has a writer that
\* will take it, and nothing is lost.
Kept ==
  recrashed = {} /\ ~overlapped =>
    /\ frozen # NULL => \E w \in Writers : pc[w] \in {"frozen", "reading", "written"}
    /\ Lost = {}

LeakInv == OneLost /\ Kept

\* The initial cache is in g_activeCache.
LEMMA InitLeakInv == Init => LeakInv
  BY CacheAssumption DEF Init, LeakInv, OneLost, Kept, Lost, Pointers

\* If no step loses another cache, the bound of one stays; the cache that is lost
\* stays lost.
LEMMA LostStays ==
  ASSUME LeakInv, Lost' \subseteq Lost, NoneInUse => NoneInUse'
  PROVE  OneLost'
  BY DEF LeakInv, OneLost

\* updateCache() puts a cache only where there is none, and drops only the one
\* it frees.
LEMMA UpdateLeakInv == ASSUME CacheInv, LeakInv, Update PROVE LeakInv'
<1> USE CacheAssumption DEF Pointer
<1>1. Lost' \subseteq Lost
  <2>1. CASE Acquire
    BY <2>1 DEF CacheInv, TypeOK, Lost, Pointers, Acquire
  <2>2. CASE BuildFails
    BY <2>2 DEF CacheInv, TypeOK, OnePlace, Lost, Pointers, BuildFails
  <2>3. CASE Build
    BY <2>3 DEF CacheInv, TypeOK, OnePlace, Lost, Pointers, Build
  <2>4. CASE Free
    BY <2>4 DEF CacheInv, TypeOK, Lost, Pointers, Free, pointers
  <2>5. QED  BY <2>1, <2>2, <2>3, <2>4 DEF Update
<1>2. NoneInUse => NoneInUse'
  BY DEF NoneInUse, Update, Acquire, BuildFails, Build, Free, pointers
<1>3. Kept'
  BY <1>1 DEF CacheInv, TypeOK, LeakInv, Kept, Update, Acquire, BuildFails, Build, Free,
              pointers, process
<1>4. QED  BY <1>1, <1>2, <1>3, LostStays DEF LeakInv

\* What a writer does is a chain of moves of one cache: from g_activeCache to
\* its hand, to g_frozenCache, and all the way back.  The one step that may lose
\* a cache is the store to g_frozenCache.
LEMMA WriterLeakInv ==
  ASSUME CacheInv, LeakInv, NEW w \in Writers, Begin(w) \/ Write(w) \/ Recrash(w)
  PROVE  LeakInv'
<1> USE CacheAssumption DEF Pointer, Step
<1>1. CASE Begin(w) \/ LookUp(w) \/ ThreadsWritten(w) \/ End(w) \/ Recrash(w)
  <2>1. Lost' = Lost /\ (NoneInUse => NoneInUse')
    BY <1>1 DEF Lost, Pointers, NoneInUse, Begin, LookUp, ThreadsWritten, End, Recrash,
                pointers, updating
  <2>2. Kept'
    <3>1. CASE Begin(w) \/ LookUp(w)
      BY <2>1, <3>1 DEF CacheInv, TypeOK, LeakInv, Kept, Begin, LookUp, pointers, process
    <3>2. CASE ThreadsWritten(w) \/ End(w)
      BY <2>1, <3>2 DEF CacheInv, TypeOK, LeakInv, Kept, ThreadsWritten, End, pointers
    <3>3. CASE Recrash(w)
      BY <3>3 DEF Kept, Recrash
    <3>4. QED  BY <1>1, <3>1, <3>2, <3>3
  <2>3. QED  BY <2>1, <2>2, LostStays DEF LeakInv
<1>2. CASE Freeze(w) \/ FreezeRetry(w)
  <2>1. hand[w] = NULL
    BY <1>2 DEF CacheInv, TypeOK, Local, Freeze, FreezeRetry
  <2>2. Lost' \subseteq Lost /\ (NoneInUse => NoneInUse')
    BY <1>2, <2>1 DEF CacheInv, TypeOK, Lost, Pointers, NoneInUse, Freeze, FreezeRetry,
                      TakeActive, updating
  <2>3. Kept'
    BY <1>2, <2>2 DEF CacheInv, TypeOK, LeakInv, Kept, Freeze, FreezeRetry, TakeActive,
                      updating, process
  <2>4. QED  BY <2>2, <2>3, LostStays DEF LeakInv
<1>3. CASE StoreFrozen(w)
  <2>1. CASE frozen = NULL
    <3>1. Lost' \subseteq Lost /\ (NoneInUse => NoneInUse')
      BY <1>3, <2>1 DEF CacheInv, TypeOK, Lost, Pointers, NoneInUse, StoreFrozen, updating
    <3>2. Kept'
      BY <1>3, <3>1 DEF CacheInv, TypeOK, LeakInv, Kept, StoreFrozen, updating, process
    <3>3. QED  BY <3>1, <3>2, LostStays DEF LeakInv
  <2>2. CASE frozen # NULL
    <3>1. hand[w] = NULL /\ active = NULL /\ updater # "building"
      BY <2>2 DEF CacheInv, TypeOK, OnePlace
    <3>2. \A v \in Writers : hand[v] = NULL
      BY <2>2 DEF CacheInv, TypeOK, OnePlace
    <3>3. NoneInUse'
      BY <1>3, <3>1, <3>2 DEF CacheInv, TypeOK, NoneInUse, StoreFrozen, updating
    <3>4. Lost = {}
      BY <2>2 DEF LeakInv, OneLost, NoneInUse
    <3>5. Lost' \subseteq {frozen}
      BY <1>3, <3>1, <3>2, <3>4 DEF CacheInv, TypeOK, Lost, Pointers, StoreFrozen, updating
    <3>6. ~(recrashed = {} /\ ~overlapped)
      BY <1>3, <2>2 DEF CacheInv, Alone, Busy, LeakInv, Kept, StoreFrozen
    <3>7. OneLost' /\ Kept'
      BY <1>3, <3>3, <3>5, <3>6 DEF OneLost, Kept, StoreFrozen, process
    <3>8. QED  BY <3>7 DEF LeakInv
  <2>3. QED  BY <2>1, <2>2
<1>4. CASE Unfreeze(w)
  <2>1. frozen # NULL => hand[w] = NULL
    BY DEF CacheInv, OnePlace
  <2>2. hand[w] = NULL
    BY <1>4 DEF CacheInv, TypeOK, Local, Unfreeze
  <2>3. Lost' \subseteq Lost /\ (NoneInUse => NoneInUse')
    BY <1>4, <2>2 DEF CacheInv, TypeOK, Lost, Pointers, NoneInUse, Unfreeze, updating
  <2>4. Kept'
    BY <1>4, <2>3 DEF CacheInv, TypeOK, LeakInv, Kept, Unfreeze, updating, process
  <2>5. QED  BY <2>3, <2>4, LostStays DEF LeakInv
<1>5. CASE StoreActive(w)
  <2>1. Lost' \subseteq Lost /\ (NoneInUse => NoneInUse')
    BY <1>5 DEF CacheInv, TypeOK, OnePlace, Lost, Pointers, NoneInUse, StoreActive, updating
  <2>2. Kept'
    BY <1>5, <2>1 DEF CacheInv, TypeOK, LeakInv, Kept, StoreActive, updating, process
  <2>3. QED  BY <2>1, <2>2, LostStays DEF LeakInv
<1>6. QED  BY <1>1, <1>2, <1>3, <1>4, <1>5 DEF Write

\* Every step keeps LeakInv.
LEMMA NextLeakInv == ASSUME CacheInv, LeakInv, [Next]_vars PROVE LeakInv'
<1>1. CASE Update
  BY <1>1, UpdateLeakInv
<1>2. ASSUME NEW w \in Writers, Begin(w) \/ Write(w) \/ Recrash(w) PROVE LeakInv'
  BY <1>2, WriterLeakInv
<1>3. CASE UNCHANGED vars
  BY <1>3 DEF LeakInv, OneLost, NoneInUse, Kept, Lost, Pointers, vars, pointers, updating, process
<1>4. QED  BY <1>1, <1>2, <1>3 DEF Next, Dead

\* updateCache(), kstc_freeze() and kstc_unfreeze(): until a writer faults or two
\* writers freeze the cache at once, every cache that was created is freed or
\* can still be reached from a global or a local variable; and whatever the
\* writers do, one cache at the most is ever lost.  For every number of caches
\* and of writers and every interleaving of the exchanges.
THEOREM CacheNeverLost == Spec => []NoCacheLost
<1>1. CacheInv /\ LeakInv /\ [Next]_vars => CacheInv' /\ LeakInv'
  BY NextCacheInv, NextLeakInv
<1>2. LeakInv => NoCacheLost
  BY DEF LeakInv, OneLost, Kept, NoCacheLost
<1>3. QED  BY <1>1, <1>2, InitCacheInv, InitLeakInv, PTL DEF Spec
=============================================================================
