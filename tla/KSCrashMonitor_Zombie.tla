------------------------- MODULE KSCrashMonitor_Zombie -------------------------
(***************************************************************************)
(* KSCrashMonitor_Zombie.c: the classes of objects that were deallocated,  *)
(* by a hash of their address, and the exception deallocated last.         *)
(*                                                                         *)
(* Threads deallocate their objects at the same time, and nothing is       *)
(* locked.  Addresses are used again for other objects.  A crash may be    *)
(* reported, with all threads stopped, in any state.  Calls of setEnabled()*)
(* do not overlap.                                                         *)
(***************************************************************************)
EXTENDS Integers

CONSTANTS
  Deallocators,
  Addresses, hashIndex,   \* addresses of objects, and the slot of each
  MaxObjects,             \* bound: objects that are allocated
  Nobody

CacheSlots == {hashIndex[a] : a \in Addresses}
Classes    == {"NSObject", "NSException"}
Objects    == 1 .. MaxObjects

ASSUME ZombieAssumption ==
  MaxObjects \in Nat /\ Nobody \notin Addresses /\ Nobody \notin Objects /\ Nobody \notin Classes

VARIABLES
  zombieEnabled, zombieInstall, \* g_isEnabled, and how far install() is
  cache,                        \* by slot: the address and the class name
  last,                         \* g_lastDeallocedException: objects that address, name and reason are of
  heap,                         \* by address: the object that is there, or Nobody
  class, made,                  \* the class of each object, and the number of objects so far
  freeing, object,              \* by thread: where handleDealloc() is, and the object it is about
  deallocated,                  \* history, by address: the object deallocated there last
  newest,                       \* history: the exception whose address was stored last
  lacking,                      \* history: names and reasons that could not be copied
  torn, mixed                   \* history: slots that two threads have written at once; the same of last

memory        == <<heap, class, made>>
zombieHistory == <<deallocated, newest, lacking, torn, mixed>>
zombieVars    == <<zombieEnabled, zombieInstall, cache, last, memory, freeing, object, zombieHistory>>

ZombieTypeOK ==
  /\ zombieEnabled \in BOOLEAN /\ zombieInstall \in {"none", "failed", "cache", "NSObject", "done"}
  /\ cache \in [CacheSlots -> [object : Addresses \cup {Nobody}, name : Classes \cup {Nobody}]]
  /\ last \in [address : Objects \cup {Nobody}, name : Objects \cup {Nobody}, reason : Objects \cup {Nobody}]
  /\ heap \in [Addresses -> Objects \cup {Nobody}] /\ class \in [Objects -> Classes]
  /\ made \in 0 .. MaxObjects
  /\ freeing \in [Deallocators -> {"idle", "class", "address", "name", "reason", "free"}]
  /\ object \in [Deallocators -> Addresses \cup {Nobody}]
  /\ deallocated \in [Addresses -> Objects \cup {Nobody}] /\ newest \in Objects \cup {Nobody}
  /\ lacking \subseteq Objects \X {"name", "reason"}
  /\ torn \subseteq CacheSlots /\ mixed \in BOOLEAN

NoException == [address |-> Nobody, name |-> Nobody, reason |-> Nobody]

ZombieInit ==
  /\ zombieEnabled = FALSE /\ zombieInstall = "none"
  /\ cache = [s \in CacheSlots |-> [object |-> Nobody, name |-> Nobody]]
  /\ last = NoException
  /\ heap = [a \in Addresses |-> Nobody] /\ class = [o \in Objects |-> "NSObject"] /\ made = 0
  /\ freeing = [t \in Deallocators |-> "idle"] /\ object = [t \in Deallocators |-> Nobody]
  /\ deallocated = [a \in Addresses |-> Nobody] /\ newest = Nobody /\ lacking = {}
  /\ torn = {} /\ mixed = FALSE

-----------------------------------------------------------------------------
\* setEnabled(): "Uninstall doesn't work", so that disabling changes nothing.
\* Without memory for the cache the monitor is enabled all the same.
zombieSetEnabled(e) ==
  /\ zombieEnabled # e /\ (e \/ zombieInstall \in {"failed", "done"})
  /\ zombieEnabled' = TRUE
  /\ IF e THEN zombieInstall' \in {"cache", "failed"} ELSE UNCHANGED zombieInstall
  /\ UNCHANGED <<cache, last, memory, freeing, object, zombieHistory>>

\* The implementations of dealloc are replaced, that of NSObject first.
installDealloc ==
  /\ zombieInstall \in {"cache", "NSObject"}
  /\ zombieInstall' = IF zombieInstall = "cache" THEN "NSObject" ELSE "done"
  /\ UNCHANGED <<zombieEnabled, cache, last, memory, freeing, object, zombieHistory>>

Replaced == zombieInstall \in {"NSObject", "done"}

-----------------------------------------------------------------------------
Allocate(a, c) ==
  /\ heap[a] = Nobody /\ made < MaxObjects
  /\ made' = made + 1
  /\ class' = [class EXCEPT ![made'] = c]
  /\ heap' = [heap EXCEPT ![a] = made']
  /\ UNCHANGED <<zombieEnabled, zombieInstall, cache, last, freeing, object, zombieHistory>>

Continues(t, to) == freeing' = [freeing EXCEPT ![t] = to]
Of(t)       == heap[object[t]]

\* Threads that have stored the address of a slot, and not yet the class
Writing(s) == {t \in Deallocators : freeing[t] = "class" /\ hashIndex[object[t]] = s}
Storing    == {t \in Deallocators : freeing[t] \in {"name", "reason"}}

\* handleDealloc(): the address, then the class name; for an NSException, or an
\* object of a subclass, storeException().  Without our implementation the
\* object is just freed.
Dealloc(t, a) ==
  /\ freeing[t] = "idle" /\ heap[a] # Nobody /\ (\A u \in Deallocators : object[u] # a)
  /\ object' = [object EXCEPT ![t] = a]
  /\ LET s == hashIndex[a] IN
       IF Replaced
       THEN /\ cache' = [cache EXCEPT ![s].object = a]
            /\ torn' = IF Writing(s) # {} THEN torn \cup {s} ELSE torn \ {s}
            /\ Continues(t, "class")
       ELSE Continues(t, "free") /\ UNCHANGED <<cache, torn>>
  /\ UNCHANGED <<zombieEnabled, zombieInstall, last, memory, deallocated, newest, lacking, mixed>>

WriteClass(t) ==
  /\ freeing[t] = "class"
  /\ LET s == hashIndex[object[t]] IN
       /\ cache' = [cache EXCEPT ![s].name = class[Of(t)]]
       /\ torn' = IF Writing(s) # {t} THEN torn \cup {s} ELSE torn
  /\ Continues(t, IF class[Of(t)] = "NSException" THEN "address" ELSE "free")
  /\ UNCHANGED <<zombieEnabled, zombieInstall, last, memory, object, deallocated, newest, lacking, mixed>>

\* storeException()
StoreAddress(t) ==
  /\ freeing[t] = "address"
  /\ last' = [last EXCEPT !.address = Of(t)]
  /\ newest' = Of(t)
  /\ mixed' = (Storing # {})
  /\ Continues(t, "name")
  /\ UNCHANGED <<zombieEnabled, zombieInstall, cache, memory, object, deallocated, lacking, torn>>

\* copyStringIvar(): a string that is nil, empty or damaged leaves the text of
\* the exception before.
CopyString(t, field) ==
  /\ freeing[t] = field
  /\ \/ last' = [last EXCEPT ![field] = Of(t)] /\ UNCHANGED lacking
     \/ lacking' = lacking \cup {<<Of(t), field>>} /\ UNCHANGED last
  /\ mixed' = (mixed \/ Storing # {t})
  /\ Continues(t, IF field = "name" THEN "reason" ELSE "free")
  /\ UNCHANGED <<zombieEnabled, zombieInstall, cache, memory, object, deallocated, newest, torn>>

\* The original implementation: the memory may be used again.
FreeObject(t) ==
  /\ freeing[t] = "free"
  /\ deallocated' = IF Replaced THEN [deallocated EXCEPT ![object[t]] = Of(t)] ELSE deallocated
  /\ heap' = [heap EXCEPT ![object[t]] = Nobody]
  /\ object' = [object EXCEPT ![t] = Nobody]
  /\ Continues(t, "idle")
  /\ UNCHANGED <<zombieEnabled, zombieInstall, cache, last, class, made, newest, lacking, torn, mixed>>

ZombieNext ==
  \/ \E e \in BOOLEAN : zombieSetEnabled(e)
  \/ installDealloc
  \/ \E a \in Addresses, c \in Classes : Allocate(a, c)
  \/ \E t \in Deallocators :
       \/ \E a \in Addresses : Dealloc(t, a)
       \/ WriteClass(t) \/ StoreAddress(t) \/ FreeObject(t)
       \/ \E f \in {"name", "reason"} : CopyString(t, f)

ZombieSpec == ZombieInit /\ [][ZombieNext]_zombieVars

-----------------------------------------------------------------------------
\* Mutant: the class is taken without a look at the address in the slot.
classNameOfSlot(a) == cache[hashIndex[a]].name

\* kszombie_className()
className(a) == IF cache[hashIndex[a]].object = a THEN cache[hashIndex[a]].name ELSE Nobody

\* The class that is found for an address is that of the object deallocated
\* there last, or being deallocated, unless the slot is being written or was
\* written by two threads at once; and the name and the reason kept with the
\* last exception's address are its own, or those of one before it if it had
\* none that could be copied, unless two exceptions were stored at once.
ZombieExact ==
  /\ \A a \in Addresses : className(a) # Nobody /\ Writing(hashIndex[a]) = {} /\ hashIndex[a] \notin torn =>
       \/ deallocated[a] # Nobody /\ className(a) = class[deallocated[a]]
       \/ \E t \in Deallocators : object[t] = a /\ className(a) = class[Of(t)]
  /\ Storing = {} /\ ~ mixed =>
       /\ last.address = newest
       /\ \A f \in {"name", "reason"} : last[f] = newest \/ <<newest, f>> \in lacking
=============================================================================
