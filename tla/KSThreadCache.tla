---------------------------- MODULE KSThreadCache ----------------------------
(***************************************************************************)
(* The thread name cache of KSThreadCache.c.  A background thread replaces *)
(* the cache now and then; a report writer takes it out of g_activeCache   *)
(* (freeze), looks up names, and puts it back (unfreeze).  Each atomic     *)
(* exchange or store is one step.  A report that records all threads       *)
(* suspends the others, the background thread included.                    *)
(*                                                                         *)
(* A cache is its address: what matters is who may free it.                *)
(*                                                                         *)
(* Any number of threads may write reports at once: nothing in the code    *)
(* keeps two user reports apart.  "overlapped" is a history variable: no   *)
(* guard reads it.                                                         *)
(***************************************************************************)
EXTENDS Naturals

CONSTANTS
  Writers,      \* threads that write reports
  Caches,       \* addresses createCache() may return
  NULL,
  Nobody,       \* no thread has suspended the others
  InitMayFail   \* may the first createCache() fail?

ASSUME CacheAssumption ==
  /\ NULL \notin Caches
  /\ Nobody \notin Writers
  /\ InitMayFail \in BOOLEAN

VARIABLES
  active,     \* g_activeCache
  frozen,     \* g_frozenCache
  allocated,  \* caches that have not been freed
  updater,    \* where the background thread is
  old, new,   \* oldCache and newCache of updateCache()
  pc,         \* where each report writer is
  hand,       \* the local variable "cache" of freeze and unfreeze
  held,       \* the cache a name is being read from
  suspender,  \* the writer that has suspended all other threads
  recrashed,  \* the report writers that have faulted
  dead,       \* the process has ended
  overlapped  \* two writers have been between freeze and unfreeze at once

pointers  == <<active, frozen>>
updating  == <<updater, old, new>>
process   == <<suspender, recrashed, dead>>
vars      == <<pointers, allocated, updating, pc, hand, held, process, overlapped>>

Pointer == Caches \cup {NULL}

\* updateCache() goes on only with a cache of its own.
TypeOK ==
  /\ active \in Pointer /\ frozen \in Pointer
  /\ allocated \in SUBSET Caches
  /\ updater \in {"asleep", "building", "freeing"}
  /\ old \in IF updater = "asleep" THEN {NULL} ELSE Caches
  /\ new \in Pointer
  /\ pc \in [Writers -> {"idle", "begun", "retry", "taken", "frozen", "reading",
                         "written", "unfreezing", "closing"}]
  /\ hand \in [Writers -> Pointer]
  /\ held \in [Writers -> Pointer]
  /\ suspender \in Writers \cup {Nobody}
  /\ recrashed \subseteq Writers
  /\ dead \in BOOLEAN /\ overlapped \in BOOLEAN

\* kstc_init()
Init ==
  /\ frozen = NULL
  /\ \/ \E c \in Caches : active = c /\ allocated = {c}
     \/ InitMayFail /\ active = NULL /\ allocated = {}
  /\ updater = "asleep" /\ old = NULL /\ new = NULL
  /\ pc = [w \in Writers |-> "idle"]
  /\ hand = [w \in Writers |-> NULL]
  /\ held = [w \in Writers |-> NULL]
  /\ suspender = Nobody
  /\ recrashed = {} /\ dead = FALSE /\ overlapped = FALSE

\* A thread runs unless another one has suspended it.
Runs(t) == ~dead /\ suspender \in {Nobody, t}

-----------------------------------------------------------------------------
(***************************************************************************)
(* updateCache(), on the background thread                                 *)
(***************************************************************************)

\* Mutant of Acquire: goes on without a cache.
AcquireUnchecked ==
  /\ Runs(Nobody) /\ updater = "asleep"
  /\ active' = NULL
  /\ old' = active
  /\ updater' = "building"
  /\ UNCHANGED <<frozen, allocated, new, pc, hand, held, process, overlapped>>

\* Mutant of Acquire: peeks at the cache and leaves it in place.
AcquirePeeks ==
  /\ Runs(Nobody) /\ updater = "asleep"
  /\ active # NULL
  /\ old' = active
  /\ updater' = "building"
  /\ UNCHANGED <<pointers, allocated, new, pc, hand, held, process, overlapped>>

\* Takes the cache, or skips this cycle.
Acquire ==
  /\ Runs(Nobody) /\ updater = "asleep"
  /\ active # NULL
  /\ active' = NULL
  /\ old' = active
  /\ updater' = "building"
  /\ UNCHANGED <<frozen, allocated, new, pc, hand, held, process, overlapped>>

\* Mutant of BuildFails: returns without restoring the old cache.
BuildFailsForgets ==
  /\ Runs(Nobody) /\ updater = "building"
  /\ old' = NULL
  /\ updater' = "asleep"
  /\ UNCHANGED <<pointers, allocated, new, pc, hand, held, process, overlapped>>

\* createCache() returns NULL: the old cache is restored.
BuildFails ==
  /\ Runs(Nobody) /\ updater = "building"
  /\ active' = old
  /\ old' = NULL
  /\ updater' = "asleep"
  /\ UNCHANGED <<frozen, allocated, new, pc, hand, held, process, overlapped>>

\* createCache() fills a new cache (which nobody else can see), and it is
\* installed.
Build ==
  /\ Runs(Nobody) /\ updater = "building"
  /\ \E c \in Caches \ allocated :
       /\ allocated' = allocated \cup {c}
       /\ active' = c
       /\ new' = c
  /\ updater' = "freeing"
  /\ UNCHANGED <<frozen, old, pc, hand, held, process, overlapped>>

\* freeCache(oldCache)
Free ==
  /\ Runs(Nobody) /\ updater = "freeing"
  /\ allocated' = allocated \ {old}
  /\ old' = NULL /\ new' = NULL
  /\ updater' = "asleep"
  /\ UNCHANGED <<pointers, pc, hand, held, process, overlapped>>

Update == Acquire \/ BuildFails \/ Build \/ Free

-----------------------------------------------------------------------------
(***************************************************************************)
(* A report writer                                                         *)
(***************************************************************************)
Step(w, from, to) == Runs(w) /\ pc[w] = from /\ pc' = [pc EXCEPT ![w] = to]

\* An exception is being handled; if all threads are recorded, the others are
\* suspended, wherever they are.
Begin(w) ==
  /\ Step(w, "idle", "begun")
  /\ suspender' \in {suspender, w}
  /\ UNCHANGED <<pointers, allocated, updating, hand, held, recrashed, dead, overlapped>>

\* w is between the exchanges of kstc_freeze() and kstc_unfreeze().
Busy(w) == pc[w] \in {"retry", "taken", "frozen", "reading", "written", "unfreezing"}

TakeActive(w) == hand' = [hand EXCEPT ![w] = active] /\ active' = NULL

\* kstc_freeze(): if the cache is away, wait for a microsecond and retry once.
Freeze(w) ==
  /\ Step(w, "begun", IF active = NULL THEN "retry" ELSE "taken")
  /\ TakeActive(w)
  /\ overlapped' = (overlapped \/ \E v \in Writers \ {w} : Busy(v))
  /\ UNCHANGED <<frozen, allocated, updating, held, process>>

FreezeRetry(w) ==
  /\ Step(w, "retry", "taken")
  /\ TakeActive(w)
  /\ UNCHANGED <<frozen, allocated, updating, held, process, overlapped>>

StoreFrozen(w) ==
  /\ Step(w, "taken", "frozen")
  /\ frozen' = hand[w]
  /\ hand' = [hand EXCEPT ![w] = NULL]
  /\ UNCHANGED <<active, allocated, updating, held, process, overlapped>>

\* writeThread(): kstc_getThreadName() and kstc_getQueueName() load
\* g_frozenCache and the name is copied from it.  One look-up, at any time,
\* stands for those of all threads.
LookUp(w) ==
  /\ Step(w, "frozen", "reading")
  /\ held' = [held EXCEPT ![w] = frozen]
  /\ UNCHANGED <<pointers, allocated, updating, hand, process, overlapped>>

\* Once the threads are written, a standard report may resume the others.
ThreadsWritten(w) ==
  /\ Step(w, "reading", "written")
  /\ held' = [held EXCEPT ![w] = NULL]
  /\ suspender' \in IF suspender = w /\ w \notin recrashed THEN {w, Nobody} ELSE {suspender}
  /\ UNCHANGED <<pointers, allocated, updating, hand, recrashed, dead, overlapped>>

\* kstc_unfreeze()
Unfreeze(w) ==
  /\ Step(w, "written", "unfreezing")
  /\ hand' = [hand EXCEPT ![w] = frozen]
  /\ frozen' = NULL
  /\ UNCHANGED <<active, allocated, updating, held, process, overlapped>>

StoreActive(w) ==
  /\ Step(w, "unfreezing", "closing")
  /\ active' = IF hand[w] = NULL THEN active ELSE hand[w]
  /\ hand' = [hand EXCEPT ![w] = NULL]
  /\ UNCHANGED <<frozen, allocated, updating, held, process, overlapped>>

\* Mutant of End: the suspended threads stay suspended.
EndStaysSuspended(w) ==
  /\ Step(w, "closing", "idle")
  /\ dead' = (w \in recrashed)
  /\ UNCHANGED <<pointers, allocated, updating, hand, held, suspender, recrashed, overlapped>>

\* handleException() resumes what is still suspended; a recrash is fatal.
End(w) ==
  /\ Step(w, "closing", "idle")
  /\ suspender' = IF suspender = w THEN Nobody ELSE suspender
  /\ dead' = (w \in recrashed)
  /\ UNCHANGED <<pointers, allocated, updating, hand, held, recrashed, overlapped>>

\* Writing the report faults; the recrash report is written on the same
\* thread, and the interrupted one never continues.
Recrash(w) ==
  /\ w \notin recrashed
  /\ \E at \in {"frozen", "reading", "written"} : Step(w, at, "begun")
  /\ held' = [held EXCEPT ![w] = NULL]
  /\ recrashed' = recrashed \cup {w}
  /\ UNCHANGED <<pointers, allocated, updating, hand, suspender, dead, overlapped>>

Write(w) ==
  \/ Freeze(w) \/ FreezeRetry(w) \/ StoreFrozen(w) \/ LookUp(w)
  \/ ThreadsWritten(w) \/ Unfreeze(w) \/ StoreActive(w) \/ End(w)

Dead == dead /\ UNCHANGED vars

Next == Update \/ (\E w \in Writers : Begin(w) \/ Write(w) \/ Recrash(w)) \/ Dead

Spec == Init /\ [][Next]_vars

\* A thread that is not suspended runs on, and one that is suspended now and
\* then, by one writer after another, gets its turn in between; nothing makes a
\* report begin.
Fairness == SF_vars(Update) /\ \A w \in Writers : SF_vars(Write(w))

-----------------------------------------------------------------------------
(***************************************************************************)
(* Properties                                                              *)
(***************************************************************************)

\* Every pointer to a cache that a thread may still follow: updateCache()
\* frees the one in "old", and no name is read through any other.
Pointers == {active, frozen, old} \cup {hand[w] : w \in Writers}

\* Caches that are allocated and that nothing points to any more.
Lost == allocated \ Pointers

\* updateCache(), kstc_freeze(), kstc_unfreeze(): however many reports are
\* written at once, no pointer is left to a cache that has been freed, so that
\* no name that is looked up from now on comes from a freed cache, and none is
\* freed twice.  What a writer has already looked up stays allocated while it
\* reads it, unless two writers have frozen the cache at once.
ReadersHoldLiveCache ==
  /\ Pointers \subseteq allocated \cup {NULL}
  /\ ~overlapped => \A w \in Writers : held[w] # NULL => held[w] \in allocated

\* No cache is lost, unless a writer has faulted or two writers have frozen the
\* cache at once; and even then one cache is lost at the most.
NoCacheLost ==
  /\ recrashed = {} /\ ~overlapped => Lost = {}
  /\ \A b, c \in Lost : b = c

\* "Unfreeze the cache to allow updates to resume", "A background thread
\* periodically updates the cache": as long as there is a cache, it is always
\* put back, unless two writers have frozen it at once.  (If the first one
\* cannot be created, there is never one.)
CacheReturns == allocated # {} ~> (active # NULL \/ dead \/ overlapped)

-----------------------------------------------------------------------------
(***************************************************************************)
(* What the header promises without a condition, and two writers break     *)
(***************************************************************************)

\* "Freeze the cache to prevent updates during crash handling. This acquires
\* exclusive access to the cache": no name is read from a freed cache.
ExclusiveAccess == \A w \in Writers : held[w] # NULL => held[w] \in allocated
=============================================================================
