----------------------- MODULE KSCrashMonitorRegistry -----------------------
(***************************************************************************)
(* The lock-free list of monitors: kscmr_addMonitor(), removeMonitor(),    *)
(* activateMonitors(), disableAllMonitors(), addContextualInfoToEvent()    *)
(* and getMonitor() of KSCrashMonitorRegistry.c, with kscm_addMonitor() of *)
(* KSCrashMonitor.c, which initialises a monitor once it is in the list.   *)
(* Every load, compare-and-exchange and call of a monitor is one step.     *)
(***************************************************************************)
EXTENDS Naturals

CONSTANTS
  Users,     \* threads that use the list
  Apis,      \* the monitors, by the address of their API
  NULL,
  Count,     \* KSCRASH_MONITOR_API_COUNT
  Removable, \* monitors that are ever removed
  Unsafe,    \* monitors flagged KSCrashMonitorFlagDebuggerUnsafe
  Traced     \* ksdebug_isBeingTraced()

\* The array has entries, and an empty one is told apart from a monitor.
RegistryAssumption == Count \in Nat \ {0} /\ NULL \notin Apis

Operations == {"add", "remove", "activate", "disable", "walk"}

VARIABLES
  apis,        \* monitorList->apis
  enabled,     \* monitors whose isEnabled() is true
  initialised, \* monitors whose init() has been called
  op,          \* what each thread is doing; "idle" between calls
  arg,         \* the api argument, or the entry an iteration has loaded
  i,           \* the loop variable
  found,       \* "found" of kscmr_addMonitor()
  seen,        \* monitors a walk has called
  stable       \* history: monitors listed and enabled, and not being added, since the walk began

listLocal == <<op, arg, i, found, seen>>
listVars  == <<apis, enabled, initialised, listLocal, stable>>
Indices   == 1 .. Count

ListTypeOK ==
  /\ apis \in [Indices -> Apis \cup {NULL}]
  /\ enabled \in SUBSET Apis
  /\ initialised \in SUBSET Apis
  /\ op \in [Users -> Operations \cup {"idle", "swap", "dedupe", "drop", "init",
             "off", "enable", "post", "tell", "turnOff", "call"}]
  /\ arg \in [Users -> Apis \cup {NULL}]
  /\ i \in [Users -> Indices]
  /\ found \in [Users -> BOOLEAN]
  /\ seen \in [Users -> SUBSET Apis]
  /\ stable \in [Users -> SUBSET Apis]

ListInit ==
  /\ apis = [k \in Indices |-> NULL]
  /\ enabled = {}
  /\ initialised = {}
  /\ op = [t \in Users |-> "idle"]
  /\ arg = [t \in Users |-> NULL]
  /\ i = [t \in Users |-> 1]
  /\ found = [t \in Users |-> FALSE]
  /\ seen = [t \in Users |-> {}]
  /\ stable = [t \in Users |-> {}]

-----------------------------------------------------------------------------
Listed == {apis[k] : k \in Indices} \ {NULL}

EntryAt(t) == apis[i[t]]

\* Go on with step o, at the next index of a loop or at the same one.
Continue(t, o) == op' = [op EXCEPT ![t] = o] /\ UNCHANGED i
Restart(t, o)  == op' = [op EXCEPT ![t] = o] /\ i' = [i EXCEPT ![t] = 1]

Advance(t, o, after) ==
  IF i[t] = Count THEN Restart(t, after)
  ELSE op' = [op EXCEPT ![t] = o] /\ i' = [i EXCEPT ![t] = @ + 1]

Put(t, a) == apis' = [apis EXCEPT ![i[t]] = a]

\* The history variable: what is listed and enabled after the step as before.
StillThere == stable' = [t \in Users |->
  stable[t] \cap {apis'[k] : k \in Indices} \cap enabled']

BeingAdded == {arg[t] : t \in {u \in Users : op[u] \in {"add", "swap", "dedupe", "drop", "init"}}}

\* A thread calls an operation; activate takes the debugger's presence into
\* account before anything else, and that does not change.
Call(t, o, a) ==
  /\ op[t] = "idle"
  /\ Restart(t, o)
  /\ arg' = [arg EXCEPT ![t] = IF o \in {"add", "remove"} THEN a ELSE NULL]
  /\ found' = [found EXCEPT ![t] = FALSE]
  /\ seen' = [seen EXCEPT ![t] = {}]
  /\ o = "remove" => a \in Removable
  /\ stable' = [u \in Users |->
                  IF u = t THEN IF o = "walk" THEN (Listed \cap enabled) \ BeingAdded ELSE {}
                  ELSE IF o = "add" THEN stable[u] \ {a} ELSE stable[u]]
  /\ UNCHANGED <<apis, enabled, initialised>>

-----------------------------------------------------------------------------
(***************************************************************************)
(* kscm_addMonitor()                                                       *)
(***************************************************************************)

\* The monitor is there already, or this entry is worth trying.
AddLoad(t) ==
  /\ op[t] = "add"
  /\ IF EntryAt(t) = arg[t] THEN Restart(t, "idle") ELSE Continue(t, "swap")
  /\ UNCHANGED <<apis, enabled, initialised, arg, found, seen>>

\* Take the entry if it is still empty; fail after the last one.
AddSwap(t) ==
  /\ op[t] = "swap"
  /\ IF EntryAt(t) = NULL
     THEN Put(t, arg[t]) /\ Restart(t, "dedupe")
     ELSE UNCHANGED apis /\ Advance(t, "add", "idle")
  /\ UNCHANGED <<enabled, initialised, arg, found, seen>>

\* Mutant of Dedupe: the second pass starts by trusting its own copy.
DedupeNone(t) ==
  /\ op[t] = "dedupe"
  /\ Restart(t, "init")
  /\ UNCHANGED <<apis, enabled, initialised, arg, found, seen>>

\* Mutant of Dedupe: removes the first copy as well.
DedupeAll(t) ==
  /\ op[t] = "dedupe"
  /\ found' = [found EXCEPT ![t] = EntryAt(t) = arg[t]]
  /\ IF EntryAt(t) = arg[t] /\ i[t] < Count THEN Continue(t, "drop")
     ELSE Advance(t, "dedupe", "init")
  /\ UNCHANGED <<apis, enabled, initialised, arg, seen>>

\* Leave the first copy alone, drop the others.
Dedupe(t) ==
  /\ op[t] = "dedupe"
  /\ found' = [found EXCEPT ![t] = @ \/ EntryAt(t) = arg[t]]
  /\ IF EntryAt(t) = arg[t] /\ found[t] THEN Continue(t, "drop")
     ELSE Advance(t, "dedupe", "init")
  /\ UNCHANGED <<apis, enabled, initialised, arg, seen>>

DropCopy(t) ==
  /\ op[t] = "drop"
  /\ Put(t, IF EntryAt(t) = arg[t] THEN NULL ELSE EntryAt(t))
  /\ Advance(t, "dedupe", "init")
  /\ UNCHANGED <<enabled, initialised, arg, found, seen>>

\* api->init(), of a monitor that others can already see.
AddInit(t) ==
  /\ op[t] = "init"
  /\ initialised' = initialised \cup {arg[t]}
  /\ Continue(t, "idle")
  /\ UNCHANGED <<apis, enabled, arg, found, seen>>

-----------------------------------------------------------------------------
(***************************************************************************)
(* kscmr_removeMonitor()                                                   *)
(***************************************************************************)
Remove(t) ==
  /\ op[t] = "remove"
  /\ IF EntryAt(t) = arg[t]
     THEN Put(t, NULL) /\ Continue(t, "off")
     ELSE UNCHANGED apis /\ Advance(t, "remove", "idle")
  /\ UNCHANGED <<enabled, initialised, arg, found, seen>>

RemoveOff(t) ==
  /\ op[t] = "off"
  /\ enabled' = enabled \ {arg[t]}
  /\ Advance(t, "remove", "idle")
  /\ UNCHANGED <<apis, initialised, arg, found, seen>>

-----------------------------------------------------------------------------
(***************************************************************************)
(* The operations that iterate over the list                               *)
(***************************************************************************)

\* What each loop does with an entry, and what follows the loop.
Body  == [activate |-> "enable", post |-> "tell", disable |-> "turnOff", walk |-> "call"]
After == [activate |-> "post", post |-> "idle", disable |-> "idle", walk |-> "idle"]

\* Load an entry, and skip it if it is a hole.
Load(t) ==
  /\ op[t] \in DOMAIN Body
  /\ arg' = [arg EXCEPT ![t] = EntryAt(t)]
  /\ IF EntryAt(t) = NULL THEN Advance(t, op[t], After[op[t]]) ELSE Continue(t, Body[op[t]])
  /\ UNCHANGED <<apis, enabled, initialised, found, seen>>

\* activateMonitors(): api->setEnabled(shouldEnable)
Enable(t) ==
  /\ op[t] = "enable"
  /\ enabled' = IF Traced /\ arg[t] \in Unsafe THEN enabled \ {arg[t]}
                ELSE enabled \cup {arg[t]}
  /\ Advance(t, "activate", "post")
  /\ UNCHANGED <<apis, initialised, arg, found, seen>>

\* activateMonitors(), second pass: api->notifyPostSystemEnable()
Tell(t) ==
  /\ op[t] = "tell"
  /\ seen' = [seen EXCEPT ![t] = IF arg[t] \in enabled THEN @ \cup {arg[t]} ELSE @]
  /\ Advance(t, "post", "idle")
  /\ UNCHANGED <<apis, enabled, initialised, arg, found>>

\* disableAllMonitors(): api->setEnabled(false)
TurnOff(t) ==
  /\ op[t] = "turnOff"
  /\ enabled' = enabled \ {arg[t]}
  /\ Advance(t, "disable", "idle")
  /\ UNCHANGED <<apis, initialised, arg, found, seen>>

\* addContextualInfoToEvent(): the monitor is called if it is enabled.
\* getMonitor() walks the list in the same way.
Walk(t) ==
  /\ op[t] = "call"
  /\ seen' = [seen EXCEPT ![t] = IF arg[t] \in enabled THEN @ \cup {arg[t]} ELSE @]
  /\ Advance(t, "walk", "idle")
  /\ UNCHANGED <<apis, enabled, initialised, arg, found>>

-----------------------------------------------------------------------------
ListStep(t) ==
  /\ \/ AddLoad(t) \/ AddSwap(t) \/ Dedupe(t) \/ DropCopy(t) \/ AddInit(t)
     \/ Remove(t) \/ RemoveOff(t)
     \/ Load(t) \/ Enable(t) \/ Tell(t) \/ TurnOff(t) \/ Walk(t)
  /\ StillThere

ListNext == \E t \in Users : ListStep(t) \/ \E o \in Operations, a \in Apis : Call(t, o, a)

ListSpec == ListInit /\ [][ListNext]_listVars

-----------------------------------------------------------------------------
(***************************************************************************)
(* Properties                                                              *)
(***************************************************************************)

Copies(a) == {k \in Indices : apis[k] = a}

\* A thread is between inserting a and the end of its second pass.
Deduping(a) == \E t \in Users : op[t] \in {"dedupe", "drop"} /\ arg[t] = a

\* "iterate again, removing duplicates in case someone else also added the
\* same API": once the threads that have inserted a monitor are through with
\* their second pass, it is in the list at most once, so that no monitor is
\* called twice for one event.
NoDuplicates == \A a \in Apis : ~Deduping(a) =>
                  \A j, k \in Copies(a) : j = k

\* "Leave the first copy alone": threads that add the same monitor at the same
\* time never remove each other's copies so that none is left: a monitor that
\* removeMonitor() is never called for stays in the list, whatever becomes of
\* the entries around it.
OnlyRemoveRemoves == [][Listed \ Removable \subseteq Listed']_listVars

\* "Iterates through all monitors and calls their callback": a walk calls each
\* monitor that is listed and enabled, and that no thread is adding, from its
\* beginning to its end, though others come and go around it.
WalkVisitsAll ==
  [][\A t \in Users : (op[t] \in {"walk", "call"} /\ op'[t] = "idle")
        => stable'[t] \subseteq seen'[t]]_listVars

\* Every variable has its type, and a monitor that several threads add at once
\* is listed once when all of them have returned.
RegistrySound == ListTypeOK /\ NoDuplicates

\* A monitor leaves the list only when it is removed, whatever duplicates other
\* threads drop meanwhile; and a walk over the list misses no monitor that
\* stays listed and enabled all the time.
RegistryKept == OnlyRemoveRemoves /\ WalkVisitsAll
=============================================================================
