------------------------ MODULE KSCrashMonitorProofs ------------------------
(***************************************************************************)
(* Proofs about the exception dispatcher, for any set of threads, any size *)
(* of the slot table and any number of exceptions; and about the lock-free *)
(* list of monitors that it walks, for any number of threads, monitors and *)
(* entries.                                                                *)
(***************************************************************************)
EXTENDS KSCrashMonitor, KSCrashMonitorRegistry, FiniteSetTheorems, TLAPS

-----------------------------------------------------------------------------
(***************************************************************************)
(* The dispatcher                                                          *)
(***************************************************************************)

\* The frame of an activation that is not running and a cleared context.
LEMMA InitTypes == NoLocals \in Locals /\ EmptyContext \in ContextFields
  BY ThreadsAssumption DEF NoLocals, Locals, KindNames, Threads, Contexts,
                           EmptyContext, ContextFields

\* The initial state, in which no exception has occurred, is well typed.
LEMMA InitTypeOK == Init => TypeOK
<1> SUFFICES ASSUME Init PROVE TypeOK
  OBVIOUS
<1>1. ctx \in [Contexts -> ContextFields] /\ local \in [Acts -> Locals]
  BY InitTypes DEF Init
<1>2. /\ threadsHandlingExceptions \in [Slots -> Threads \cup {NoThread}]
      /\ suspendCount \in [Threads -> Nat]
      /\ todo \in [Acts -> SUBSET Threads]
  BY DEF Init
<1>3. /\ pc \in [Acts -> PCs]
      /\ index \in [Acts -> Nat] /\ cursor \in [Acts -> Nat]
      /\ expected \in [Acts -> Nat]
  BY DEF Init, PCs
<1> QED
  BY <1>1, <1>2, <1>3 DEF Init, TypeOK

\* The contexts notify() hands out are contexts.
LEMMA ContextsType ==
  /\ ExitCtx \in Contexts
  /\ Async(0) \in Contexts
  /\ Async(1) \in Contexts
  /\ \A a \in Acts : a \in Contexts
  BY DEF Contexts

\* notifyException() keeps the dispatcher's state well typed.
LEMMA NotifyTypeOK ==
  ASSUME TypeOK, NEW a \in Acts, Notify(a)
  PROVE  TypeOK'
<1> USE DEF At, Goto, shared, frame, system
<1>1. CASE Store(a)
  BY <1>1 DEF Store, TypeOK, PCs, Acts, Slots
<1>2. CASE Inspect(a)
  <2>1. local[a] \in Locals
    BY DEF TypeOK
  <2>2. [local[a] EXCEPT !.wasFatal = isHandlingFatalException,
                         !.wasCrashed = crashedDuringExceptionHandling] \in Locals
    BY <2>1 DEF TypeOK, Locals
  <2>3. local' \in [Acts -> Locals]
    BY <1>2, <2>2 DEF Inspect, TypeOK
  <2> QED
    BY <1>2, <2>3 DEF Inspect, TypeOK, PCs
<1>3. CASE Check(a)
  <2>1. PICK f \in BOOLEAN : local' = [local EXCEPT ![a].isCrashed = f]
    BY <1>3 DEF Check
  <2>2. local' \in [Acts -> Locals]
    BY <2>1 DEF TypeOK, Locals
  <2> QED
    BY <1>3, <2>2 DEF Check, TypeOK, PCs
<1>4. CASE Drop(a)
  <2>1. local' \in [Acts -> Locals]
    BY <1>4, ContextsType DEF Drop, TypeOK, Locals
  <2>2. pc' \in [Acts -> PCs]
    BY <1>4 DEF Drop, DisableAllMonitors, AfterDrop, TypeOK, PCs
  <2>3. watchdog' \in {"running", "stopping", "exited"}
    BY <1>4 DEF Drop, DisableAllMonitors, TypeOK
  <2> QED
    BY <1>4, <2>1, <2>2, <2>3 DEF Drop, DisableAllMonitors, TypeOK
<1>5. CASE CrashLoopExit(a)
  BY <1>5 DEF CrashLoopExit, TypeOK
<1>6. CASE Decide(a)
  BY <1>6 DEF Decide, TypeOK, PCs
<1>7. CASE Wake(a)
  BY <1>7 DEF Wake, TypeOK, PCs
<1>8. CASE Commit(a)
  <2> DEFINE c == IF IsAsync(a) THEN Async(asyncSafeContextIndex) ELSE a
  <2>1. c \in Contexts
    BY ContextsType DEF TypeOK
  <2>2. ctx[c] \in ContextFields
    BY <2>1 DEF TypeOK
  <2>3. local[a] \in Locals
    BY DEF TypeOK
  <2>4. IsFatal(a) \in BOOLEAN /\ RecordAll(a) \in BOOLEAN /\ IsAsync(a) \in BOOLEAN
    BY <2>3 DEF IsFatal, RecordAll, IsAsync, Locals
  <2>5. ctx' \in [Contexts -> ContextFields]
    BY <1>8, <2>1, <2>2, <2>4 DEF Commit, TypeOK, ContextFields
  <2>6. local' \in [Acts -> Locals]
    BY <1>8, <2>1, <2>3 DEF Commit, TypeOK, Locals
  <2>7. /\ crashedDuringExceptionHandling' \in BOOLEAN
        /\ isHandlingFatalException' \in BOOLEAN
    BY <1>8 DEF Commit
  <2>8. asyncSafeContextIndex' \in {0, 1}
    BY <1>8 DEF Commit, TypeOK
  <2>9. pc' \in [Acts -> PCs]
    BY <1>8 DEF Commit, TypeOK, PCs
  <2> QED
    BY <1>8, <2>5, <2>6, <2>7, <2>8, <2>9 DEF Commit, TypeOK
<1>9. CASE ListThreads(a)
  <2>1. PICK listed \in SUBSET Threads :
          /\ todo' = [todo EXCEPT ![a] = listed]
          /\ ctx' = [ctx EXCEPT ![local[a].ctx].suspended = listed]
    BY <1>9 DEF ListThreads, OtherThreads
  <2>2. local[a].ctx \in Contexts
    BY DEF TypeOK, Locals
  <2>3. ctx' \in [Contexts -> ContextFields]
    BY <2>1, <2>2 DEF TypeOK, ContextFields
  <2> QED
    BY <1>9, <2>1, <2>3 DEF ListThreads, TypeOK, PCs
<1>10. CASE Suspended(a)
  BY <1>10 DEF Suspended, TypeOK, PCs
<1>11. ASSUME NEW t \in Threads, SuspendThread(a, t)
       PROVE  TypeOK'
  BY <1>11 DEF SuspendThread, TypeOK
<1> QED
  BY <1>1, <1>2, <1>3, <1>4, <1>5, <1>6, <1>7, <1>8, <1>9, <1>10, <1>11 DEF Notify

\* handleException() keeps the dispatcher's state well typed.
LEMMA HandleTypeOK ==
  ASSUME TypeOK, NEW a \in Acts, HandleException(a)
  PROVE  TypeOK'
<1> USE DEF At, Goto, shared, frame, system
<1>0. local[a].ctx \in Contexts
  BY DEF TypeOK, Locals
<1>1. CASE Handle(a)
  <2>1. ctx[local[a].ctx].suspended \in SUBSET Threads
    BY <1>0 DEF TypeOK, ContextFields
  <2> QED
    BY <1>1, <2>1 DEF Handle, TypeOK, PCs
<1>2. CASE Resumed(a)
  <2>1. ctx' \in [Contexts -> ContextFields]
    BY <1>2, <1>0 DEF Resumed, TypeOK, ContextFields
  <2> QED
    BY <1>2, <2>1 DEF Resumed, TypeOK, PCs
<1>3. CASE Disable(a)
  BY <1>3 DEF Disable, DisableAllMonitors, TypeOK, PCs
<1>4. CASE WatchdogGone(a)
  BY <1>4 DEF WatchdogGone, AfterDrop, TypeOK, PCs
<1>5. ASSUME NEW t \in Threads, ResumeThread(a, t)
      PROVE  TypeOK'
  BY <1>5 DEF ResumeThread, TypeOK
<1> QED
  BY <1>1, <1>2, <1>3, <1>4, <1>5 DEF HandleException

\* endHandlingException() and the return to the monitor keep it well typed.
LEMMA EndTypeOK ==
  ASSUME TypeOK, NEW a \in Acts, EndHandling(a)
  PROVE  TypeOK'
<1> USE DEF At, Goto, shared, frame, system
<1>1. CASE Clear(a)
  BY <1>1 DEF Clear, TypeOK, PCs
<1>2. CASE ReadIndex(a)
  BY <1>2 DEF ReadIndex, TypeOK, PCs
<1>3. CASE Scan(a)
  BY <1>3 DEF Scan, TypeOK, PCs
<1>4. CASE Swap(a)
  BY <1>4 DEF Swap, TypeOK, PCs
<1>5. CASE Return(a)
  <2>1. NoLocals \in Locals /\ EmptyContext \in ContextFields
    BY InitTypes
  <2> QED
    BY <1>5, <2>1 DEF Return, TypeOK, PCs
<1> QED
  BY <1>1, <1>2, <1>3, <1>4, <1>5 DEF EndHandling

\* Every step keeps the dispatcher's state well typed.
LEMMA NextTypeOK == TypeOK /\ [Next]_vars => TypeOK'
<1> SUFFICES ASSUME TypeOK, [Next]_vars PROVE TypeOK'
  OBVIOUS
<1>1. ASSUME NEW kind \in Kinds, NEW h \in Threads, NEW o \in Threads,
             NEW d \in 1 .. MaxNesting, Raise(kind, h, o, d)
      PROVE  TypeOK'
  <2>1. <<h, d>> \in Acts
    BY DEF Acts
  <2>2. [NoLocals EXCEPT !.kind = kind, !.offender = o] \in Locals
    BY InitTypes, KindsAssumption DEF Locals
  <2> QED
    BY <1>1, <2>1, <2>2 DEF Raise, TypeOK, PCs, Goto
<1>2. ASSUME NEW a \in Acts, Step(a)
      PROVE  TypeOK'
  BY <1>2, NotifyTypeOK, HandleTypeOK, EndTypeOK DEF Step
<1>3. ASSUME NEW a \in Acts, FatalUnmonitored(a)
      PROVE  TypeOK'
  BY <1>3 DEF FatalUnmonitored, TypeOK, shared, frame
<1>4. CASE WatchdogExits
  BY <1>4 DEF WatchdogExits, TypeOK, shared, frame
<1>5. CASE UNCHANGED vars
  BY <1>5 DEF vars, shared, frame, system, TypeOK
<1> QED
  BY <1>1, <1>2, <1>3, <1>4, <1>5 DEF Next, Finished

\* In every behaviour of the dispatcher its state is well typed: the slot table
\* only ever holds threads, an activation is at a known place, and the context
\* it works in is one that notify() hands out.
THEOREM TypeCorrect == Spec => []TypeOK
  BY InitTypeOK, NextTypeOK, PTL DEF Spec

-----------------------------------------------------------------------------
(***************************************************************************)
(* QuiescentIndexReset.  Its inductive invariant speaks of behaviours that *)
(* have met no fatal exception and no flood (both are for good).           *)
(***************************************************************************)
Calm == ~isHandlingFatalException /\ ~dropped

\* A slot that is taken belongs to a handler that will still clear it.
SlotOwned ==
  \A slot \in Slots :
    threadsHandlingExceptions[slot] # NoThread
      => \E a \in Acts : index[a] = slot /\ pc[a] \in Published

\* A handler works in a heap context of its own, which names its slot.
OwnContext ==
  \A a \in Acts : pc[a] \in InContext
                    => local[a].ctx = a /\ ctx[a].threadHandlerIndex = index[a]

\* A handler that will go through endHandlingException()'s reset, or that is
\* in it and whose compare-and-exchange would succeed as things stand.
WillReset(a) ==
  \/ pc[a] \in Published \cup {"begun", "reading"}
  \/ pc[a] \in {"scanning", "swapping"} /\ expected[a] = handlingExceptionIndex

ResetPending == handlingExceptionIndex # 0 => \E a \in Acts : WillReset(a)

\* The loop over the slots stays inside the table.
CursorInTable ==
  \A a \in Acts : pc[a] = "scanning" => cursor[a] \in 0 .. MaxSimultaneous

\* Only a flood makes a handler wait inside notify().
DropNoted == \A a \in Acts : pc[a] = "awaitDrop" => dropped

IndexInv == /\ CursorInTable
            /\ DropNoted
            /\ Calm => SlotOwned /\ OwnContext /\ ResetPending

\* A step that takes a handler from one place between publishing and clearing
\* its slot to another, and touches neither the table nor the index, keeps what
\* the invariant says about them.
LEMMA MoveKeeps ==
  ASSUME TypeOK, NEW a \in Acts, NEW w \in Published,
         pc[a] \in Published, pc' = [pc EXCEPT ![a] = w],
         UNCHANGED <<threadsHandlingExceptions, handlingExceptionIndex, index,
                     expected>>,
         \A b \in Acts : b # a => cursor'[b] = cursor[b]
  PROVE  /\ CursorInTable => CursorInTable'
         /\ SlotOwned => SlotOwned'
         /\ ResetPending => ResetPending'
<1>1. \A b \in Acts : b # a => pc'[b] = pc[b]
  BY DEF TypeOK
<1>2. pc'[a] = w
  BY DEF TypeOK
<1>3. CursorInTable => CursorInTable'
  BY <1>1, <1>2 DEF CursorInTable, Published
<1>4. SlotOwned => SlotOwned'
  BY <1>1, <1>2 DEF SlotOwned
<1>5. ResetPending => ResetPending'
  BY <1>1, <1>2 DEF ResetPending, WillReset
<1> QED
  BY <1>3, <1>4, <1>5

\* The exception flags are never taken back.
LEMMA CalmBefore ==
  ASSUME TypeOK, NEW a \in Acts, Step(a), Calm'
  PROVE  Calm
  BY DEF Calm, Step, Notify, HandleException, EndHandling, shared, frame, system,
         Store, Inspect, Check, Drop, CrashLoopExit, Decide, Wake, Commit,
         ListThreads, Suspended, SuspendThread, Handle, Resumed, Disable,
         WatchdogGone, ResumeThread, Clear, ReadIndex, Scan, Swap, Return, TypeOK

\* notifyException() keeps the invariant.
LEMMA NotifyIndexInv ==
  ASSUME TypeOK, IndexInv, NEW a \in Acts, Notify(a), Calm' => Calm
  PROVE  IndexInv'
<1> USE DEF At, Goto, shared, frame, system
<1>1. CASE Store(a)
  <2>1. \A b \in Acts : pc'[b] = IF b = a THEN "stored" ELSE pc[b]
    BY <1>1 DEF Store, TypeOK
  <2>2. CursorInTable' /\ DropNoted'
    BY <1>1, <2>1 DEF Store, IndexInv, CursorInTable, DropNoted
  <2>3. ASSUME Calm' PROVE SlotOwned'
    <3> SUFFICES ASSUME NEW slot \in Slots, threadsHandlingExceptions'[slot] # NoThread
                 PROVE  \E b \in Acts : index'[b] = slot /\ pc'[b] \in Published
      BY DEF SlotOwned
    <3>1. CASE slot = index[a]
      BY <1>1, <2>1, <3>1 DEF Store, Published
    <3>2. CASE slot # index[a]
      <4>1. threadsHandlingExceptions[slot] # NoThread
        BY <1>1, <3>2 DEF Store, TypeOK
      <4>2. PICK b \in Acts : index[b] = slot /\ pc[b] \in Published
        BY <2>3, <4>1 DEF IndexInv, SlotOwned
      <4> QED
        BY <1>1, <2>1, <4>2 DEF Store, Published
    <3> QED
      BY <3>1, <3>2
  <2>4. ASSUME Calm' PROVE OwnContext'
    BY <1>1, <2>1, <2>4 DEF Store, IndexInv, OwnContext, InContext
  <2>5. ASSUME Calm' PROVE ResetPending'
    <3>1. WillReset(a)'
      BY <2>1 DEF WillReset, Published
    <3> QED
      BY <3>1 DEF ResetPending
  <2> QED
    BY <2>2, <2>3, <2>4, <2>5 DEF IndexInv
<1>2. CASE Inspect(a)
  <2>1. \A b \in Acts : b # a => cursor'[b] = cursor[b]
    BY <1>2 DEF Inspect, TypeOK
  <2>2. OwnContext => OwnContext'
    BY <1>2 DEF Inspect, OwnContext, InContext, TypeOK
  <2>3. DropNoted'
    BY <1>2 DEF Inspect, IndexInv, DropNoted, TypeOK
  <2> QED
    BY <1>2, <2>1, <2>2, <2>3, MoveKeeps DEF Inspect, IndexInv, Published
<1>3. CASE Check(a)
  <2>1. PICK w \in {"checking", "inspected"} : pc' = [pc EXCEPT ![a] = w]
    BY <1>3 DEF Check
  <2>2. \A b \in Acts : b # a => cursor'[b] = cursor[b]
    BY <1>3 DEF Check, TypeOK
  <2>3. OwnContext => OwnContext'
    BY <1>3, <2>1 DEF Check, OwnContext, InContext, TypeOK
  <2>4. DropNoted'
    BY <1>3, <2>1 DEF Check, IndexInv, DropNoted, TypeOK
  <2>5. w \in Published /\ pc[a] \in Published
    BY <1>3 DEF Check, Published
  <2> QED
    BY <1>3, <2>1, <2>2, <2>3, <2>4, <2>5, MoveKeeps DEF Check, IndexInv
<1>4. CASE Drop(a)
  <2>1. ~Calm' /\ dropped'
    BY <1>4 DEF Drop, Calm
  <2>2. CursorInTable'
    BY <1>4 DEF Drop, DisableAllMonitors, AfterDrop, IndexInv, CursorInTable, TypeOK
  <2> QED
    BY <2>1, <2>2 DEF IndexInv, DropNoted
<1>5. CASE CrashLoopExit(a)
  BY <1>5 DEF CrashLoopExit, IndexInv, CursorInTable, DropNoted, Calm, SlotOwned,
              OwnContext, ResetPending, WillReset
<1>6. CASE Decide(a)
  <2>1. PICK w \in {"sleeping", "committing"} : pc' = [pc EXCEPT ![a] = w]
    BY <1>6 DEF Decide
  <2>2. OwnContext => OwnContext'
    BY <1>6, <2>1 DEF Decide, OwnContext, InContext, TypeOK
  <2>3. DropNoted'
    BY <1>6, <2>1 DEF Decide, IndexInv, DropNoted, TypeOK
  <2>4. w \in Published /\ pc[a] \in Published
    BY <1>6 DEF Decide, Published
  <2> QED
    BY <1>6, <2>1, <2>2, <2>3, <2>4, MoveKeeps DEF Decide, IndexInv
<1>7. CASE Wake(a)
  <2>1. OwnContext => OwnContext'
    BY <1>7 DEF Wake, OwnContext, InContext, TypeOK
  <2>2. DropNoted'
    BY <1>7 DEF Wake, IndexInv, DropNoted, TypeOK
  <2> QED
    BY <1>7, <2>1, <2>2, MoveKeeps DEF Wake, IndexInv, Published
<1>8. CASE Commit(a)
  <2>1. PICK w \in {"listing", "handling"} : pc' = [pc EXCEPT ![a] = w]
    BY <1>8 DEF Commit
  <2>2. DropNoted'
    BY <1>8, <2>1 DEF Commit, IndexInv, DropNoted, TypeOK
  <2>3. w \in Published /\ pc[a] \in Published
    BY <1>8 DEF Commit, Published
  <2>4. ASSUME Calm' PROVE OwnContext'
    <3>1. ~IsAsync(a)
      BY <1>8, <2>4 DEF Commit, Calm, IsFatal, IsAsync, FatalKinds, AsyncKinds
    <3>2. a \in Contexts
      BY ContextsType
    <3>3. /\ local'[a].ctx = a
          /\ ctx'[a].threadHandlerIndex = index[a]
      BY <1>8, <3>1, <3>2 DEF Commit, TypeOK, Locals, ContextFields
    <3>4. ASSUME NEW b \in Acts, b # a
          PROVE  local'[b] = local[b] /\ ctx'[b] = ctx[b] /\ pc'[b] = pc[b]
      BY <1>8, <3>1, <3>2, <3>4, ContextsType DEF Commit, TypeOK
    <3> QED
      BY <1>8, <2>4, <3>3, <3>4 DEF Commit, IndexInv, OwnContext
  <2> QED
    BY <1>8, <2>1, <2>2, <2>3, <2>4, MoveKeeps DEF Commit, IndexInv
<1>9. CASE ListThreads(a)
  <2>1. OwnContext => OwnContext'
    <3>1. PICK listed : ctx' = [ctx EXCEPT ![local[a].ctx].suspended = listed]
      BY <1>9 DEF ListThreads
    <3>2. \A b \in Acts : ctx'[b].threadHandlerIndex = ctx[b].threadHandlerIndex
      BY <3>1, ContextsType DEF TypeOK, ContextFields
    <3> QED
      BY <1>9, <3>2 DEF ListThreads, OwnContext, InContext, TypeOK
  <2>2. DropNoted'
    BY <1>9 DEF ListThreads, IndexInv, DropNoted, TypeOK
  <2> QED
    BY <1>9, <2>1, <2>2, MoveKeeps DEF ListThreads, IndexInv, Published, Calm
<1>10. CASE Suspended(a)
  <2>1. OwnContext => OwnContext'
    BY <1>10 DEF Suspended, OwnContext, InContext, TypeOK
  <2>2. DropNoted'
    BY <1>10 DEF Suspended, IndexInv, DropNoted, TypeOK
  <2> QED
    BY <1>10, <2>1, <2>2, MoveKeeps DEF Suspended, IndexInv, Published
<1>11. ASSUME NEW t \in Threads, SuspendThread(a, t)
       PROVE  IndexInv'
  BY <1>11 DEF SuspendThread, IndexInv, CursorInTable, DropNoted, Calm, SlotOwned,
               OwnContext, ResetPending, WillReset
<1> QED
  BY <1>1, <1>2, <1>3, <1>4, <1>5, <1>6, <1>7, <1>8, <1>9, <1>10, <1>11 DEF Notify

\* handleException() keeps the invariant.
LEMMA HandleIndexInv ==
  ASSUME TypeOK, IndexInv, NEW a \in Acts, HandleException(a), Calm' => Calm
  PROVE  IndexInv'
<1> USE DEF At, Goto, shared, frame, system
<1>1. CASE Handle(a)
  <2>1. OwnContext => OwnContext'
    BY <1>1 DEF Handle, OwnContext, InContext, TypeOK
  <2>2. DropNoted'
    BY <1>1 DEF Handle, IndexInv, DropNoted, TypeOK
  <2> QED
    BY <1>1, <2>1, <2>2, MoveKeeps DEF Handle, IndexInv, Published
<1>2. CASE Resumed(a)
  <2>1. PICK w \in {"disabling", "clearing"} : pc' = [pc EXCEPT ![a] = w]
    BY <1>2 DEF Resumed
  <2>2. \A b \in Acts : ctx'[b].threadHandlerIndex = ctx[b].threadHandlerIndex
    BY <1>2, ContextsType DEF Resumed, TypeOK, ContextFields
  <2>3. OwnContext => OwnContext'
    BY <1>2, <2>1, <2>2 DEF Resumed, OwnContext, InContext, TypeOK
  <2>4. DropNoted'
    BY <1>2, <2>1 DEF Resumed, IndexInv, DropNoted, TypeOK
  <2>5. w \in Published /\ pc[a] \in Published
    BY <1>2 DEF Resumed, Published
  <2> QED
    BY <1>2, <2>1, <2>3, <2>4, <2>5, MoveKeeps DEF Resumed, IndexInv
<1>3. CASE Disable(a)
  <2>1. PICK w \in {"awaitEnd", "clearing"} : pc' = [pc EXCEPT ![a] = w]
    BY <1>3 DEF Disable, DisableAllMonitors
  <2>2. OwnContext => OwnContext'
    BY <1>3, <2>1 DEF Disable, OwnContext, InContext, TypeOK
  <2>3. DropNoted'
    BY <1>3, <2>1 DEF Disable, IndexInv, DropNoted, TypeOK
  <2>4. w \in Published /\ pc[a] \in Published
    BY <1>3 DEF Disable, Published
  <2> QED
    BY <1>3, <2>1, <2>2, <2>3, <2>4, MoveKeeps DEF Disable, IndexInv
<1>4. CASE WatchdogGone(a)
  <2>1. CASE At(a, "awaitDrop") /\ Goto(a, AfterDrop(a))
    <3>1. ~Calm'
      BY <1>4, <2>1 DEF WatchdogGone, IndexInv, DropNoted, Calm
    <3>2. CursorInTable' /\ DropNoted'
      BY <1>4, <2>1 DEF WatchdogGone, AfterDrop, IndexInv, CursorInTable,
                        DropNoted, TypeOK
    <3> QED
      BY <3>1, <3>2 DEF IndexInv
  <2>2. CASE At(a, "awaitEnd") /\ Goto(a, "clearing")
    <3>1. OwnContext => OwnContext'
      BY <1>4, <2>2 DEF WatchdogGone, OwnContext, InContext, TypeOK
    <3>2. DropNoted'
      BY <1>4, <2>2 DEF WatchdogGone, IndexInv, DropNoted, TypeOK
    <3> QED
      BY <1>4, <2>2, <3>1, <3>2, MoveKeeps DEF WatchdogGone, IndexInv, Published
  <2> QED
    BY <1>4, <2>1, <2>2 DEF WatchdogGone
<1>5. ASSUME NEW t \in Threads, ResumeThread(a, t)
      PROVE  IndexInv'
  BY <1>5 DEF ResumeThread, IndexInv, CursorInTable, DropNoted, Calm, SlotOwned,
              OwnContext, ResetPending, WillReset
<1> QED
  BY <1>1, <1>2, <1>3, <1>4, <1>5 DEF HandleException

\* endHandlingException() keeps the invariant: the last handler to leave finds
\* the table empty, or leaves the reset to one that has still to come by.
LEMMA EndIndexInv ==
  ASSUME TypeOK, IndexInv, NEW a \in Acts, EndHandling(a), Calm' => Calm
  PROVE  IndexInv'
<1> USE DEF At, Goto, shared, frame, system
<1>1. CASE Clear(a)
  <2>1. \A b \in Acts : pc'[b] = IF b = a THEN "reading" ELSE pc[b]
    BY <1>1 DEF Clear, TypeOK
  <2>2. CursorInTable' /\ DropNoted'
    BY <1>1, <2>1 DEF Clear, IndexInv, CursorInTable, DropNoted
  <2>3. ASSUME Calm' PROVE SlotOwned'
    <3>1. ctx[local[a].ctx].threadHandlerIndex = index[a]
      BY <1>1, <2>3 DEF Clear, IndexInv, OwnContext, InContext
    <3> SUFFICES ASSUME NEW slot \in Slots, threadsHandlingExceptions'[slot] # NoThread
                 PROVE  \E b \in Acts : index'[b] = slot /\ pc'[b] \in Published
      BY DEF SlotOwned
    <3>2. slot # index[a] /\ threadsHandlingExceptions[slot] # NoThread
      BY <1>1, <3>1 DEF Clear, TypeOK
    <3>3. PICK b \in Acts : index[b] = slot /\ pc[b] \in Published
      BY <2>3, <3>2 DEF IndexInv, SlotOwned
    <3> QED
      BY <1>1, <2>1, <3>2, <3>3 DEF Clear
  <2>4. ASSUME Calm' PROVE OwnContext'
    BY <1>1, <2>1, <2>4 DEF Clear, IndexInv, OwnContext, InContext
  <2>5. ResetPending'
    <3>1. WillReset(a)'
      BY <2>1 DEF WillReset
    <3> QED
      BY <3>1 DEF ResetPending
  <2> QED
    BY <2>2, <2>3, <2>4, <2>5 DEF IndexInv
<1>2. CASE ReadIndex(a)
  <2>1. PICK w \in {"returning", "scanning"} :
          /\ pc' = [pc EXCEPT ![a] = w]
          /\ handlingExceptionIndex # 0 => w = "scanning"
    BY <1>2 DEF ReadIndex
  <2>2. \A b \in Acts : pc'[b] = IF b = a THEN w ELSE pc[b]
    BY <2>1 DEF TypeOK
  <2>3. CursorInTable' /\ DropNoted'
    BY <1>2, <2>2, BoundsAssumption
       DEF ReadIndex, IndexInv, CursorInTable, DropNoted, TypeOK
  <2>4. ASSUME Calm' PROVE SlotOwned' /\ OwnContext'
    BY <1>2, <2>2, <2>4 DEF ReadIndex, IndexInv, SlotOwned, OwnContext, InContext,
                            Published
  <2>5. ResetPending'
    <3>1. expected'[a] = handlingExceptionIndex'
      BY <1>2 DEF ReadIndex, TypeOK
    <3>2. handlingExceptionIndex' # 0 => WillReset(a)'
      BY <1>2, <2>1, <2>2, <3>1 DEF ReadIndex, WillReset
    <3> QED
      BY <3>2 DEF ResetPending
  <2> QED
    BY <2>3, <2>4, <2>5 DEF IndexInv
<1>3. CASE Scan(a)
  <2>1. PICK w \in {"swapping", "scanning", "returning"} : pc' = [pc EXCEPT ![a] = w]
    BY <1>3 DEF Scan
  <2>2. \A b \in Acts : pc'[b] = IF b = a THEN w ELSE pc[b]
    BY <2>1 DEF TypeOK
  <2>3. w = "scanning" => cursor[a] # MaxSimultaneous
    BY <1>3, <2>2 DEF Scan, TypeOK
  <2>4. CursorInTable' /\ DropNoted'
    BY <1>3, <2>2, <2>3, BoundsAssumption
       DEF Scan, IndexInv, CursorInTable, DropNoted, TypeOK
  <2>5. ASSUME Calm' PROVE SlotOwned' /\ OwnContext'
    BY <1>3, <2>2, <2>5 DEF Scan, IndexInv, SlotOwned, OwnContext, InContext,
                            Published
  <2>6. ASSUME Calm' PROVE ResetPending'
    <3>1. CASE w # "returning"
      <4>1. \A b \in Acts : WillReset(b) => WillReset(b)'
        BY <1>3, <2>2, <3>1 DEF Scan, WillReset, Published
      <4> QED
        BY <1>3, <2>6, <4>1 DEF Scan, IndexInv, ResetPending
    <3>2. CASE w = "returning"
      <4>1. /\ cursor[a] # MaxSimultaneous
            /\ threadsHandlingExceptions[cursor[a]] # NoThread
        BY <1>3, <2>2, <3>2 DEF Scan, TypeOK
      <4>2. cursor[a] \in Slots
        BY <1>3, <4>1, BoundsAssumption DEF Scan, IndexInv, CursorInTable, Slots
      <4>3. PICK b \in Acts : pc[b] \in Published
        BY <2>6, <4>1, <4>2 DEF IndexInv, SlotOwned
      <4>4. b # a
        BY <1>3, <4>3 DEF Scan, Published
      <4> QED
        BY <1>3, <2>2, <4>3, <4>4 DEF ResetPending, WillReset
    <3> QED
      BY <3>1, <3>2
  <2> QED
    BY <2>4, <2>5, <2>6 DEF IndexInv
<1>4. CASE Swap(a)
  <2>1. \A b \in Acts : pc'[b] = IF b = a THEN "returning" ELSE pc[b]
    BY <1>4 DEF Swap, TypeOK
  <2>2. CursorInTable' /\ DropNoted'
    BY <1>4, <2>1 DEF Swap, IndexInv, CursorInTable, DropNoted
  <2>3. ASSUME Calm' PROVE SlotOwned' /\ OwnContext'
    BY <1>4, <2>1, <2>3 DEF Swap, IndexInv, SlotOwned, OwnContext, InContext,
                            Published
  <2>4. ASSUME Calm' PROVE ResetPending'
    BY <1>4, <2>1, <2>4 DEF Swap, IndexInv, ResetPending, WillReset, Published
  <2> QED
    BY <2>2, <2>3, <2>4 DEF IndexInv
<1>5. CASE Return(a)
  <2>1. \A b \in Acts : pc'[b] = IF b = a THEN "idle" ELSE pc[b]
    BY <1>5 DEF Return, TypeOK
  <2>2. \A b \in Acts : b # a => /\ index'[b] = index[b] /\ cursor'[b] = cursor[b]
                                 /\ expected'[b] = expected[b]
                                 /\ local'[b] = local[b] /\ ctx'[b] = ctx[b]
    BY <1>5, ContextsType DEF Return, TypeOK
  <2>3. CursorInTable' /\ DropNoted'
    BY <1>5, <2>1, <2>2 DEF Return, IndexInv, CursorInTable, DropNoted
  <2>4. ASSUME Calm' PROVE SlotOwned'
    BY <1>5, <2>1, <2>2, <2>4 DEF Return, IndexInv, SlotOwned, Published
  <2>5. ASSUME Calm' PROVE OwnContext'
    BY <1>5, <2>1, <2>2, <2>5 DEF Return, IndexInv, OwnContext, InContext
  <2>6. ASSUME Calm' PROVE ResetPending'
    BY <1>5, <2>1, <2>2, <2>6 DEF Return, IndexInv, ResetPending, WillReset,
                                  Published
  <2> QED
    BY <2>3, <2>4, <2>5, <2>6 DEF IndexInv
<1> QED
  BY <1>1, <1>2, <1>3, <1>4, <1>5 DEF EndHandling

\* Every step keeps the invariant; a new exception brings a handler that will
\* go through the reset itself.
LEMMA NextIndexInv == TypeOK /\ IndexInv /\ [Next]_vars => IndexInv'
<1> SUFFICES ASSUME TypeOK, IndexInv, [Next]_vars PROVE IndexInv'
  OBVIOUS
<1>1. ASSUME NEW kind \in Kinds, NEW h \in Threads, NEW o \in Threads,
             NEW d \in 1 .. MaxNesting, Raise(kind, h, o, d)
      PROVE  IndexInv'
  <2> DEFINE a == <<h, d>>
  <2>0. a \in Acts
    BY DEF Acts
  <2>1. pc[a] = "idle" /\ (Calm' => Calm)
    BY <1>1 DEF Raise, Active, Calm
  <2>2. /\ \A b \in Acts : pc'[b] = IF b = a THEN "begun" ELSE pc[b]
        /\ \A b \in Acts : b # a => index'[b] = index[b] /\ local'[b] = local[b]
        /\ UNCHANGED <<cursor, ctx, dropped, threadsHandlingExceptions>>
    BY <1>1, <2>0 DEF Raise, Goto, TypeOK
  <2> HIDE DEF a
  <2>3. CursorInTable' /\ DropNoted'
    BY <2>2 DEF IndexInv, CursorInTable, DropNoted
  <2>4. ASSUME Calm' PROVE SlotOwned'
    <3> SUFFICES ASSUME NEW slot \in Slots, threadsHandlingExceptions'[slot] # NoThread
                 PROVE  \E b \in Acts : index'[b] = slot /\ pc'[b] \in Published
      BY DEF SlotOwned
    <3>1. PICK b \in Acts : index[b] = slot /\ pc[b] \in Published
      BY <2>1, <2>2, <2>4 DEF IndexInv, SlotOwned
    <3>2. b # a
      BY <2>1, <3>1 DEF Published
    <3> QED
      BY <2>2, <3>1, <3>2
  <2>5. ASSUME Calm' PROVE OwnContext'
    BY <2>1, <2>2, <2>5 DEF IndexInv, OwnContext, InContext
  <2>6. ResetPending'
    BY <2>0, <2>2 DEF ResetPending, WillReset
  <2> QED
    BY <2>3, <2>4, <2>5, <2>6 DEF IndexInv
<1>2. ASSUME NEW a \in Acts, Step(a)
      PROVE  IndexInv'
  BY <1>2, CalmBefore, NotifyIndexInv, HandleIndexInv, EndIndexInv DEF Step
<1>3. ASSUME NEW a \in Acts, FatalUnmonitored(a)
      PROVE  IndexInv'
  BY <1>3 DEF FatalUnmonitored, shared, frame, IndexInv, CursorInTable, DropNoted,
              Calm, SlotOwned, OwnContext, ResetPending, WillReset
<1>4. CASE WatchdogExits
  BY <1>4 DEF WatchdogExits, shared, frame, IndexInv, CursorInTable, DropNoted,
              Calm, SlotOwned, OwnContext, ResetPending, WillReset
<1>5. CASE UNCHANGED vars
  BY <1>5 DEF vars, shared, frame, system, IndexInv, CursorInTable, DropNoted,
              Calm, SlotOwned, OwnContext, ResetPending, WillReset
<1> QED
  BY <1>1, <1>2, <1>3, <1>4, <1>5 DEF Next, Finished

\* However many threads report exceptions at the same time, and however their
\* handlers interleave, handlingExceptionIndex is 0 again once all of them have
\* returned, unless an exception was fatal or the table was flooded: the
\* compare-and-exchange of endHandlingException() never leaves it behind.
THEOREM IndexAlwaysReset == Spec => []QuiescentIndexReset
<1>1. Init => IndexInv
  BY DEF Init, IndexInv, CursorInTable, DropNoted, SlotOwned, OwnContext,
         ResetPending, InContext
<1>2. IndexInv => QuiescentIndexReset
  BY DEF IndexInv, Calm, ResetPending, WillReset, QuiescentIndexReset, Quiescent,
         Active, Published
<1> QED
  BY <1>1, <1>2, TypeCorrect, NextIndexInv, PTL DEF Spec

-----------------------------------------------------------------------------
(***************************************************************************)
(* SuspensionsSound.  What thread_suspend() was called for and             *)
(* thread_resume() has not been yet is counted handler by handler.  The    *)
(* count is kept as long as no exception that ends the process has been    *)
(* taken on: two such handlers may share an async-safe context, and with   *)
(* it the list of suspended threads.                                       *)
(***************************************************************************)
TakenOn(a) == Active(a) /\ local[a].kind \in EndingKinds /\ local[a].ctx # ExitCtx

Survivable == \/ ~isHandlingFatalException
              \/ alive /\ \A a \in Acts : ~TakenOn(a)

\* The handler has suspended the thread and not resumed it yet.
Holds(a, t) ==
  \/ pc[a] \in {"suspending", "handling"} /\ t \in ctx[local[a].ctx].suspended \ todo[a]
  \/ pc[a] = "resuming" /\ t \in todo[a]

Holders(t) == {a \in Acts : Holds(a, t)}

\* A handler has no context before it has decided what to do, and afterwards
\* its own one or one of the static ones.
SharedContexts == {Async(0), Async(1), ExitCtx}

Undecided == {"idle", "begun", "stored", "checking", "inspected", "awaitDrop",
              "sleeping", "committing"}

ContextTaken ==
  \A a \in Acts : /\ local[a].ctx \in SharedContexts \cup {a}
                  /\ pc[a] \in Undecided => local[a].ctx = ExitCtx

\* The exceptions that end the process are marked as fatal.
FatalNoted ==
  \A a \in Acts : local[a].kind \in FatalKinds /\ local[a].ctx # ExitCtx
                    => isHandlingFatalException

\* Outside the two loops no thread is left over.
LoopsDone == \A a \in Acts : pc[a] \notin {"suspending", "resuming"} => todo[a] = {}

\* Only a context of the handler's own lists threads.
ListsOwned ==
  /\ \A c \in SharedContexts : ctx[c].suspended = {}
  /\ \A a \in Acts : pc[a] \in {"listing", "suspending"} => local[a].ctx = a
  /\ \A a \in Acts : pc[a] = "suspending" => todo[a] \subseteq ctx[a].suspended

Counted == \A t \in Threads : suspendCount[t] = Cardinality(Holders(t))

SuspendInv == /\ ContextTaken /\ FatalNoted /\ LoopsDone
              /\ Survivable => ListsOwned /\ Counted

\* A static context is not one of the heap.
LEMMA SharedApart == \A a \in Acts : a \notin SharedContexts /\ a \in Contexts
<1>1. Async(0) = <<"async", 0>> /\ Async(1) = <<"async", 1>>
  BY DEF Async
<1> QED
  BY <1>1, ThreadsAssumption, BoundsAssumption DEF Acts, SharedContexts, ExitCtx, Contexts

\* The handlers are finitely many.
LEMMA HoldersFinite == \A t \in Threads : IsFiniteSet(Holders(t))
<1>1. IsFiniteSet(1 .. MaxNesting)
  BY FS_Interval, BoundsAssumption
<1>2. IsFiniteSet(Acts)
  BY <1>1, FS_Product, ThreadsAssumption DEF Acts
<1> QED
  BY <1>2, FS_Subset DEF Holders

\* What a step that leaves the other handlers alone keeps of them.
Apart(a) ==
  /\ \A b \in Acts \ {a} : /\ pc'[b] = pc[b] /\ local'[b] = local[b]
                           /\ todo'[b] = todo[b] /\ ctx'[b] = ctx[b]
  /\ \A c \in SharedContexts : ctx'[c].suspended = {}

LEMMA OthersHold ==
  ASSUME ContextTaken, ListsOwned, NEW a \in Acts, Apart(a), NEW b \in Acts \ {a},
         NEW t \in Threads
  PROVE  Holds(b, t)' <=> Holds(b, t)
<1>1. local[b].ctx \in SharedContexts \cup {b}
  BY DEF ContextTaken
<1>2. ctx'[local[b].ctx].suspended = ctx[local[b].ctx].suspended
  BY <1>1 DEF Apart, ListsOwned
<1> QED
  BY <1>2 DEF Apart, Holds

\* A step of a handler that suspends and resumes nobody.
LEMMA NobodyMoves ==
  ASSUME ContextTaken, ListsOwned, Counted, NEW a \in Acts, Apart(a),
         pc'[a] \in {"listing", "suspending"} => local'[a].ctx = a,
         pc'[a] = "suspending" => todo'[a] \subseteq ctx'[a].suspended,
         \A t \in Threads : Holds(a, t)' <=> Holds(a, t),
         suspendCount' = suspendCount
  PROVE  ListsOwned' /\ Counted'
<1>1. ListsOwned'
  BY DEF ListsOwned, Apart
<1>2. \A t \in Threads : Holders(t)' = Holders(t)
  BY OthersHold DEF Holders
<1> QED
  BY <1>1, <1>2 DEF Counted

\* No exception that ends the process is forgotten.
LEMMA SurvivableBefore ==
  ASSUME TypeOK, ContextTaken, [Next]_vars, Survivable'
  PROVE  Survivable
<1> USE DEF At, Goto, shared, frame, system, Survivable, TakenOn, Active
<1>1. ASSUME NEW kind \in Kinds, NEW h \in Threads, NEW o \in Threads,
             NEW d \in 1 .. MaxNesting, Raise(kind, h, o, d)
      PROVE  Survivable
  <2>1. \A b \in Acts : pc[b] # "idle" => pc'[b] = pc[b] /\ local'[b] = local[b]
    BY <1>1 DEF Raise, TypeOK
  <2> QED
    BY <1>1, <2>1 DEF Raise
<1>2. ASSUME NEW a \in Acts, Step(a)
      PROVE  Survivable
  <2>1. CASE Drop(a)
    BY <1>2, <2>1 DEF Drop, DisableAllMonitors, AfterDrop, TypeOK, ContextTaken, Undecided
  <2>2. CASE Commit(a)
    <3>1. \A b \in Acts : b # a => pc'[b] = pc[b] /\ local'[b] = local[b]
      BY <2>2 DEF Commit, TypeOK
    <3>2. local[a].ctx = ExitCtx
      BY <2>2 DEF Commit, ContextTaken, Undecided
    <3> QED
      BY <2>2, <3>1, <3>2 DEF Commit, TypeOK
  <2>3. CASE Return(a)
    <3>1. \A b \in Acts : b # a => pc'[b] = pc[b] /\ local'[b] = local[b]
      BY <2>3 DEF Return, TypeOK
    <3>2. alive /\ (alive' <=> local[a].kind \notin EndingKinds)
      BY <2>3 DEF Return, Runs
    <3>3. isHandlingFatalException' = isHandlingFatalException
      BY <2>3 DEF Return
    <3> QED
      BY <3>1, <3>2, <3>3
  <2>4. CASE Inspect(a) \/ Check(a)
    <3>1. \A b \in Acts : /\ local'[b].kind = local[b].kind /\ local'[b].ctx = local[b].ctx
                          /\ pc'[b] = "idle" <=> pc[b] = "idle"
      BY <2>4 DEF Inspect, Check, TypeOK, Locals
    <3> QED
      BY <2>4, <3>1 DEF Inspect, Check
  <2>5. CASE \/ Store(a) \/ CrashLoopExit(a) \/ Decide(a) \/ Wake(a)
             \/ ListThreads(a) \/ Suspended(a) \/ \E t \in Threads : SuspendThread(a, t)
    <3>1. \A b \in Acts : pc'[b] = "idle" <=> pc[b] = "idle"
      BY <2>5 DEF Store, CrashLoopExit, Decide, Wake, ListThreads, Suspended,
                  SuspendThread, TypeOK
    <3> QED
      BY <2>5, <3>1 DEF Store, CrashLoopExit, Decide, Wake, ListThreads, Suspended,
                        SuspendThread
  <2>6. CASE HandleException(a)
    <3>1. \A b \in Acts : pc'[b] = "idle" <=> pc[b] = "idle"
      BY <2>6 DEF HandleException, Handle, Resumed, Disable, DisableAllMonitors,
                  WatchdogGone, AfterDrop, ResumeThread, TypeOK
    <3> QED
      BY <2>6, <3>1 DEF HandleException, Handle, Resumed, Disable, WatchdogGone, ResumeThread
  <2>7. CASE Clear(a) \/ ReadIndex(a) \/ Scan(a) \/ Swap(a)
    <3>1. \A b \in Acts : pc'[b] = "idle" <=> pc[b] = "idle"
      BY <2>7 DEF Clear, ReadIndex, Scan, Swap, TypeOK
    <3> QED
      BY <2>7, <3>1 DEF Clear, ReadIndex, Scan, Swap
  <2> QED
    BY <1>2, <2>1, <2>2, <2>3, <2>4, <2>5, <2>6, <2>7 DEF Step, Notify, EndHandling
<1>3. ASSUME NEW a \in Acts, FatalUnmonitored(a)
      PROVE  Survivable
  BY <1>3 DEF FatalUnmonitored
<1>4. CASE WatchdogExits
  BY <1>4 DEF WatchdogExits
<1>5. CASE UNCHANGED vars
  BY <1>5 DEF vars
<1> QED
  BY <1>1, <1>2, <1>3, <1>4, <1>5 DEF Next, Finished

\* A step of a handler in which it neither takes a context nor gives one up, and
\* in which no list of threads changes, keeps the invariant when its loops
\* are not concerned.
LEMMA QuietStep ==
  ASSUME TypeOK, SuspendInv, Survivable' => Survivable, NEW a \in Acts, NEW w \in PCs,
         pc' = [pc EXCEPT ![a] = w], pc[a] # "idle",
         UNCHANGED <<ctx, todo, suspendCount>>,
         isHandlingFatalException => isHandlingFatalException',
         \A b \in Acts : b # a => local'[b] = local[b],
         local'[a].kind = local[a].kind,
         \/ local'[a].ctx = local[a].ctx /\ (w \in Undecided => pc[a] \in Undecided)
         \/ local'[a].ctx = ExitCtx,
         \/ /\ {pc[a], w} \cap {"listing", "suspending", "handling", "resuming"} = {}
         \/ /\ pc[a] \notin {"listing", "suspending", "handling", "resuming"}
            /\ w = "handling" /\ local'[a].ctx = ExitCtx
         \/ pc[a] = "suspending" /\ w = "handling" /\ todo[a] = {} /\ local' = local
  PROVE  SuspendInv'
<1>1. \A b \in Acts : pc'[b] = IF b = a THEN w ELSE pc[b]
  BY DEF TypeOK
<1>2. ContextTaken'
  BY <1>1 DEF SuspendInv, ContextTaken, SharedContexts
<1>3. FatalNoted'
  BY <1>1 DEF SuspendInv, FatalNoted
<1>4. LoopsDone'
  BY <1>1 DEF SuspendInv, LoopsDone
<1>5. ASSUME Survivable' PROVE ListsOwned' /\ Counted'
  <2>1. ContextTaken /\ ListsOwned /\ Counted /\ LoopsDone
    BY <1>5 DEF SuspendInv
  <2>2. Apart(a)
    BY <1>1, <2>1 DEF Apart, ListsOwned
  <2>3. \A t \in Threads : Holds(a, t)' <=> Holds(a, t)
    BY <1>1, <2>1 DEF Holds, ListsOwned, SharedContexts
  <2> QED
    BY <1>1, <2>1, <2>2, <2>3, NobodyMoves
<1> QED
  BY <1>2, <1>3, <1>4, <1>5 DEF SuspendInv

\* notifyException() keeps the invariant.
LEMMA NotifySuspendInv ==
  ASSUME TypeOK, SuspendInv, Survivable' => Survivable, NEW a \in Acts, Notify(a)
  PROVE  SuspendInv'
<1> USE DEF At, Goto, shared, frame, system
<1>1. CASE Store(a)
  BY <1>1, QuietStep DEF Store, PCs, Undecided
<1>2. CASE Inspect(a)
  <2>1. /\ local'[a].kind = local[a].kind /\ local'[a].ctx = local[a].ctx
        /\ \A b \in Acts : b # a => local'[b] = local[b]
    BY <1>2 DEF Inspect, TypeOK, Locals
  <2> QED
    BY <1>2, <2>1, QuietStep DEF Inspect, PCs, Undecided
<1>3. CASE Check(a)
  <2>1. /\ local'[a].kind = local[a].kind /\ local'[a].ctx = local[a].ctx
        /\ \A b \in Acts : b # a => local'[b] = local[b]
    BY <1>3 DEF Check, TypeOK, Locals
  <2>2. PICK w \in {"checking", "inspected"} : pc' = [pc EXCEPT ![a] = w]
    BY <1>3 DEF Check
  <2>3. w \in PCs /\ pc[a] \in Undecided
    BY <1>3 DEF Check, PCs, Undecided
  <2>4. /\ UNCHANGED <<ctx, todo, suspendCount, isHandlingFatalException>>
        /\ pc[a] = "checking"
    BY <1>3 DEF Check
  <2> QED
    BY <2>1, <2>2, <2>3, <2>4, QuietStep
<1>4. CASE Drop(a)
  <2>1. /\ local'[a].kind = local[a].kind /\ local'[a].ctx = ExitCtx
        /\ \A b \in Acts : b # a => local'[b] = local[b]
    BY <1>4 DEF Drop, TypeOK, Locals
  <2>2. PICK w \in {"awaitDrop", "returning", "handling"} : pc' = [pc EXCEPT ![a] = w]
    BY <1>4 DEF Drop, DisableAllMonitors, AfterDrop
  <2>3. w \in PCs
    BY DEF PCs
  <2> QED
    BY <1>4, <2>1, <2>2, <2>3, QuietStep DEF Drop
<1>5. CASE CrashLoopExit(a)
  <2>1. UNCHANGED <<pc, local, ctx, todo, suspendCount, isHandlingFatalException>>
    BY <1>5 DEF CrashLoopExit
  <2> QED
    BY <2>1 DEF SuspendInv, ContextTaken, FatalNoted, LoopsDone, ListsOwned, Counted,
                Holders, Holds
<1>6. CASE Decide(a)
  <2>1. PICK w \in {"sleeping", "committing"} : pc' = [pc EXCEPT ![a] = w]
    BY <1>6 DEF Decide
  <2>2. w \in PCs /\ pc[a] \in Undecided
    BY <1>6 DEF Decide, PCs, Undecided
  <2> QED
    BY <1>6, <2>1, <2>2, QuietStep DEF Decide
<1>7. CASE Wake(a)
  BY <1>7, QuietStep DEF Wake, PCs, Undecided
<1>8. CASE Commit(a)
  <2> DEFINE c == IF IsAsync(a) THEN Async(asyncSafeContextIndex) ELSE a
  <2>1. c \in SharedContexts \cup {a} /\ c \in Contexts
    BY ContextsType DEF TypeOK, SharedContexts
  <2>2. /\ \A b \in Acts : b # a => local'[b] = local[b] /\ pc'[b] = pc[b]
        /\ local'[a].kind = local[a].kind /\ local'[a].ctx = c
        /\ pc'[a] = IF RecordAll(a) THEN "listing" ELSE "handling"
    BY <1>8, <2>1 DEF Commit, TypeOK, Locals
  <2>3. /\ \A b \in Contexts : b # c => ctx'[b] = ctx[b]
        /\ ctx'[c].suspended = IF RecordAll(a) \/ ~IsAsync(a) THEN {} ELSE ctx[c].suspended
    BY <1>8, <2>1 DEF Commit, TypeOK
  <2>4. todo' = todo /\ suspendCount' = suspendCount /\ pc[a] = "committing"
    BY <1>8 DEF Commit
  <2>5. isHandlingFatalException' = (isHandlingFatalException \/ IsFatal(a))
    BY <1>8 DEF Commit
  <2>6. IsAsync(a) => c \in SharedContexts
    BY DEF TypeOK, SharedContexts
  <2>7. ~IsAsync(a) => c = a
    OBVIOUS
  <2> HIDE DEF c
  <2>8. ContextTaken'
    BY <2>1, <2>2 DEF SuspendInv, ContextTaken, Undecided
  <2>9. FatalNoted'
    BY <2>2, <2>5 DEF SuspendInv, FatalNoted, IsFatal
  <2>10. LoopsDone'
    BY <2>2, <2>4 DEF SuspendInv, LoopsDone
  <2>11. ASSUME Survivable' PROVE ListsOwned' /\ Counted'
    <3>1. ContextTaken /\ ListsOwned /\ Counted /\ LoopsDone
      BY <2>11 DEF SuspendInv
    <3>2. c # ExitCtx
      BY <2>6, <2>7, SharedApart DEF SharedContexts, Async, ExitCtx, TypeOK, c
    <3>3. local[a].kind \notin EndingKinds
      <4>1. SUFFICES ASSUME local[a].kind \in EndingKinds PROVE FALSE
        OBVIOUS
      <4>2. isHandlingFatalException'
        BY <2>5, <4>1 DEF IsFatal, EndingKinds, FatalKinds
      <4>3. TakenOn(a)'
        BY <2>2, <3>2, <4>1 DEF TakenOn, Active
      <4> QED
        BY <2>11, <4>2, <4>3 DEF Survivable
    <3>4. RecordAll(a) => c = a
      BY <2>7, <3>3 DEF RecordAll, IsAsync, EndingKinds, AsyncKinds
    <3>5. ctx'[c].suspended = {}
      BY <2>3, <2>6, <3>1 DEF ListsOwned
    <3>6. Apart(a)
      BY <2>1, <2>2, <2>3, <2>4, <3>1, <3>5, SharedApart, ContextsType
         DEF Apart, ListsOwned, SharedContexts
    <3>7. \A t \in Threads : Holds(a, t)' <=> Holds(a, t)
      BY <2>2, <2>4, <3>5 DEF Holds
    <3> QED
      BY <2>2, <2>4, <3>1, <3>4, <3>6, <3>7, NobodyMoves
  <2> QED
    BY <2>8, <2>9, <2>10, <2>11 DEF SuspendInv
<1>9. CASE ListThreads(a)
  <2>1. PICK listed \in SUBSET Threads :
          /\ todo' = [todo EXCEPT ![a] = listed]
          /\ ctx' = [ctx EXCEPT ![local[a].ctx].suspended = listed]
    BY <1>9 DEF ListThreads, OtherThreads
  <2>2. /\ \A b \in Acts : pc'[b] = IF b = a THEN "suspending" ELSE pc[b]
        /\ \A b \in Acts : todo'[b] = IF b = a THEN listed ELSE todo[b]
        /\ pc[a] = "listing"
        /\ UNCHANGED <<local, suspendCount, isHandlingFatalException>>
    BY <1>9, <2>1 DEF ListThreads, TypeOK
  <2>3. ContextTaken' /\ FatalNoted' /\ LoopsDone'
    BY <2>2 DEF SuspendInv, ContextTaken, FatalNoted, LoopsDone, Undecided
  <2>4. ASSUME Survivable' PROVE ListsOwned' /\ Counted'
    <3>1. ContextTaken /\ ListsOwned /\ Counted
      BY <2>4 DEF SuspendInv
    <3>2. local[a].ctx = a
      BY <2>2, <3>1 DEF ListsOwned
    <3>3. /\ \A c \in Contexts : c # a => ctx'[c] = ctx[c]
          /\ ctx'[a].suspended = listed
      BY <2>1, <3>2, SharedApart DEF TypeOK, ContextFields
    <3>4. Apart(a)
      BY <2>2, <3>1, <3>3, SharedApart, ContextsType DEF Apart, ListsOwned, SharedContexts
    <3>5. \A t \in Threads : Holds(a, t)' <=> Holds(a, t)
      BY <2>2, <3>2, <3>3 DEF Holds
    <3> QED
      BY <2>2, <3>1, <3>2, <3>3, <3>4, <3>5, NobodyMoves
  <2> QED
    BY <2>3, <2>4 DEF SuspendInv
<1>10. CASE Suspended(a)
  BY <1>10, QuietStep DEF Suspended, PCs, Undecided
<1>11. ASSUME NEW t \in Threads, SuspendThread(a, t)
       PROVE  SuspendInv'
  <2>1. /\ UNCHANGED <<pc, local, ctx, isHandlingFatalException>>
        /\ \A b \in Acts : todo'[b] = IF b = a THEN todo[a] \ {t} ELSE todo[b]
        /\ pc[a] = "suspending" /\ t \in todo[a]
        /\ \A u \in Threads : suspendCount'[u] = IF u = t THEN suspendCount[u] + 1
                                                 ELSE suspendCount[u]
    BY <1>11 DEF SuspendThread, TypeOK
  <2>2. ContextTaken' /\ FatalNoted' /\ LoopsDone'
    BY <2>1 DEF SuspendInv, ContextTaken, FatalNoted, LoopsDone
  <2>3. ASSUME Survivable' PROVE ListsOwned' /\ Counted'
    <3>1. ContextTaken /\ ListsOwned /\ Counted
      BY <2>3 DEF SuspendInv
    <3>2. ListsOwned' /\ Apart(a)
      BY <2>1, <3>1 DEF ListsOwned, Apart
    <3>3. \A u \in Threads : Holds(a, u)' <=> (Holds(a, u) \/ u = t)
      BY <2>1, <3>1 DEF Holds, ListsOwned
    <3>4. ~Holds(a, t)
      BY <2>1 DEF Holds
    <3>5. \A u \in Threads : Holders(u)' = IF u = t THEN Holders(u) \cup {a} ELSE Holders(u)
      BY <3>1, <3>2, <3>3, OthersHold DEF Holders
    <3>6. Cardinality(Holders(t) \cup {a}) = Cardinality(Holders(t)) + 1
      BY <3>4, HoldersFinite, FS_AddElement DEF Holders
    <3> QED
      BY <2>1, <3>1, <3>2, <3>5, <3>6 DEF Counted
  <2> QED
    BY <2>2, <2>3 DEF SuspendInv
<1> QED
  BY <1>1, <1>2, <1>3, <1>4, <1>5, <1>6, <1>7, <1>8, <1>9, <1>10, <1>11 DEF Notify

\* handleException() keeps the invariant.
LEMMA HandleSuspendInv ==
  ASSUME TypeOK, SuspendInv, Survivable' => Survivable, NEW a \in Acts, HandleException(a)
  PROVE  SuspendInv'
<1> USE DEF At, Goto, shared, frame, system
<1>1. CASE Handle(a)
  <2>1. /\ \A b \in Acts : pc'[b] = IF b = a THEN "resuming" ELSE pc[b]
        /\ \A b \in Acts : todo'[b] = IF b = a THEN ctx[local[a].ctx].suspended ELSE todo[b]
        /\ pc[a] = "handling"
        /\ UNCHANGED <<local, ctx, suspendCount, isHandlingFatalException>>
    BY <1>1 DEF Handle, TypeOK
  <2>2. ContextTaken' /\ FatalNoted' /\ LoopsDone'
    BY <2>1 DEF SuspendInv, ContextTaken, FatalNoted, LoopsDone, Undecided
  <2>3. ASSUME Survivable' PROVE ListsOwned' /\ Counted'
    <3>1. ContextTaken /\ ListsOwned /\ Counted /\ LoopsDone
      BY <2>3 DEF SuspendInv
    <3>2. Apart(a)
      BY <2>1, <3>1 DEF Apart, ListsOwned
    <3>3. \A t \in Threads : Holds(a, t)' <=> Holds(a, t)
      BY <2>1, <3>1 DEF Holds, LoopsDone
    <3> QED
      BY <2>1, <3>1, <3>2, <3>3, NobodyMoves
  <2> QED
    BY <2>2, <2>3 DEF SuspendInv
<1>2. CASE Resumed(a)
  <2>1. PICK w \in {"disabling", "clearing"} : pc' = [pc EXCEPT ![a] = w]
    BY <1>2 DEF Resumed
  <2>2. /\ \A b \in Acts : pc'[b] = IF b = a THEN w ELSE pc[b]
        /\ pc[a] = "resuming" /\ todo[a] = {}
        /\ ctx' = [ctx EXCEPT ![local[a].ctx].suspended = {}]
        /\ UNCHANGED <<local, todo, suspendCount, isHandlingFatalException>>
    BY <1>2, <2>1 DEF Resumed, TypeOK
  <2>3. ContextTaken' /\ FatalNoted' /\ LoopsDone'
    BY <2>2 DEF SuspendInv, ContextTaken, FatalNoted, LoopsDone, Undecided
  <2>4. ASSUME Survivable' PROVE ListsOwned' /\ Counted'
    <3>1. ContextTaken /\ ListsOwned /\ Counted
      BY <2>4 DEF SuspendInv
    <3>2. local[a].ctx \in SharedContexts \cup {a} /\ local[a].ctx \in Contexts
      BY <3>1, ContextsType DEF ContextTaken, SharedContexts
    <3>3. /\ \A c \in Contexts : c # local[a].ctx => ctx'[c] = ctx[c]
          /\ ctx'[local[a].ctx].suspended = {}
          /\ ctx[local[a].ctx] \in ContextFields
      BY <2>2, <3>2 DEF TypeOK, ContextFields
    <3>4. \A b \in Acts : b # a => ctx'[b] = ctx[b]
      BY <3>2, <3>3, SharedApart
    <3>5. \A c \in SharedContexts : ctx'[c].suspended = {}
      <4>1. \A c \in SharedContexts : c \in Contexts
        BY ContextsType DEF SharedContexts
      <4> QED
        BY <3>1, <3>3, <4>1 DEF ListsOwned
    <3>6. Apart(a)
      BY <2>2, <3>4, <3>5 DEF Apart
    <3>7. \A t \in Threads : Holds(a, t)' <=> Holds(a, t)
      BY <2>2 DEF Holds
    <3> QED
      BY <2>2, <3>1, <3>6, <3>7, NobodyMoves
  <2> QED
    BY <2>3, <2>4 DEF SuspendInv
<1>3. CASE Disable(a)
  <2>1. PICK w \in {"awaitEnd", "clearing"} : pc' = [pc EXCEPT ![a] = w]
    BY <1>3 DEF Disable, DisableAllMonitors
  <2>2. w \in PCs /\ w \notin Undecided
    BY DEF PCs, Undecided
  <2> QED
    BY <1>3, <2>1, <2>2, QuietStep DEF Disable
<1>4. CASE WatchdogGone(a)
  <2>1. CASE At(a, "awaitDrop")
    <3>1. PICK w \in {"returning", "handling"} : pc' = [pc EXCEPT ![a] = w]
      BY <1>4, <2>1 DEF WatchdogGone, AfterDrop
    <3>2. w \in PCs /\ local[a].ctx = ExitCtx
      BY <2>1 DEF PCs, SuspendInv, ContextTaken, Undecided
    <3> QED
      BY <1>4, <2>1, <3>1, <3>2, QuietStep DEF WatchdogGone
  <2>2. CASE At(a, "awaitEnd")
    <3>1. pc' = [pc EXCEPT ![a] = "clearing"]
      BY <1>4, <2>2 DEF WatchdogGone
    <3>2. "clearing" \in PCs /\ "clearing" \notin Undecided
      BY DEF PCs, Undecided
    <3> QED
      BY <1>4, <2>2, <3>1, <3>2, QuietStep DEF WatchdogGone
  <2> QED
    BY <1>4, <2>1, <2>2 DEF WatchdogGone
<1>5. ASSUME NEW t \in Threads, ResumeThread(a, t)
      PROVE  SuspendInv'
  <2>1. /\ UNCHANGED <<pc, local, ctx, isHandlingFatalException>>
        /\ \A b \in Acts : todo'[b] = IF b = a THEN todo[a] \ {t} ELSE todo[b]
        /\ pc[a] = "resuming" /\ t \in todo[a]
        /\ \A u \in Threads : u # t => suspendCount'[u] = suspendCount[u]
        /\ suspendCount[t] > 0 => suspendCount'[t] = suspendCount[t] - 1
    BY <1>5 DEF ResumeThread, TypeOK
  <2>2. ContextTaken' /\ FatalNoted' /\ LoopsDone'
    BY <2>1 DEF SuspendInv, ContextTaken, FatalNoted, LoopsDone
  <2>3. ASSUME Survivable' PROVE ListsOwned' /\ Counted'
    <3>1. ContextTaken /\ ListsOwned /\ Counted
      BY <2>3 DEF SuspendInv
    <3>2. ListsOwned' /\ Apart(a)
      BY <2>1, <3>1 DEF ListsOwned, Apart
    <3>3. \A u \in Threads : Holds(a, u)' <=> (Holds(a, u) /\ u # t)
      BY <2>1 DEF Holds
    <3>4. a \in Holders(t)
      BY <2>1 DEF Holders, Holds
    <3>5. \A u \in Threads : Holders(u)' = IF u = t THEN Holders(u) \ {a} ELSE Holders(u)
      BY <3>1, <3>2, <3>3, OthersHold DEF Holders
    <3>6. Cardinality(Holders(t) \ {a}) = Cardinality(Holders(t)) - 1
      BY <3>4, HoldersFinite, FS_RemoveElement
    <3>7. suspendCount[t] > 0
      <4>1. IsFiniteSet(Holders(t)) /\ Holders(t) # {}
        BY <3>4, HoldersFinite
      <4>2. Cardinality(Holders(t)) # 0 /\ Cardinality(Holders(t)) \in Nat
        BY <4>1, FS_EmptySet, FS_CardinalityType
      <4> QED
        BY <3>1, <4>2 DEF Counted
    <3> QED
      BY <2>1, <3>1, <3>2, <3>5, <3>6, <3>7 DEF Counted
  <2> QED
    BY <2>2, <2>3 DEF SuspendInv
<1> QED
  BY <1>1, <1>2, <1>3, <1>4, <1>5 DEF HandleException

\* endHandlingException() and the return to the monitor keep the invariant.
LEMMA EndSuspendInv ==
  ASSUME TypeOK, SuspendInv, Survivable' => Survivable, NEW a \in Acts, EndHandling(a)
  PROVE  SuspendInv'
<1> USE DEF At, Goto, shared, frame, system
<1>1. CASE Clear(a) \/ ReadIndex(a) \/ Scan(a) \/ Swap(a)
  <2>1. PICK w \in {"reading", "scanning", "swapping", "returning"} :
          pc' = [pc EXCEPT ![a] = w]
    BY <1>1 DEF Clear, ReadIndex, Scan, Swap
  <2>2. w \in PCs /\ w \notin Undecided
    BY DEF PCs, Undecided
  <2>3. /\ pc[a] \in {"clearing", "reading", "scanning", "swapping"}
        /\ UNCHANGED <<local, ctx, todo, suspendCount, isHandlingFatalException>>
    BY <1>1 DEF Clear, ReadIndex, Scan, Swap
  <2> QED
    BY <2>1, <2>2, <2>3, QuietStep
<1>2. CASE Return(a)
  <2>1. /\ \A b \in Acts : pc'[b] = IF b = a THEN "idle" ELSE pc[b]
        /\ \A b \in Acts : local'[b] = IF b = a THEN NoLocals ELSE local[b]
        /\ pc[a] = "returning"
        /\ ctx' = [ctx EXCEPT ![a] = EmptyContext]
        /\ UNCHANGED <<todo, suspendCount, isHandlingFatalException>>
    BY <1>2 DEF Return, TypeOK
  <2>2. \A c \in Contexts : c # a => ctx'[c] = ctx[c]
    BY <2>1 DEF TypeOK
  <2>3. NoLocals.ctx = ExitCtx /\ NoLocals.kind \notin FatalKinds
    BY DEF NoLocals, FatalKinds
  <2>4. ContextTaken'
    BY <2>1, <2>3 DEF SuspendInv, ContextTaken, SharedContexts
  <2>5. FatalNoted'
    BY <2>1, <2>3 DEF SuspendInv, FatalNoted
  <2>6. LoopsDone'
    BY <2>1 DEF SuspendInv, LoopsDone
  <2>7. ASSUME Survivable' PROVE ListsOwned' /\ Counted'
    <3>1. ContextTaken /\ ListsOwned /\ Counted
      BY <2>7 DEF SuspendInv
    <3>2. Apart(a)
      BY <2>1, <2>2, <3>1, SharedApart, ContextsType DEF Apart, ListsOwned, SharedContexts
    <3>3. \A t \in Threads : Holds(a, t)' <=> Holds(a, t)
      BY <2>1 DEF Holds
    <3> QED
      BY <2>1, <3>1, <3>2, <3>3, NobodyMoves
  <2> QED
    BY <2>4, <2>5, <2>6, <2>7 DEF SuspendInv
<1> QED
  BY <1>1, <1>2 DEF EndHandling

\* Every step keeps the invariant.
LEMMA NextSuspendInv == TypeOK /\ SuspendInv /\ [Next]_vars => SuspendInv'
<1> SUFFICES ASSUME TypeOK, SuspendInv, [Next]_vars PROVE SuspendInv'
  OBVIOUS
<1>0. Survivable' => Survivable
  BY SurvivableBefore DEF SuspendInv
<1>1. ASSUME NEW kind \in Kinds, NEW h \in Threads, NEW o \in Threads,
             NEW d \in 1 .. MaxNesting, Raise(kind, h, o, d)
      PROVE  SuspendInv'
  <2> DEFINE a == <<h, d>>
  <2>0. a \in Acts
    BY DEF Acts
  <2>1. /\ \A b \in Acts : pc'[b] = IF b = a THEN "begun" ELSE pc[b]
        /\ \A b \in Acts : b # a => local'[b] = local[b]
        /\ local'[a].ctx = ExitCtx
        /\ pc[a] = "idle"
        /\ UNCHANGED <<ctx, todo, suspendCount, isHandlingFatalException>>
    BY <1>1, <2>0 DEF Raise, Goto, Active, TypeOK, NoLocals
  <2> HIDE DEF a
  <2>2. ContextTaken' /\ FatalNoted' /\ LoopsDone'
    BY <2>1 DEF SuspendInv, ContextTaken, FatalNoted, LoopsDone, SharedContexts
  <2>3. ASSUME Survivable' PROVE ListsOwned' /\ Counted'
    <3>1. ContextTaken /\ ListsOwned /\ Counted
      BY <1>0, <2>3 DEF SuspendInv
    <3>2. Apart(a)
      BY <2>1, <3>1 DEF Apart, ListsOwned
    <3>3. \A t \in Threads : Holds(a, t)' <=> Holds(a, t)
      BY <2>0, <2>1 DEF Holds
    <3> QED
      BY <2>0, <2>1, <3>1, <3>2, <3>3, NobodyMoves
  <2> QED
    BY <2>2, <2>3 DEF SuspendInv
<1>2. ASSUME NEW a \in Acts, Step(a)
      PROVE  SuspendInv'
  BY <1>0, <1>2, NotifySuspendInv, HandleSuspendInv, EndSuspendInv DEF Step
<1>3. CASE UNCHANGED <<pc, local, ctx, todo, suspendCount, isHandlingFatalException>>
  BY <1>0, <1>3 DEF SuspendInv, ContextTaken, FatalNoted, LoopsDone, ListsOwned, Counted,
              Holders, Holds
<1>4. ASSUME NEW a \in Acts, FatalUnmonitored(a)
      PROVE  SuspendInv'
  BY <1>3, <1>4 DEF FatalUnmonitored, shared, frame
<1>5. CASE WatchdogExits
  BY <1>3, <1>5 DEF WatchdogExits, shared, frame
<1>6. CASE UNCHANGED vars
  BY <1>3, <1>6 DEF vars, shared, frame
<1> QED
  BY <1>1, <1>2, <1>4, <1>5, <1>6 DEF Next, Finished

\* However the handlers of any number of threads interleave, suspend one another
\* and are nested: every thread_suspend() has been undone when all of them have
\* returned, and while the report of an exception is written that the process
\* survives, no thread that was suspended for it runs.
THEOREM SuspensionsMatched == Spec => []SuspensionsSound
<1>1. Init => SuspendInv
  <2> SUFFICES ASSUME Init PROVE SuspendInv
    OBVIOUS
  <2>1. \A c \in Contexts : ctx[c].suspended = {}
    BY DEF Init, EmptyContext
  <2>2. \A t \in Threads : Holders(t) = {} /\ suspendCount[t] = 0
    BY DEF Init, Holders, Holds
  <2>3. ListsOwned /\ Counted
    BY <2>1, <2>2, ContextsType, FS_EmptySet DEF Init, ListsOwned, Counted, SharedContexts
  <2>4. ContextTaken /\ FatalNoted /\ LoopsDone
    BY DEF Init, ContextTaken, FatalNoted, LoopsDone, NoLocals, SharedContexts
  <2> QED
    BY <2>3, <2>4 DEF SuspendInv
<1>2. SuspendInv => QuiescentNobodySuspended
  <2> SUFFICES ASSUME SuspendInv, Quiescent, NEW t \in Threads
               PROVE  suspendCount[t] = 0
    BY DEF QuiescentNobodySuspended
  <2>1. Counted
    BY DEF SuspendInv, Survivable, TakenOn, Quiescent
  <2>2. Holders(t) = {}
    BY DEF Quiescent, Active, Holders, Holds
  <2> QED
    BY <2>1, <2>2, FS_EmptySet DEF Counted
<1>3. TypeOK /\ SuspendInv => FrozenWhileRecording
  <2> SUFFICES ASSUME TypeOK, SuspendInv, NEW a \in Acts, pc[a] = "handling",
                      ~isHandlingFatalException, NEW t \in ctx[local[a].ctx].suspended
               PROVE  suspendCount[t] > 0
    BY DEF FrozenWhileRecording
  <2>0. t \in Threads
    BY DEF TypeOK, Locals, ContextFields
  <2>1. Counted /\ LoopsDone
    BY DEF SuspendInv, Survivable
  <2>2. a \in Holders(t)
    BY <2>1 DEF Holders, Holds, LoopsDone
  <2>3. Cardinality(Holders(t)) # 0 /\ Cardinality(Holders(t)) \in Nat
    BY <2>0, <2>2, HoldersFinite, FS_EmptySet, FS_CardinalityType
  <2> QED
    BY <2>0, <2>1, <2>3 DEF Counted
<1> QED
  BY <1>1, <1>2, <1>3, TypeCorrect, NextSuspendInv, PTL DEF Spec, SuspensionsSound

-----------------------------------------------------------------------------
(***************************************************************************)
(* CrashLoopStops.  The activations of a thread are a stack: only the one  *)
(* on top takes steps, so a recrash handler below it has set               *)
(* crashedDuringExceptionHandling before the one above it reads the flag.  *)
(***************************************************************************)
Below(a, b) == a[1] = b[1] /\ a[2] < b[2]

Stacked == \A a, b \in Acts : Below(a, b) /\ Active(b) => Active(a)

\* The watchdog thread reports a hang only when it is in no handler.
HangsFirst == \A a \in Acts : Active(a) /\ a[2] > 1 => local[a].kind # "watchdog"

\* A recrash that is handled has been noted, or it was dropped for want of a
\* slot, and then no exception is taken any more.
RecrashNoted ==
  \A a \in Acts : /\ pc[a] \in InContext /\ local[a].isCrashed
                       => crashedDuringExceptionHandling \/ ~monitorsEnabled
                  /\ pc[a] = "awaitDrop" => ~monitorsEnabled

\* A handler that has read the flag knows of the recrash, and has gone on only
\* if it is no recrash itself.
Knows(a) ==
  /\ pc[a] \notin {"begun", "stored"} => local[a].wasCrashed
  /\ pc[a] \in InContext \cup {"sleeping", "committing"} => ~local[a].isCrashed

LoopKnown ==
  \A a, b \in Acts :
    Below(a, b) /\ Active(b) /\ pc[a] \in InContext /\ local[a].isCrashed
      => crashedDuringExceptionHandling /\ Knows(b)

NestInv == Stacked /\ HangsFirst /\ RecrashNoted /\ LoopKnown

\* The activation that runs is the highest one of its thread.
LEMMA OnTop ==
  ASSUME Stacked, NEW a \in Acts, ~Interrupted(a), NEW b \in Acts, Below(a, b)
  PROVE  ~Active(b)
<1>1. /\ a[2] \in 1 .. MaxNesting /\ b[2] \in 1 .. MaxNesting
      /\ a[1] \in Threads /\ b = <<b[1], b[2]>>
  BY DEF Acts
<1>2. a[2] < MaxNesting /\ a[2] + 1 \in 1 .. MaxNesting
  BY <1>1, BoundsAssumption DEF Below
<1>3. ~Active(<<a[1], a[2] + 1>>)
  BY <1>2 DEF Interrupted
<1>4. CASE b[2] = a[2] + 1
  BY <1>1, <1>3, <1>4 DEF Below
<1>5. CASE b[2] # a[2] + 1
  <2> DEFINE c == <<a[1], a[2] + 1>>
  <2>1. c \in Acts
    BY <1>1, <1>2 DEF Acts
  <2>2. Below(c, b)
    BY <1>1, <1>5 DEF Below
  <2> QED
    BY <1>3, <2>1, <2>2 DEF Stacked
<1> QED
  BY <1>4, <1>5

\* What a step of the activation that runs has to do for the invariant.
LEMMA TopStep ==
  ASSUME NestInv, NEW a \in Acts, Active(a), ~Interrupted(a),
         \A b \in Acts : b # a => pc'[b] = pc[b] /\ local'[b] = local[b],
         crashedDuringExceptionHandling => crashedDuringExceptionHandling',
         monitorsEnabled' => monitorsEnabled,
         local'[a].kind = local[a].kind \/ pc'[a] = "idle",
         pc'[a] \in InContext /\ local'[a].isCrashed
           => crashedDuringExceptionHandling' \/ ~monitorsEnabled',
         pc'[a] = "awaitDrop" => ~monitorsEnabled',
         crashedDuringExceptionHandling /\ Knows(a) /\ local[a].kind # "watchdog"
           => Knows(a)' \/ pc'[a] = "idle"
  PROVE  NestInv'
<1>1. \A b \in Acts : Below(a, b) => ~Active(b)
  BY OnTop DEF NestInv
<1>2. Stacked'
  BY <1>1 DEF NestInv, Stacked, Active
<1>3. HangsFirst'
  BY DEF NestInv, HangsFirst, Active
<1>4. RecrashNoted'
  BY DEF NestInv, RecrashNoted
<1>5. LoopKnown'
  <2> SUFFICES ASSUME NEW b \in Acts, NEW c \in Acts, Below(b, c), Active(c)',
                      pc'[b] \in InContext, local'[b].isCrashed
               PROVE  crashedDuringExceptionHandling' /\ Knows(c)'
    BY DEF LoopKnown, Below
  <2>1. b # a
    <3> SUFFICES ASSUME b = a PROVE FALSE
      OBVIOUS
    <3>1. c # a
      BY DEF Below, Acts
    <3> QED
      BY <1>1, <3>1 DEF Active
  <2>2. Active(c)
    BY DEF Active
  <2>3. crashedDuringExceptionHandling /\ Knows(c)
    BY <2>1, <2>2 DEF NestInv, LoopKnown
  <2>4. CASE c = a
    <3>1. local[a].kind # "watchdog"
      BY <2>4, <2>2 DEF NestInv, HangsFirst, Below, Acts
    <3> QED
      BY <2>3, <2>4, <3>1 DEF Active
  <2>5. CASE c # a
    BY <2>3, <2>5 DEF Knows
  <2> QED
    BY <2>4, <2>5
<1> QED
  BY <1>2, <1>3, <1>4, <1>5 DEF NestInv

\* notifyException() keeps the invariant.
LEMMA NotifyNestInv ==
  ASSUME TypeOK, NestInv, NEW a \in Acts, Notify(a)
  PROVE  NestInv'
<1> USE DEF At, Goto, shared, frame, system, Knows, Active
<1>0. local[a] \in Locals
  BY DEF TypeOK
<1>1. CASE Store(a)
  <2>1. \A b \in Acts : pc'[b] = IF b = a THEN "stored" ELSE pc[b]
    BY <1>1 DEF Store, TypeOK
  <2> QED
    BY <1>1, <2>1, TopStep DEF Store, InContext
<1>2. CASE Inspect(a)
  <2>1. /\ \A b \in Acts : pc'[b] = IF b = a THEN "checking" ELSE pc[b]
        /\ \A b \in Acts : b # a => local'[b] = local[b]
        /\ local'[a].kind = local[a].kind
        /\ local'[a].wasCrashed = crashedDuringExceptionHandling
    BY <1>0, <1>2 DEF Inspect, TypeOK, Locals
  <2>2. /\ UNCHANGED <<crashedDuringExceptionHandling, monitorsEnabled>>
        /\ pc[a] = "stored" /\ ~Interrupted(a)
    BY <1>2 DEF Inspect
  <2> QED
    BY <2>1, <2>2, TopStep DEF InContext
<1>3. CASE Check(a)
  <2>1. PICK w \in {"checking", "inspected"} : pc' = [pc EXCEPT ![a] = w]
    BY <1>3 DEF Check
  <2>2. /\ \A b \in Acts : pc'[b] = IF b = a THEN w ELSE pc[b]
        /\ \A b \in Acts : b # a => local'[b] = local[b]
        /\ local'[a].kind = local[a].kind
        /\ local'[a].wasCrashed = local[a].wasCrashed
    BY <1>0, <1>3, <2>1 DEF Check, TypeOK, Locals
  <2>3. /\ UNCHANGED <<crashedDuringExceptionHandling, monitorsEnabled>>
        /\ pc[a] = "checking" /\ ~Interrupted(a)
    BY <1>3 DEF Check
  <2> QED
    BY <2>2, <2>3, TopStep DEF InContext
<1>4. CASE Drop(a)
  <2>1. PICK w \in {"awaitDrop", AfterDrop(a)} : pc' = [pc EXCEPT ![a] = w]
    BY <1>4 DEF Drop, DisableAllMonitors
  <2>2. /\ \A b \in Acts : pc'[b] = IF b = a THEN w ELSE pc[b]
        /\ \A b \in Acts : b # a => local'[b] = local[b]
        /\ local'[a].kind = local[a].kind
        /\ local'[a].wasCrashed = local[a].wasCrashed
    BY <1>0, <1>4, <2>1 DEF Drop, TypeOK, Locals
  <2>3. /\ crashedDuringExceptionHandling' = crashedDuringExceptionHandling
        /\ ~monitorsEnabled'
        /\ pc[a] = "inspected" /\ ~Interrupted(a)
    BY <1>4 DEF Drop, DisableAllMonitors
  <2>4. local[a].kind # "watchdog" => w \in {"awaitDrop", "returning"}
    BY <1>0 DEF AfterDrop, Locals, KindNames, TestingKinds
  <2> QED
    BY <2>2, <2>3, <2>4, TopStep DEF InContext
<1>5. CASE CrashLoopExit(a)
  BY <1>5, TopStep DEF CrashLoopExit, InContext
<1>6. CASE Decide(a)
  <2>1. PICK w \in {"sleeping", "committing"} : pc' = [pc EXCEPT ![a] = w]
    BY <1>6 DEF Decide
  <2>2. \A b \in Acts : pc'[b] = IF b = a THEN w ELSE pc[b]
    BY <2>1 DEF TypeOK
  <2> QED
    BY <1>6, <2>2, TopStep DEF Decide, InContext
<1>7. CASE Wake(a)
  <2>1. \A b \in Acts : pc'[b] = IF b = a THEN "committing" ELSE pc[b]
    BY <1>7 DEF Wake, TypeOK
  <2> QED
    BY <1>7, <2>1, TopStep DEF Wake, InContext
<1>8. CASE Commit(a)
  <2>1. PICK w \in {"listing", "handling"} : pc' = [pc EXCEPT ![a] = w]
    BY <1>8 DEF Commit
  <2>2. /\ \A b \in Acts : pc'[b] = IF b = a THEN w ELSE pc[b]
        /\ \A b \in Acts : b # a => local'[b] = local[b]
        /\ local'[a].kind = local[a].kind
        /\ local'[a].wasCrashed = local[a].wasCrashed
        /\ local'[a].isCrashed = local[a].isCrashed
    BY <1>0, <1>8, <2>1 DEF Commit, TypeOK, Locals
  <2>3. /\ crashedDuringExceptionHandling' =
             (crashedDuringExceptionHandling \/ local[a].isCrashed)
        /\ monitorsEnabled' = monitorsEnabled
        /\ pc[a] = "committing" /\ ~Interrupted(a)
    BY <1>8 DEF Commit
  <2> QED
    BY <2>2, <2>3, TopStep DEF InContext
<1>9. CASE ListThreads(a) \/ Suspended(a)
  <2>1. PICK w \in {"suspending", "handling"} : pc' = [pc EXCEPT ![a] = w]
    BY <1>9 DEF ListThreads, Suspended
  <2>2. \A b \in Acts : pc'[b] = IF b = a THEN w ELSE pc[b]
    BY <2>1 DEF TypeOK
  <2>3. /\ UNCHANGED <<local, crashedDuringExceptionHandling, monitorsEnabled>>
        /\ pc[a] \in {"listing", "suspending"} /\ ~Interrupted(a)
    BY <1>9 DEF ListThreads, Suspended
  <2> QED
    BY <2>2, <2>3, TopStep DEF InContext, NestInv, RecrashNoted
<1>10. ASSUME NEW t \in Threads, SuspendThread(a, t)
       PROVE  NestInv'
  <2>1. /\ UNCHANGED <<pc, local, crashedDuringExceptionHandling, monitorsEnabled>>
        /\ pc[a] = "suspending" /\ ~Interrupted(a)
    BY <1>10 DEF SuspendThread
  <2> QED
    BY <2>1, TopStep DEF InContext, NestInv, RecrashNoted
<1> QED
  BY <1>1, <1>2, <1>3, <1>4, <1>5, <1>6, <1>7, <1>8, <1>9, <1>10 DEF Notify

\* handleException() and endHandlingException() keep the invariant.
LEMMA HandleNestInv ==
  ASSUME TypeOK, NestInv, NEW a \in Acts, HandleException(a) \/ EndHandling(a)
  PROVE  NestInv'
<1> USE DEF At, Goto, shared, frame, system, Knows, Active
<1>0. local[a] \in Locals
  BY DEF TypeOK
<1>1. CASE Handle(a) \/ Resumed(a) \/ Disable(a)
  <2>1. PICK w \in {"resuming", "disabling", "awaitEnd", "clearing"} :
          pc' = [pc EXCEPT ![a] = w]
    BY <1>1 DEF Handle, Resumed, Disable, DisableAllMonitors
  <2>2. \A b \in Acts : pc'[b] = IF b = a THEN w ELSE pc[b]
    BY <2>1 DEF TypeOK
  <2>3. /\ UNCHANGED <<local, crashedDuringExceptionHandling>>
        /\ monitorsEnabled' => monitorsEnabled
        /\ pc[a] \in {"handling", "resuming", "disabling"} /\ ~Interrupted(a)
    BY <1>1 DEF Handle, Resumed, Disable, DisableAllMonitors
  <2> QED
    BY <2>2, <2>3, TopStep DEF InContext, NestInv, RecrashNoted
<1>2. CASE WatchdogGone(a)
  <2>1. UNCHANGED <<local, crashedDuringExceptionHandling, monitorsEnabled>> /\ ~Interrupted(a)
    BY <1>2 DEF WatchdogGone
  <2>2. CASE pc[a] = "awaitDrop"
    <3>1. \A b \in Acts : pc'[b] = IF b = a THEN AfterDrop(a) ELSE pc[b]
      BY <1>2, <2>2 DEF WatchdogGone, TypeOK
    <3>2. /\ local[a].kind # "watchdog" => AfterDrop(a) = "returning"
          /\ local[a].kind = "watchdog" => AfterDrop(a) = "handling"
      BY <1>0 DEF AfterDrop, Locals, KindNames, TestingKinds
    <3> QED
      BY <2>1, <2>2, <3>1, <3>2, TopStep DEF InContext, NestInv, RecrashNoted
  <2>3. CASE pc[a] = "awaitEnd"
    <3>1. \A b \in Acts : pc'[b] = IF b = a THEN "clearing" ELSE pc[b]
      BY <1>2, <2>3 DEF WatchdogGone, TypeOK
    <3> QED
      BY <2>1, <2>3, <3>1, TopStep DEF InContext, NestInv, RecrashNoted
  <2> QED
    BY <1>2, <2>2, <2>3 DEF WatchdogGone
<1>3. ASSUME NEW t \in Threads, ResumeThread(a, t)
      PROVE  NestInv'
  <2>1. /\ UNCHANGED <<pc, local, crashedDuringExceptionHandling, monitorsEnabled>>
        /\ pc[a] = "resuming" /\ ~Interrupted(a)
    BY <1>3 DEF ResumeThread
  <2> QED
    BY <2>1, TopStep DEF InContext, NestInv, RecrashNoted
<1>4. CASE Clear(a) \/ ReadIndex(a) \/ Scan(a) \/ Swap(a)
  <2>1. PICK w \in {"reading", "scanning", "swapping", "returning"} :
          pc' = [pc EXCEPT ![a] = w]
    BY <1>4 DEF Clear, ReadIndex, Scan, Swap
  <2>2. \A b \in Acts : pc'[b] = IF b = a THEN w ELSE pc[b]
    BY <2>1 DEF TypeOK
  <2>3. /\ UNCHANGED <<local, crashedDuringExceptionHandling, monitorsEnabled>>
        /\ pc[a] \in {"clearing", "reading", "scanning", "swapping"} /\ ~Interrupted(a)
    BY <1>4 DEF Clear, ReadIndex, Scan, Swap
  <2> QED
    BY <2>2, <2>3, TopStep DEF InContext
<1>5. CASE Return(a)
  <2>1. /\ \A b \in Acts : pc'[b] = IF b = a THEN "idle" ELSE pc[b]
        /\ \A b \in Acts : b # a => local'[b] = local[b]
    BY <1>5 DEF Return, TypeOK
  <2> QED
    BY <1>5, <2>1, TopStep DEF Return, InContext
<1> QED
  BY <1>1, <1>2, <1>3, <1>4, <1>5 DEF HandleException, EndHandling

\* Every step keeps the invariant; an exception that interrupts a handler comes
\* on top of the highest one.
LEMMA NextNestInv == TypeOK /\ NestInv /\ [Next]_vars => NestInv'
<1> SUFFICES ASSUME TypeOK, NestInv, [Next]_vars PROVE NestInv'
  OBVIOUS
<1>1. ASSUME NEW kind \in Kinds, NEW h \in Threads, NEW o \in Threads,
             NEW d \in 1 .. MaxNesting, Raise(kind, h, o, d)
      PROVE  NestInv'
  <2> DEFINE a == <<h, d>>
  <2>1. a \in Acts /\ a[1] = h /\ a[2] = d
    BY DEF Acts
  <2>2. /\ \A b \in Acts : pc'[b] = IF b = a THEN "begun" ELSE pc[b]
        /\ \A b \in Acts : b # a => local'[b] = local[b]
        /\ local'[a].kind = kind
        /\ pc[a] = "idle" /\ monitorsEnabled
        /\ UNCHANGED <<crashedDuringExceptionHandling, monitorsEnabled>>
    BY <1>1, <2>1 DEF Raise, Goto, Active, TypeOK, NoLocals
  <2>3. \A b \in Acts : Below(b, a) => Active(b)
    <3> SUFFICES ASSUME NEW b \in Acts, Below(b, a) PROVE Active(b)
      OBVIOUS
    <3>1. /\ d > 1 /\ d - 1 \in 1 .. MaxNesting /\ b[2] \in 1 .. MaxNesting
          /\ b = <<h, b[2]>> /\ b[2] < d
      BY <2>1, BoundsAssumption DEF Below, Acts
    <3>2. Active(<<h, d - 1>>) /\ <<h, d - 1>> \in Acts
      BY <1>1, <3>1 DEF Raise, Acts
    <3>3. CASE b[2] = d - 1
      BY <3>1, <3>2, <3>3
    <3>4. CASE b[2] # d - 1
      <4>1. Below(b, <<h, d - 1>>)
        BY <3>1, <3>4 DEF Below
      <4> QED
        BY <3>2, <4>1 DEF NestInv, Stacked
    <3> QED
      BY <3>3, <3>4
  <2>4. \A b \in Acts : Below(a, b) => ~Active(b)
    BY <2>1, <2>2 DEF NestInv, Stacked, Active
  <2>5. kind = "watchdog" => d = 1
    <3> SUFFICES ASSUME kind = "watchdog", d # 1 PROVE FALSE
      OBVIOUS
    <3>1. ~Active(<<h, 1>>)
      BY <1>1 DEF Raise, Handles, WatchdogHandles, Busy
    <3>2. <<h, 1>> \in Acts /\ Below(<<h, 1>>, a)
      BY BoundsAssumption DEF Acts, Below
    <3> QED
      BY <2>3, <3>1, <3>2
  <2> HIDE DEF a
  <2>6. Stacked'
    BY <2>2, <2>3 DEF NestInv, Stacked, Active
  <2>7. HangsFirst'
    BY <2>1, <2>2, <2>5 DEF NestInv, HangsFirst, Active
  <2>8. RecrashNoted'
    BY <2>2 DEF NestInv, RecrashNoted, InContext
  <2>9. LoopKnown'
    <3> SUFFICES ASSUME NEW b \in Acts, NEW c \in Acts, Below(b, c), Active(c)',
                        pc'[b] \in InContext, local'[b].isCrashed
                 PROVE  crashedDuringExceptionHandling' /\ Knows(c)'
      BY DEF LoopKnown, Below
    <3>1. b # a /\ pc[b] \in InContext /\ local[b].isCrashed
      BY <2>2 DEF InContext
    <3>2. CASE c = a
      <4>1. crashedDuringExceptionHandling
        BY <2>2, <3>1 DEF NestInv, RecrashNoted
      <4> QED
        BY <2>2, <3>2, <4>1 DEF Knows, InContext
    <3>3. CASE c # a
      BY <2>2, <3>1, <3>3 DEF NestInv, LoopKnown, Knows, Active
    <3> QED
      BY <3>2, <3>3
  <2> QED
    BY <2>6, <2>7, <2>8, <2>9 DEF NestInv
<1>2. ASSUME NEW a \in Acts, Step(a)
      PROVE  NestInv'
  BY <1>2, NotifyNestInv, HandleNestInv DEF Step
<1>3. CASE UNCHANGED <<pc, local, crashedDuringExceptionHandling, monitorsEnabled>>
  BY <1>3 DEF NestInv, Stacked, HangsFirst, RecrashNoted, LoopKnown, Knows, Active
<1>4. ASSUME NEW a \in Acts, FatalUnmonitored(a)
      PROVE  NestInv'
  BY <1>3, <1>4 DEF FatalUnmonitored, shared, frame
<1>5. CASE WatchdogExits
  BY <1>3, <1>5 DEF WatchdogExits, shared, frame
<1>6. CASE UNCHANGED vars
  BY <1>3, <1>6 DEF vars, shared, frame, system
<1> QED
  BY <1>1, <1>2, <1>4, <1>5, <1>6 DEF Next, Finished

\* A thread whose handlers crash again and again, however deep they are nested
\* and whatever other threads do, never has two recrash handlers at work: the
\* second one ends the process.
THEOREM CrashLoopsStop == Spec => []CrashLoopStops
<1>1. Init => NestInv
  BY DEF Init, NestInv, Stacked, HangsFirst, RecrashNoted, LoopKnown, Active, InContext
<1>2. NestInv => CrashLoopStops
  <2> SUFFICES ASSUME NestInv, NEW t \in Threads, NEW d \in 1 .. MaxNesting,
                      NEW e \in 1 .. MaxNesting, d < e,
                      pc[<<t, d>>] \in InContext, local[<<t, d>>].isCrashed,
                      pc[<<t, e>>] \in InContext
               PROVE  ~local[<<t, e>>].isCrashed
    BY DEF CrashLoopStops
  <2>1. <<t, d>> \in Acts /\ <<t, e>> \in Acts /\ Below(<<t, d>>, <<t, e>>)
    BY DEF Acts, Below
  <2>2. Active(<<t, e>>)
    BY DEF Active, InContext
  <2> QED
    BY <2>1, <2>2 DEF NestInv, LoopKnown, Knows
<1> QED
  BY <1>1, <1>2, TypeCorrect, NextNestInv, PTL DEF Spec

-----------------------------------------------------------------------------
(***************************************************************************)
(* The lock-free list of monitors, for any number of threads, monitors and *)
(* entries: every monitor is listed once, stays listed until it is         *)
(* removed, and is called by every walk.                                   *)
(***************************************************************************)

\* A thread works on a monitor, not on a hole; what is removed may be removed.
Arguments ==
  \A t \in Users :
    /\ op[t] \in {"add", "swap", "dedupe", "drop", "init", "remove", "off",
                  "enable", "tell", "turnOff", "call"} => arg[t] \in Apis
    /\ op[t] \in {"remove", "off"} => arg[t] \in Removable

\* The second pass of kscmr_addMonitor() begins with "found" false, and drops
\* only after it has found a copy.
FoundFlag ==
  \A t \in Users :
    /\ op[t] \in {"add", "swap"} => ~found[t]
    /\ op[t] = "drop" => found[t]

\* Thread t will drop the copy at k of the monitor at j: it has yet to reach k,
\* and by then it has found a copy.
WillDrop(t, j, k) ==
  /\ op[t] \in {"dedupe", "drop"} /\ arg[t] = apis[j]
  /\ i[t] <= k /\ (found[t] \/ i[t] <= j)

\* For every two copies in the list, there is a thread that will drop one.
DuplicatesDropped ==
  \A j, k \in Indices : j < k /\ apis[j] = apis[k] /\ apis[j] # NULL =>
    \E t \in Users : WillDrop(t, j, k)

\* A thread that has found a copy leaves one behind: if another thread drops
\* that copy, then because of one further down.
FirstCopyKept ==
  \A t \in Users : op[t] \in {"dedupe", "drop"} /\ found[t] /\ arg[t] \notin Removable =>
    \E j \in Indices : j < i[t] /\ apis[j] = arg[t]

\* What is stable is listed and enabled, and nobody adds it.
StableListed == \A t \in Users : stable[t] \subseteq (Listed \cap enabled) \ BeingAdded

\* A walk has called what is stable, or it is about to, or it is still ahead.
WalkAhead ==
  \A t \in Users : \A a \in stable[t] \ seen[t] :
    /\ op[t] = "walk" => \E k \in Indices : k >= i[t] /\ apis[k] = a
    /\ op[t] = "call" => a = arg[t] \/ \E k \in Indices : k > i[t] /\ apis[k] = a

RegistryInv ==
  /\ ListTypeOK /\ Arguments /\ FoundFlag
  /\ DuplicatesDropped /\ FirstCopyKept /\ StableListed /\ WalkAhead

\* An empty list, and no operation has begun.
LEMMA InitRegistryInv == RegistryAssumption /\ ListInit => RegistryInv
<1> SUFFICES ASSUME RegistryAssumption, ListInit PROVE RegistryInv
  OBVIOUS
<1>1. ListTypeOK
  BY DEF RegistryAssumption, ListInit, ListTypeOK, Indices
<1>2. Arguments /\ FoundFlag /\ FirstCopyKept
  BY DEF ListInit, Arguments, FoundFlag, FirstCopyKept
<1>3. DuplicatesDropped
  BY DEF ListInit, DuplicatesDropped
<1>4. StableListed /\ WalkAhead
  BY DEF ListInit, StableListed, WalkAhead
<1>5. QED  BY <1>1, <1>2, <1>3, <1>4 DEF RegistryInv

-----------------------------------------------------------------------------
(***************************************************************************)
(* Types                                                                   *)
(***************************************************************************)
TypesInv == ListTypeOK /\ Arguments /\ FoundFlag

\* A step of the loops goes on at an index of the array.
LEMMA AdvanceType ==
  ASSUME RegistryAssumption, ListTypeOK, NEW t \in Users, NEW o, NEW after, Advance(t, o, after)
  PROVE  /\ i' \in [Users -> Indices]
         /\ op' = [op EXCEPT ![t] = o] \/ op' = [op EXCEPT ![t] = after]
  BY DEF RegistryAssumption, ListTypeOK, Advance, Restart, Indices

\* Calling an operation keeps the types.
LEMMA CallTypes ==
  ASSUME RegistryAssumption, TypesInv, NEW t \in Users, NEW o \in Operations,
         NEW a \in Apis, Call(t, o, a)
  PROVE  TypesInv'
<1>1. ListTypeOK'
  BY DEF TypesInv, ListTypeOK, Call, Restart, Operations, RegistryAssumption, Indices, Listed
<1>2. Arguments' /\ FoundFlag'
  BY DEF TypesInv, ListTypeOK, Arguments, FoundFlag, Call, Restart, Operations
<1>3. QED  BY <1>1, <1>2 DEF TypesInv

\* What StillThere leaves in the history is a set of monitors.
LEMMA StillThereType == ListTypeOK /\ StillThere => stable' \in [Users -> SUBSET Apis]
  BY DEF ListTypeOK, StillThere

\* Every step of an operation keeps the types.
LEMMA StepTypes ==
  ASSUME RegistryAssumption, TypesInv, NEW t \in Users, ListStep(t)
  PROVE  TypesInv'
<1>0. stable' \in [Users -> SUBSET Apis] /\ ListTypeOK /\ 1 \in Indices
  BY StillThereType DEF TypesInv, ListStep, RegistryAssumption, Indices
<1> USE DEF TypesInv, ListTypeOK, Operations
<1>1. CASE AddLoad(t)
  <2>1. ListTypeOK'
    BY <1>0, <1>1 DEF AddLoad, Continue, Restart
  <2>2. Arguments' /\ FoundFlag'
    BY <1>1 DEF AddLoad, Continue, Restart, Arguments, FoundFlag
  <2>3. QED  BY <2>1, <2>2
<1>2. CASE AddSwap(t)
  <2>1. ListTypeOK'
    BY <1>0, <1>2, AdvanceType DEF AddSwap, Put, Restart, Arguments
  <2>2. Arguments' /\ FoundFlag'
    BY <1>0, <1>2, AdvanceType DEF AddSwap, Restart, Arguments, FoundFlag
  <2>3. QED  BY <2>1, <2>2
<1>3. CASE Dedupe(t)
  <2>1. ListTypeOK'
    BY <1>0, <1>3, AdvanceType DEF Dedupe, Continue
  <2>2. Arguments' /\ FoundFlag'
    BY <1>0, <1>3, AdvanceType DEF Dedupe, Continue, Arguments, FoundFlag
  <2>3. QED  BY <2>1, <2>2
<1>4. CASE DropCopy(t)
  <2>1. ListTypeOK'
    BY <1>0, <1>4, AdvanceType DEF DropCopy, Put, EntryAt
  <2>2. Arguments' /\ FoundFlag'
    BY <1>0, <1>4, AdvanceType DEF DropCopy, Arguments, FoundFlag
  <2>3. QED  BY <2>1, <2>2
<1>5. CASE AddInit(t)
  <2>1. ListTypeOK'
    BY <1>0, <1>5 DEF AddInit, Continue, Arguments
  <2>2. Arguments' /\ FoundFlag'
    BY <1>0, <1>5 DEF AddInit, Continue, Arguments, FoundFlag
  <2>3. QED  BY <2>1, <2>2
<1>6. CASE Remove(t)
  <2>1. ListTypeOK'
    BY <1>0, <1>6, AdvanceType DEF Remove, Put, Continue
  <2>2. Arguments' /\ FoundFlag'
    BY <1>0, <1>6, AdvanceType DEF Remove, Continue, Arguments, FoundFlag
  <2>3. QED  BY <2>1, <2>2
<1>7. CASE RemoveOff(t) \/ Enable(t) \/ Tell(t) \/ TurnOff(t) \/ Walk(t)
  <2>1. ListTypeOK'
    BY <1>0, <1>7, AdvanceType DEF RemoveOff, Enable, Tell, TurnOff, Walk, Arguments
  <2>2. Arguments' /\ FoundFlag'
    BY <1>0, <1>7, AdvanceType DEF RemoveOff, Enable, Tell, TurnOff, Walk, Arguments, FoundFlag
  <2>3. QED  BY <2>1, <2>2
<1>8. CASE Load(t)
  <2>1. EntryAt(t) \in Apis \cup {NULL}
    BY DEF EntryAt
  <2>2. ListTypeOK'
    BY <1>0, <1>8, <2>1, AdvanceType DEF Load, Continue, Body, After
  <2>3. Arguments' /\ FoundFlag'
    BY <1>0, <1>8, <2>1, AdvanceType DEF Load, Continue, Body, After, Arguments, FoundFlag
  <2>4. QED  BY <2>2, <2>3
<1>9. QED  BY <1>1, <1>2, <1>3, <1>4, <1>5, <1>6, <1>7, <1>8 DEF ListStep

-----------------------------------------------------------------------------
(***************************************************************************)
(* Duplicates                                                              *)
(***************************************************************************)

\* The steps that neither change the list nor belong to a second pass.
LEMMA DuplicatesOther ==
  ASSUME TypesInv, DuplicatesDropped, NEW t \in Users, op[t] \notin {"dedupe", "drop"},
         UNCHANGED apis,
         \A u \in Users \ {t} : op'[u] = op[u] /\ arg'[u] = arg[u] /\ i'[u] = i[u]
                                 /\ found'[u] = found[u]
  PROVE  DuplicatesDropped'
<1> SUFFICES ASSUME NEW j \in Indices, NEW k \in Indices,
                    j < k, apis[j] = apis[k], apis[j] # NULL
             PROVE  \E u \in Users : WillDrop(u, j, k)'
  BY DEF DuplicatesDropped
<1>1. PICK u \in Users : WillDrop(u, j, k)
  BY DEF DuplicatesDropped
<1>2. u # t
  BY <1>1 DEF WillDrop
<1>3. QED  BY <1>1, <1>2 DEF WillDrop

\* Taking an empty entry: the thread that makes a copy begins its second pass,
\* and will drop whatever is there twice.
LEMMA DuplicatesAdd ==
  ASSUME RegistryAssumption, TypesInv, DuplicatesDropped, NEW t \in Users, AddSwap(t)
  PROVE  DuplicatesDropped'
<1> USE DEF TypesInv, ListTypeOK
<1>1. CASE EntryAt(t) = NULL
  <2> SUFFICES ASSUME NEW j \in Indices, NEW k \in Indices,
                      j < k, apis'[j] = apis'[k], apis'[j] # NULL
               PROVE  \E u \in Users : WillDrop(u, j, k)'
    BY DEF DuplicatesDropped
  <2>1. /\ apis' = [apis EXCEPT ![i[t]] = arg[t]]
        /\ op'[t] = "dedupe" /\ i'[t] = 1 /\ arg' = arg
        /\ op[t] = "swap" /\ apis[i[t]] = NULL
    BY <1>1 DEF AddSwap, Put, Restart, EntryAt
  <2>2. CASE apis'[j] = arg[t]
    <3>1. i'[t] <= j /\ i'[t] <= k
      BY <2>1 DEF Indices, RegistryAssumption
    <3>2. WillDrop(t, j, k)'
      BY <2>1, <2>2, <3>1 DEF WillDrop
    <3>3. QED  BY <3>2
  <2>3. CASE apis'[j] # arg[t]
    <3>1. apis'[j] = apis[j] /\ apis'[k] = apis[k]
      BY <2>1, <2>3
    <3>2. PICK u \in Users : WillDrop(u, j, k)
      BY <3>1 DEF DuplicatesDropped
    <3>3. u # t
      BY <2>1, <3>2 DEF WillDrop
    <3>4. WillDrop(u, j, k)'
      BY <1>1, <3>1, <3>2, <3>3 DEF WillDrop, AddSwap, Restart
    <3>5. QED  BY <3>4
  <2>4. QED  BY <2>2, <2>3
<1>2. CASE EntryAt(t) # NULL
  <2>1. UNCHANGED <<apis, arg, found>> /\ op[t] = "swap" /\ Advance(t, "add", "idle")
    BY <1>2 DEF AddSwap
  <2>2. \A u \in Users \ {t} : op'[u] = op[u] /\ i'[u] = i[u]
    BY <2>1 DEF Advance, Restart
  <2>3. QED  BY <2>1, <2>2, DuplicatesOther
<1>3. QED  BY <1>1, <1>2

\* The second pass leaves behind no two copies that it was to deal with.
LEMMA DuplicatesDedupe ==
  ASSUME RegistryAssumption, TypesInv, DuplicatesDropped, NEW t \in Users, Dedupe(t)
  PROVE  DuplicatesDropped'
<1> USE DEF TypesInv, ListTypeOK
<1> SUFFICES ASSUME NEW j \in Indices, NEW k \in Indices,
                    j < k, apis[j] = apis[k], apis[j] # NULL
             PROVE  \E u \in Users : WillDrop(u, j, k)'
  BY DEF DuplicatesDropped, Dedupe
<1>1. PICK u \in Users : WillDrop(u, j, k)
  BY DEF DuplicatesDropped
<1>2. CASE u # t
  BY <1>1, <1>2 DEF WillDrop, Dedupe, Continue, Advance, Restart
<1>3. CASE u = t
  <2>1. CASE EntryAt(t) = arg[t] /\ found[t]
    BY <1>1, <1>3, <2>1 DEF WillDrop, Dedupe, Continue
  <2>2. CASE EntryAt(t) = arg[t] /\ ~found[t]
    <3>1. i[t] <= j /\ i[t] # Count
      BY <1>1, <1>3, <2>2 DEF WillDrop, Indices, RegistryAssumption
    <3>2. i'[t] = i[t] + 1 /\ op'[t] = "dedupe" /\ found'[t] /\ arg' = arg /\ apis' = apis
      BY <2>2, <3>1 DEF Dedupe, Advance
    <3>3. QED  BY <1>1, <1>3, <3>1, <3>2 DEF WillDrop, Indices, RegistryAssumption
  <2>3. CASE EntryAt(t) # arg[t]
    <3>1. i[t] # j /\ i[t] # k
      BY <1>1, <1>3, <2>3 DEF WillDrop, EntryAt
    <3>2. i[t] # Count
      BY <1>1, <1>3, <3>1 DEF WillDrop, Indices, RegistryAssumption
    <3>3. i'[t] = i[t] + 1 /\ op'[t] = "dedupe" /\ found'[t] = found[t]
          /\ arg' = arg /\ apis' = apis
      BY <2>3, <3>2 DEF Dedupe, Advance
    <3>4. QED  BY <1>1, <1>3, <3>1, <3>3 DEF WillDrop, Indices, RegistryAssumption
  <2>4. QED  BY <2>1, <2>2, <2>3
<1>4. QED  BY <1>2, <1>3

\* Dropping a copy.
LEMMA DuplicatesDrop ==
  ASSUME RegistryAssumption, TypesInv, DuplicatesDropped, NEW t \in Users, DropCopy(t)
  PROVE  DuplicatesDropped'
<1> USE DEF TypesInv, ListTypeOK
<1>1. /\ apis' = [apis EXCEPT ![i[t]] = IF apis[i[t]] = arg[t] THEN NULL ELSE apis[i[t]]]
      /\ op[t] = "drop" /\ found[t] /\ UNCHANGED <<arg, found>>
  BY DEF DropCopy, Put, EntryAt, FoundFlag
<1> SUFFICES ASSUME NEW j \in Indices, NEW k \in Indices,
                    j < k, apis'[j] = apis'[k], apis'[j] # NULL
             PROVE  \E u \in Users : WillDrop(u, j, k)'
  BY DEF DuplicatesDropped
<1>2. apis'[j] = apis[j] /\ apis'[k] = apis[k]
  BY <1>1
<1>3. PICK u \in Users : WillDrop(u, j, k)
  BY <1>2 DEF DuplicatesDropped
<1>4. CASE u # t
  BY <1>1, <1>2, <1>3, <1>4 DEF WillDrop, DropCopy, Advance, Restart
<1>5. CASE u = t
  <2>1. i[t] # k
    BY <1>1, <1>2, <1>3, <1>5 DEF WillDrop, RegistryAssumption
  <2>2. i[t] < k /\ i[t] # Count
    BY <1>3, <1>5, <2>1 DEF WillDrop, Indices, RegistryAssumption
  <2>3. i'[t] = i[t] + 1 /\ op'[t] = "dedupe"
    BY <2>2 DEF DropCopy, Advance
  <2>4. QED  BY <1>1, <1>2, <1>3, <1>5, <2>2, <2>3 DEF WillDrop, Indices, RegistryAssumption
<1>6. QED  BY <1>4, <1>5

\* removeMonitor() only takes copies away.
LEMMA DuplicatesRemove ==
  ASSUME RegistryAssumption, TypesInv, DuplicatesDropped, NEW t \in Users, Remove(t)
  PROVE  DuplicatesDropped'
<1> USE DEF TypesInv, ListTypeOK
<1> SUFFICES ASSUME NEW j \in Indices, NEW k \in Indices,
                    j < k, apis'[j] = apis'[k], apis'[j] # NULL
             PROVE  \E u \in Users : WillDrop(u, j, k)'
  BY DEF DuplicatesDropped
<1>1. apis'[j] = apis[j] /\ apis'[k] = apis[k]
  BY DEF Remove, Put
<1>2. PICK u \in Users : WillDrop(u, j, k)
  BY <1>1 DEF DuplicatesDropped
<1>3. u # t
  BY <1>2 DEF WillDrop, Remove
<1>4. QED  BY <1>1, <1>2, <1>3 DEF WillDrop, Remove, Continue, Advance, Restart

\* Every step of an operation keeps duplicates waiting to be dropped.
LEMMA StepDuplicates ==
  ASSUME RegistryAssumption, TypesInv, DuplicatesDropped, NEW t \in Users, ListStep(t)
  PROVE  DuplicatesDropped'
<1>1. CASE AddSwap(t)  BY <1>1, DuplicatesAdd
<1>2. CASE Dedupe(t)   BY <1>2, DuplicatesDedupe
<1>3. CASE DropCopy(t)     BY <1>3, DuplicatesDrop
<1>4. CASE Remove(t)   BY <1>4, DuplicatesRemove
<1>5. CASE AddLoad(t) \/ AddInit(t) \/ RemoveOff(t) \/ Load(t) \/ Enable(t) \/ Tell(t)
           \/ TurnOff(t) \/ Walk(t)
  <2>1. op[t] \notin {"dedupe", "drop"} /\ UNCHANGED apis
    BY <1>5 DEF AddLoad, AddInit, RemoveOff, Load, Enable, Tell, TurnOff, Walk, Body
  <2>2. \A u \in Users \ {t} : op'[u] = op[u] /\ arg'[u] = arg[u] /\ i'[u] = i[u]
                                 /\ found'[u] = found[u]
    BY <1>5 DEF TypesInv, ListTypeOK, AddLoad, AddInit, RemoveOff, Load, Enable, Tell, TurnOff,
                Walk, Advance, Restart, Continue
  <2>3. QED  BY <2>1, <2>2, DuplicatesOther
<1>6. QED  BY <1>1, <1>2, <1>3, <1>4, <1>5 DEF ListStep

\* So does a call.
LEMMA CallDuplicates ==
  ASSUME TypesInv, DuplicatesDropped, NEW t \in Users, NEW o, NEW a, Call(t, o, a)
  PROVE  DuplicatesDropped'
<1>1. op[t] \notin {"dedupe", "drop"} /\ UNCHANGED apis
  BY DEF Call
<1>2. \A u \in Users \ {t} : op'[u] = op[u] /\ arg'[u] = arg[u] /\ i'[u] = i[u]
                               /\ found'[u] = found[u]
  BY DEF TypesInv, ListTypeOK, Call, Restart
<1>3. QED  BY <1>1, <1>2, DuplicatesOther

-----------------------------------------------------------------------------
(***************************************************************************)
(* Monitors stay listed                                                    *)
(***************************************************************************)

\* A step that takes away a copy of a monitor which is not being removed leaves
\* one at a lower index.
LEMMA StepKeepsCopy ==
  ASSUME RegistryAssumption, TypesInv, FirstCopyKept, NEW t \in Users, ListStep(t),
         NEW j \in Indices, apis[j] # NULL, apis[j] \notin Removable
  PROVE  \E k \in Indices : k <= j /\ apis'[k] = apis[j]
<1> USE DEF TypesInv, ListTypeOK
<1>0. j <= j
  BY DEF Indices, RegistryAssumption
<1>1. CASE AddSwap(t)
  BY <1>0, <1>1 DEF AddSwap, Put, EntryAt
<1>2. CASE Remove(t)
  BY <1>0, <1>2 DEF Remove, Put, EntryAt, Arguments
<1>3. CASE DropCopy(t)
  <2>1. /\ apis' = [apis EXCEPT ![i[t]] = IF apis[i[t]] = arg[t] THEN NULL ELSE apis[i[t]]]
        /\ op[t] = "drop" /\ found[t]
    BY <1>3 DEF DropCopy, Put, EntryAt, FoundFlag
  <2>2. CASE i[t] = j /\ apis[j] = arg[t]
    <3>1. PICK k \in Indices : k < i[t] /\ apis[k] = arg[t]
      BY <2>1, <2>2 DEF FirstCopyKept
    <3>2. k <= j /\ k # i[t]
      BY <2>2, <3>1 DEF Indices, RegistryAssumption
    <3>3. QED  BY <2>1, <2>2, <3>1, <3>2
  <2>3. CASE ~(i[t] = j /\ apis[j] = arg[t])
    BY <1>0, <2>1, <2>3
  <2>4. QED  BY <2>2, <2>3
<1>4. CASE UNCHANGED apis
  BY <1>0, <1>4
<1>5. QED  BY <1>1, <1>2, <1>3, <1>4 DEF ListStep, AddLoad, Dedupe, AddInit, RemoveOff, Load,
                                         Enable, Tell, TurnOff, Walk

\* A copy that a second pass has found keeps one behind its loop variable.
LEMMA StepFirstCopy ==
  ASSUME RegistryAssumption, TypesInv, FirstCopyKept, NEW t \in Users, ListStep(t)
  PROVE  FirstCopyKept'
<1> USE DEF TypesInv, ListTypeOK
<1> SUFFICES ASSUME NEW u \in Users, op'[u] \in {"dedupe", "drop"}, found'[u],
                    arg'[u] \notin Removable
             PROVE  \E j \in Indices : j < i'[u] /\ apis'[j] = arg'[u]
  BY DEF FirstCopyKept
<1>1. SUFFICES ASSUME NEW j \in Indices, j < i'[u], apis[j] = arg'[u], arg'[u] # NULL
               PROVE  \E k \in Indices : k < i'[u] /\ apis'[k] = arg'[u]
  <2>1. ASSUME op[u] \in {"dedupe", "drop"}, found[u], arg'[u] = arg[u], i'[u] \in Indices,
               i[u] <= i'[u]
        PROVE  /\ \E j \in Indices : j < i'[u] /\ apis[j] = arg'[u]
               /\ arg'[u] # NULL
    BY <2>1 DEF FirstCopyKept, Arguments, Indices, RegistryAssumption
  <2>2. i'[u] \in Indices
    BY StepTypes
  <2>3. CASE u # t
    <3>1. op'[u] = op[u] /\ found'[u] = found[u] /\ arg'[u] = arg[u] /\ i'[u] = i[u]
      BY <2>3 DEF ListStep, AddLoad, AddSwap, Dedupe, DropCopy, AddInit, Remove, RemoveOff, Load,
                  Enable, Tell, TurnOff, Walk, Continue, Restart, Advance
    <3>2. i[u] <= i'[u]
      BY <3>1 DEF Indices, RegistryAssumption
    <3>3. QED  BY <1>1, <2>1, <2>2, <3>1, <3>2
  <2>4. CASE u = t /\ Dedupe(t)
    <3>1. i[u] <= i'[u] /\ (i'[u] = i[u] \/ i'[u] = i[u] + 1)
      BY <2>4 DEF Dedupe, Continue, Advance, Restart, Indices, RegistryAssumption
    <3>2. op[u] = "dedupe" /\ arg'[u] = arg[u] /\ arg[u] # NULL
      BY <2>4 DEF Dedupe, Arguments, RegistryAssumption
    <3>3. CASE found[u]
      BY <1>1, <2>1, <2>2, <3>1, <3>2, <3>3
    <3>4. CASE ~found[u]
      <4>1. apis[i[u]] = arg[u] /\ i'[u] = i[u] + 1
        BY <2>4, <3>4 DEF Dedupe, EntryAt, Advance, Restart
      <4>2. i[u] \in Indices /\ i[u] < i'[u]
        BY <4>1 DEF Indices, RegistryAssumption
      <4>3. QED  BY <1>1, <3>2, <4>1, <4>2
    <3>5. QED  BY <3>3, <3>4
  <2>5. CASE u = t /\ DropCopy(t)
    <3>1. op[u] = "drop" /\ found[u] /\ arg'[u] = arg[u]
      BY <2>5 DEF DropCopy, FoundFlag
    <3>2. i[u] <= i'[u]
      BY <2>5 DEF DropCopy, Advance, Restart, Indices, RegistryAssumption
    <3>3. QED  BY <1>1, <2>1, <2>2, <3>1, <3>2
  <2>6. CASE u = t /\ ~Dedupe(t) /\ ~DropCopy(t)
    BY <2>6 DEF ListStep, AddLoad, AddSwap, AddInit, Remove, RemoveOff, Load, FoundFlag, Body,
                After, Enable, Tell, TurnOff, Walk, Continue, Restart, Advance
  <2>7. QED  BY <2>3, <2>4, <2>5, <2>6
<1>2. PICK k \in Indices : k <= j /\ apis'[k] = apis[j]
  BY <1>1, StepKeepsCopy
<1>3. k < i'[u]
  <2>1. i'[u] \in Indices
    BY StepTypes
  <2>2. QED  BY <1>1, <1>2, <2>1 DEF Indices, RegistryAssumption
<1>4. QED  BY <1>1, <1>2, <1>3

\* So does a call.
LEMMA CallFirstCopy ==
  ASSUME TypesInv, FirstCopyKept, NEW t \in Users, NEW o \in Operations, NEW a, Call(t, o, a)
  PROVE  FirstCopyKept'
  BY DEF TypesInv, ListTypeOK, FirstCopyKept, Call, Restart, Operations

-----------------------------------------------------------------------------
(***************************************************************************)
(* Walks                                                                   *)
(***************************************************************************)

\* What a step leaves stable was stable, is a monitor, and nobody adds it.
LEMMA StableBefore ==
  ASSUME TypesInv, StableListed, NEW t \in Users, ListStep(t), NEW u \in Users,
         NEW a \in stable'[u]
  PROVE  /\ a \in stable[u] /\ a \in Apis /\ a \notin BeingAdded
         /\ a \in enabled /\ a \in enabled'
         /\ \E k \in Indices : apis'[k] = a
<1>1. a \in stable[u] /\ a \in enabled' /\ \E k \in Indices : apis'[k] = a
  BY DEF ListStep, StillThere
<1>2. a \in Apis /\ a \notin BeingAdded /\ a \in enabled
  BY <1>1 DEF TypesInv, ListTypeOK, StableListed
<1>3. QED  BY <1>1, <1>2

\* Nobody begins to add a monitor in the middle of an operation.
LEMMA StepBeingAdded ==
  ASSUME TypesInv, NEW t \in Users, ListStep(t)
  PROVE  BeingAdded' \subseteq BeingAdded
<1> DEFINE Adding == {"add", "swap", "dedupe", "drop", "init"}
<1>1. \A u \in Users : op'[u] \in Adding => op[u] \in Adding /\ arg'[u] = arg[u]
  BY DEF TypesInv, ListTypeOK, ListStep, AddLoad, AddSwap, Dedupe, DropCopy, AddInit, Remove, RemoveOff,
         Load, Enable, Tell, TurnOff, Walk, Continue, Restart, Advance, Body, After
<1>2. QED  BY <1>1 DEF BeingAdded

\* What stays stable stays where it is: it has one copy only, and no thread that
\* adds it moves it.
LEMMA StableStays ==
  ASSUME RegistryAssumption, TypesInv, DuplicatesDropped, StableListed,
         NEW t \in Users, ListStep(t), NEW u \in Users, NEW a \in stable'[u],
         NEW k \in Indices, apis[k] = a
  PROVE  apis'[k] = a
<1> USE DEF TypesInv, ListTypeOK
<1>1. a \in Apis /\ a # NULL /\ a \notin BeingAdded
  BY StableBefore DEF RegistryAssumption
<1>2. PICK m \in Indices : apis'[m] = a
  BY StableBefore
<1>3. CASE AddSwap(t)
  BY <1>1, <1>3 DEF AddSwap, Put, EntryAt
<1>4. CASE DropCopy(t)
  <2>1. arg[t] # a
    BY <1>1, <1>4 DEF DropCopy, BeingAdded
  <2>2. QED  BY <1>4, <2>1 DEF DropCopy, Put, EntryAt
<1>5. CASE Remove(t)
  <2>1. SUFFICES ASSUME apis'[k] # a PROVE FALSE
    OBVIOUS
  <2>2. apis[m] = a /\ m # k
    BY <1>1, <1>2, <1>5, <2>1 DEF Remove, Put
  <2>3. m < k \/ k < m
    BY <2>2 DEF Indices, RegistryAssumption
  <2>4. \E d \in Users : op[d] \in {"dedupe", "drop"} /\ arg[d] = a
    BY <1>1, <2>2, <2>3 DEF DuplicatesDropped, WillDrop
  <2>5. QED  BY <1>1, <2>4 DEF BeingAdded
<1>6. CASE UNCHANGED apis
  BY <1>6
<1>7. QED  BY <1>3, <1>4, <1>5, <1>6 DEF ListStep, AddLoad, Dedupe, AddInit, RemoveOff, Load,
                                         Enable, Tell, TurnOff, Walk

\* The histories stay within what is listed, enabled and not being added.
LEMMA StepStable ==
  ASSUME RegistryAssumption, TypesInv, StableListed, NEW t \in Users, ListStep(t)
  PROVE  StableListed'
<1> SUFFICES ASSUME NEW u \in Users, NEW a \in stable'[u]
             PROVE  a \in Listed' /\ a \in enabled' /\ a \notin BeingAdded'
  BY DEF StableListed
<1>1. a \in enabled' /\ a \notin BeingAdded /\ a # NULL /\ \E k \in Indices : apis'[k] = a
  BY StableBefore DEF RegistryAssumption
<1>2. QED  BY <1>1, StepBeingAdded DEF Listed

\* So does a call: what it begins to add leaves every history.
LEMMA CallStable ==
  ASSUME TypesInv, StableListed, NEW t \in Users, NEW o \in Operations, NEW a \in Apis,
         Call(t, o, a)
  PROVE  StableListed'
<1> USE DEF TypesInv, ListTypeOK
<1> SUFFICES ASSUME NEW u \in Users, NEW b \in stable'[u]
             PROVE  b \in Listed' /\ b \in enabled' /\ b \notin BeingAdded'
  BY DEF StableListed
<1>1. b \in Listed /\ b \in enabled /\ b \notin BeingAdded /\ (o = "add" => b # a)
  <2>1. CASE u = t
    BY <2>1 DEF Call
  <2>2. CASE u # t
    BY <2>2 DEF Call, StableListed
  <2>3. QED  BY <2>1, <2>2
<1>2. BeingAdded' \subseteq BeingAdded \cup (IF o = "add" THEN {a} ELSE {})
  BY DEF BeingAdded, Call, Restart, Operations
<1>3. Listed' = Listed /\ enabled' = enabled
  BY DEF Call, Listed
<1>4. QED  BY <1>1, <1>2, <1>3

\* A step keeps what a walk has not called ahead of it.
LEMMA StepWalk ==
  ASSUME RegistryAssumption, TypesInv, DuplicatesDropped, StableListed, WalkAhead,
         NEW t \in Users, ListStep(t)
  PROVE  WalkAhead'
<1> USE DEF TypesInv, ListTypeOK
<1> SUFFICES ASSUME NEW u \in Users, NEW a \in stable'[u], a \notin seen'[u]
             PROVE  /\ op'[u] = "walk" => \E k \in Indices : k >= i'[u] /\ apis'[k] = a
                    /\ op'[u] = "call" => \/ a = arg'[u]
                                         \/ \E k \in Indices : k > i'[u] /\ apis'[k] = a
  BY DEF WalkAhead
<1>1. a \in stable[u] /\ a # NULL /\ a \in enabled
  BY StableBefore DEF RegistryAssumption
<1>2. \A k \in Indices : apis[k] = a => apis'[k] = a
  BY StableStays
<1>3. CASE u # t
  <2>1. op'[u] = op[u] /\ arg'[u] = arg[u] /\ i'[u] = i[u] /\ seen'[u] = seen[u]
    BY <1>3 DEF ListStep, AddLoad, AddSwap, Dedupe, DropCopy, AddInit, Remove, RemoveOff, Load,
                Enable, Tell, TurnOff, Walk, Continue, Restart, Advance
  <2>2. a \in stable[u] \ seen[u]
    BY <1>1, <2>1
  <2>3. QED  BY <1>2, <2>1, <2>2 DEF WalkAhead
<1>4. CASE u = t /\ Load(t) /\ op[t] = "walk"
  <2>1. PICK k \in Indices : k >= i[t] /\ apis[k] = a
    BY <1>1, <1>4 DEF WalkAhead, Load
  <2>2. CASE EntryAt(t) = NULL
    <3>1. k # i[t]
      BY <1>1, <2>1, <2>2 DEF EntryAt
    <3>2. k > i[t] /\ i[t] # Count
      BY <2>1, <3>1 DEF Indices, RegistryAssumption
    <3>3. i'[t] = i[t] + 1 /\ op'[t] = "walk"
      BY <1>4, <2>2, <3>2 DEF Load, Advance
    <3>4. k >= i'[t]
      BY <3>2, <3>3 DEF Indices, RegistryAssumption
    <3>5. QED  BY <1>2, <1>4, <2>1, <3>3, <3>4
  <2>3. CASE EntryAt(t) # NULL
    <3>1. op'[t] = "call" /\ i'[t] = i[t] /\ arg'[t] = apis[i[t]]
      BY <1>4, <2>3 DEF Load, Continue, Body, EntryAt
    <3>2. k = i[t] \/ k > i[t]
      BY <2>1 DEF Indices, RegistryAssumption
    <3>3. QED  BY <1>2, <1>4, <2>1, <3>1, <3>2
  <2>4. QED  BY <2>2, <2>3
<1>5. CASE u = t /\ Walk(t)
  <2>1. a \notin seen[t] /\ a # arg[t] /\ op[t] = "call"
    BY <1>1, <1>5 DEF Walk
  <2>2. PICK k \in Indices : k > i[t] /\ apis[k] = a
    BY <1>1, <1>5, <2>1 DEF WalkAhead
  <2>3. i[t] # Count
    BY <2>2 DEF Indices, RegistryAssumption
  <2>4. i'[t] = i[t] + 1 /\ op'[t] = "walk"
    BY <1>5, <2>3 DEF Walk, Advance
  <2>5. k >= i'[t]
    BY <2>2, <2>4 DEF Indices, RegistryAssumption
  <2>6. QED  BY <1>2, <1>5, <2>2, <2>4, <2>5
<1>6. CASE u = t /\ ~Walk(t) /\ ~(Load(t) /\ op[t] = "walk")
  <2>1. op'[t] \notin {"walk", "call"}
    BY <1>6 DEF ListStep, AddLoad, AddSwap, Dedupe, DropCopy, AddInit, Remove, RemoveOff, Load,
                Enable, Tell, TurnOff, Continue, Restart, Advance, Body, After
  <2>2. QED  BY <1>6, <2>1
<1>7. QED  BY <1>3, <1>4, <1>5, <1>6

\* A walk begins with everything ahead of it.
LEMMA CallWalk ==
  ASSUME RegistryAssumption, TypesInv, WalkAhead, NEW t \in Users, NEW o \in Operations,
         NEW a \in Apis, Call(t, o, a)
  PROVE  WalkAhead'
<1> USE DEF TypesInv, ListTypeOK
<1> SUFFICES ASSUME NEW u \in Users, NEW b \in stable'[u], b \notin seen'[u]
             PROVE  /\ op'[u] = "walk" => \E k \in Indices : k >= i'[u] /\ apis'[k] = b
                    /\ op'[u] = "call" => \/ b = arg'[u]
                                         \/ \E k \in Indices : k > i'[u] /\ apis'[k] = b
  BY DEF WalkAhead
<1>1. CASE u = t
  <2>1. op'[u] = o /\ i'[u] = 1 /\ apis' = apis
    BY <1>1 DEF Call, Restart
  <2>2. o = "walk" => \E k \in Indices : apis[k] = b
    BY <1>1 DEF Call, Listed
  <2>3. \A k \in Indices : k >= 1
    BY DEF Indices, RegistryAssumption
  <2>4. QED  BY <2>1, <2>2, <2>3 DEF Operations
<1>2. CASE u # t
  BY <1>2 DEF Call, Restart, WalkAhead
<1>3. QED  BY <1>1, <1>2

-----------------------------------------------------------------------------
(***************************************************************************)
(* The theorems                                                            *)
(***************************************************************************)

\* Every step of any thread keeps the invariant.
LEMMA NextRegistryInv ==
  ASSUME RegistryAssumption, RegistryInv, [ListNext]_listVars PROVE RegistryInv'
<1>1. ASSUME NEW t \in Users, ListStep(t) PROVE RegistryInv'
  BY <1>1, StepTypes, StepDuplicates, StepFirstCopy, StepStable, StepWalk
     DEF RegistryInv, TypesInv
<1>2. ASSUME NEW t \in Users, NEW o \in Operations, NEW a \in Apis, Call(t, o, a)
      PROVE  RegistryInv'
  BY <1>2, CallTypes, CallDuplicates, CallFirstCopy, CallStable, CallWalk
     DEF RegistryInv, TypesInv
<1>3. CASE UNCHANGED listVars
  BY <1>3 DEF RegistryInv, ListTypeOK, Arguments, FoundFlag, DuplicatesDropped, WillDrop,
              FirstCopyKept, StableListed, Listed, BeingAdded, WalkAhead, listVars, listLocal
<1>4. QED  BY <1>1, <1>2, <1>3 DEF ListNext

\* kscmr_addMonitor(), "iterate again, removing duplicates in case someone else
\* also added the same API": for any number of threads that add and remove
\* monitors at the same time, a monitor is in the list at most once when no
\* thread is in its second pass.
THEOREM RegistryListsOnce == RegistryAssumption /\ ListSpec => []RegistrySound
<1>1. SUFFICES ASSUME RegistryAssumption PROVE ListSpec => []RegistrySound
  OBVIOUS
<1>2. RegistryInv => RegistrySound
  <2> SUFFICES ASSUME RegistryInv, NEW a \in Apis, ~Deduping(a),
                      NEW j \in Copies(a), NEW k \in Copies(a), j # k
               PROVE  FALSE
    BY DEF RegistryInv, RegistrySound, NoDuplicates
  <2>1. j \in Indices /\ k \in Indices /\ apis[j] = a /\ apis[k] = a /\ a # NULL
    BY <1>1 DEF Copies, RegistryAssumption
  <2>2. j < k \/ k < j
    BY <1>1, <2>1 DEF Indices, RegistryAssumption
  <2>3. \E t \in Users : op[t] \in {"dedupe", "drop"} /\ arg[t] = a
    BY <2>1, <2>2 DEF RegistryInv, DuplicatesDropped, WillDrop
  <2>4. QED  BY <2>3 DEF Deduping
<1>3. ListInit => RegistryInv
  BY <1>1, InitRegistryInv
<1>4. RegistryInv /\ [ListNext]_listVars => RegistryInv'
  BY <1>1, NextRegistryInv
<1>5. QED  BY <1>2, <1>3, <1>4, PTL DEF ListSpec

\* "Leave the first copy alone": no step takes a monitor out of the list for
\* which removeMonitor() is never called; and a walk that ends has called every
\* monitor that was listed and enabled from its beginning to its end.
LEMMA NextRegistryKept ==
  ASSUME RegistryAssumption, RegistryInv, [ListNext]_listVars
  PROVE  /\ Listed \ Removable \subseteq Listed'
         /\ \A t \in Users : op[t] \in {"walk", "call"} /\ op'[t] = "idle"
                               => stable'[t] \subseteq seen'[t]
<1>1. ASSUME NEW t \in Users, ListStep(t)
      PROVE  /\ Listed \ Removable \subseteq Listed'
             /\ \A u \in Users : op[u] \in {"walk", "call"} /\ op'[u] = "idle"
                                   => stable'[u] \subseteq seen'[u]
  <2>1. Listed \ Removable \subseteq Listed'
    <3> SUFFICES ASSUME NEW a \in Listed \ Removable PROVE a \in Listed'
      OBVIOUS
    <3>1. PICK j \in Indices : apis[j] = a /\ a # NULL
      BY DEF Listed
    <3>2. \E k \in Indices : apis'[k] = a
      BY <1>1, <3>1, StepKeepsCopy DEF RegistryInv, TypesInv
    <3>3. QED  BY <3>1, <3>2 DEF Listed
  <2>2. ASSUME NEW u \in Users, op[u] \in {"walk", "call"}, op'[u] = "idle",
               NEW a \in stable'[u], a \notin seen'[u]
        PROVE  FALSE
    <3> USE DEF RegistryInv, ListTypeOK
    <3>1. a \in stable[u] /\ a # NULL /\ a \in enabled
      BY <1>1, <2>2, StableBefore DEF TypesInv, RegistryAssumption
    <3>2. u = t /\ i[t] = Count /\ ((op[t] = "walk" /\ EntryAt(t) = NULL /\ seen'[t] = seen[t])
                                    \/ (op[t] = "call" /\ Walk(t)))
      BY <1>1, <2>2 DEF ListStep, AddLoad, AddSwap, Dedupe, DropCopy, AddInit, Remove, RemoveOff,
            Load, Enable, Tell, TurnOff, Walk, Continue, Restart, Advance, Body, After
    <3>3. CASE op[t] = "walk"
      <4>1. PICK k \in Indices : k >= i[t] /\ apis[k] = a
        BY <2>2, <3>1, <3>2, <3>3 DEF WalkAhead
      <4>2. k = i[t]
        BY <3>2, <4>1 DEF Indices, RegistryAssumption
      <4>3. QED  BY <3>1, <3>2, <3>3, <4>1, <4>2 DEF EntryAt
    <3>4. CASE op[t] = "call"
      <4>1. a # arg[t] /\ a \notin seen[t]
        BY <2>2, <3>1, <3>2, <3>4 DEF Walk
      <4>2. PICK k \in Indices : k > i[t] /\ apis[k] = a
        BY <3>1, <3>2, <3>4, <4>1 DEF WalkAhead
      <4>3. QED  BY <3>2, <4>2 DEF Indices, RegistryAssumption
    <3>5. QED  BY <2>2, <3>2, <3>3, <3>4
  <2>3. QED  BY <2>1, <2>2
<1>2. CASE \E t \in Users, o \in Operations, a \in Apis : Call(t, o, a)
  BY <1>2 DEF RegistryInv, ListTypeOK, Call, Restart, Operations, Listed
<1>3. CASE UNCHANGED listVars
  BY <1>3 DEF RegistryInv, ListTypeOK, Listed, listVars, listLocal
<1>4. QED  BY <1>1, <1>2, <1>3 DEF ListNext

\* "Leave the first copy alone" and "Iterates through all monitors": for any
\* number of threads, only removeMonitor() takes a monitor out of the list, and
\* addContextualInfoToEvent() misses none that stays listed and enabled.
THEOREM RegistryLosesNothing == RegistryAssumption /\ ListSpec => RegistryKept
<1>1. SUFFICES ASSUME RegistryAssumption PROVE ListSpec => RegistryKept
  OBVIOUS
<1>2. ListInit => RegistryInv
  BY <1>1, InitRegistryInv
<1>3. RegistryInv /\ [ListNext]_listVars => RegistryInv'
  BY <1>1, NextRegistryInv
<1>4. RegistryInv /\ [ListNext]_listVars =>
        /\ [Listed \ Removable \subseteq Listed']_listVars
        /\ [\A t \in Users : (op[t] \in {"walk", "call"} /\ op'[t] = "idle")
               => stable'[t] \subseteq seen'[t]]_listVars
  BY <1>1, NextRegistryKept
<1>5. QED  BY <1>2, <1>3, <1>4, PTL DEF ListSpec, RegistryKept, OnlyRemoveRemoves, WalkVisitsAll
=============================================================================
