--------------------------- MODULE KSCrashMonitor ---------------------------
(***************************************************************************)
(* The exception dispatcher of KSCrashMonitor.c: notifyException(), which  *)
(* decides what to do with an exception, and handleException(), which has  *)
(* the report written and winds the handler down.                          *)
(*                                                                         *)
(* An ACTIVATION is one run of notify() + handle() on a thread.  A handler *)
(* that faults is interrupted by a further activation on the same thread,  *)
(* so activations are pairs <<thread, nesting level>>.  One step is one    *)
(* access to the shared atomics (or a group of accesses no other step can  *)
(* tell apart), so activations of different threads interleave as they do  *)
(* in the program.                                                         *)
(***************************************************************************)
EXTENDS Integers, FiniteSets

CONSTANTS
  AppThreads,       \* threads that run the application's code
  MainThread,       \* the one the hang watchdog looks at
  WatchdogThread,   \* the thread of KSHangMonitor
  HasWatchdog,      \* is the watchdog monitor installed?
  MachThreads,      \* the mach exception handlers (the code has two, alike)
  NoThread,         \* thread id 0: an empty slot
  MaxSimultaneous,  \* MAX_SIMULTANEOUS_EXCEPTIONS
  Kinds,            \* the kinds of exception that occur
  MaxNesting,       \* model bound: activations stacked on one thread
  MaxRaises         \* model bound: exceptions raised in one behaviour

Threads == AppThreads \cup MachThreads
             \cup (IF HasWatchdog THEN {WatchdogThread} ELSE {})

ASSUME ThreadsAssumption ==
  /\ HasWatchdog \in BOOLEAN
  /\ IsFiniteSet(Threads)
  /\ NoThread \notin Threads
  /\ "async" \notin Threads   \* the name of a context, below
  /\ MainThread \in AppThreads
  /\ AppThreads \cap MachThreads = {}
  /\ WatchdogThread \notin AppThreads \cup MachThreads
ASSUME BoundsAssumption ==
  /\ MaxSimultaneous \in Nat \ {0}
  /\ MaxNesting \in Nat \ {0}
  /\ MaxRaises \in Nat

(***************************************************************************)
(* The kinds of exception, by what the monitor that traps one asks for when*)
(* it calls notify(): signals and mach exceptions; exceptions that         *)
(* application code reports (userFatal stands for uncaught Objective-C and *)
(* C++ exceptions too); a hang.  Two facts about the callers: which of them*)
(* end the process once the exception is handled, and which test           *)
(* shouldExitImmediately before they call handle().                        *)
(***************************************************************************)
KindNames      == {"signal", "mach", "userFatal", "userAll", "user", "watchdog"}
FatalKinds     == {"signal", "mach", "userFatal"}             \* isFatal
AsyncKinds     == {"signal", "mach"}                          \* asyncSafety
RecordAllKinds == {"signal", "mach", "userFatal", "userAll", "watchdog"}
EndingKinds    == {"signal", "mach", "userFatal"}
TestingKinds   == {"signal", "mach", "userFatal", "userAll", "user"}

ASSUME KindsAssumption == Kinds \subseteq KindNames

Acts  == Threads \X (1 .. MaxNesting)
Slots == 0 .. MaxSimultaneous - 1

\* Contexts: one on the heap per activation, two async-safe ones, and the
\* exitImmediatelyContext.
Async(n) == <<"async", n % 2>>
ExitCtx  == <<"exit", 0>>
Contexts == Acts \cup {Async(0), Async(1), ExitCtx}

VARIABLES
  alive,                      \* the process has not terminated
  monitorsEnabled,            \* kscm_disableAllMonitors() has not run
  threadsHandlingExceptions,  \* [Slots -> thread or NoThread]
  handlingExceptionIndex,
  isHandlingFatalException,
  crashedDuringExceptionHandling,
  asyncSafeContextIndex,      \* only its low bit is ever used
  ctx,                        \* [Contexts -> the fields handle() reads]
  suspendCount,               \* kernel suspend count of each thread
  watchdog,                   \* "running", "stopping" or "exited"
  pc,                         \* [Acts -> where the activation is]
  index,                      \* thisThreadHandlerIndex
  cursor,                     \* i in the loops over the slots
  expected,                   \* expectedIndex of endHandlingException()
  local,                      \* the other locals of an activation
  todo,                       \* threads left in a suspend or resume loop
  dropped,                    \* an exception found the handler flooded
  raises                      \* exceptions raised so far (model bound)

shared == <<threadsHandlingExceptions, handlingExceptionIndex,
            isHandlingFatalException, crashedDuringExceptionHandling,
            asyncSafeContextIndex>>
frame  == <<index, cursor, expected, local>>
system == <<alive, monitorsEnabled, watchdog, dropped, raises>>
vars   == <<shared, frame, system, ctx, suspendCount, pc, todo>>

PCs == {"idle", "begun", "stored", "checking", "inspected", "awaitDrop", "sleeping",
        "committing", "listing", "suspending", "handling", "resuming",
        "disabling", "awaitEnd", "clearing", "reading", "scanning",
        "swapping", "returning"}

ContextFields == [threadHandlerIndex : Nat, isFatal : BOOLEAN,
                  recordAll : BOOLEAN, suspended : SUBSET Threads]
EmptyContext  == [threadHandlerIndex |-> 0, isFatal |-> FALSE,
                  recordAll |-> FALSE, suspended |-> {}]

Locals   == [kind : KindNames, offender : Threads \cup {NoThread}, wasFatal : BOOLEAN,
             wasCrashed : BOOLEAN, isCrashed : BOOLEAN, ctx : Contexts]
NoLocals == [kind |-> "user", offender |-> NoThread, wasFatal |-> FALSE,
             wasCrashed |-> FALSE, isCrashed |-> FALSE, ctx |-> ExitCtx]

TypeOK ==
  /\ alive \in BOOLEAN
  /\ monitorsEnabled \in BOOLEAN
  /\ threadsHandlingExceptions \in [Slots -> Threads \cup {NoThread}]
  /\ handlingExceptionIndex \in Nat
  /\ isHandlingFatalException \in BOOLEAN
  /\ crashedDuringExceptionHandling \in BOOLEAN
  /\ asyncSafeContextIndex \in {0, 1}
  /\ ctx \in [Contexts -> ContextFields]
  /\ suspendCount \in [Threads -> Nat]
  /\ watchdog \in {"running", "stopping", "exited"}
  /\ pc \in [Acts -> PCs]
  /\ index \in [Acts -> Nat]
  /\ cursor \in [Acts -> Nat]
  /\ expected \in [Acts -> Nat]
  /\ local \in [Acts -> Locals]
  /\ todo \in [Acts -> SUBSET Threads]
  /\ dropped \in BOOLEAN
  /\ raises \in Nat

Init ==
  /\ alive = TRUE
  /\ monitorsEnabled = TRUE
  /\ threadsHandlingExceptions = [i \in Slots |-> NoThread]
  /\ handlingExceptionIndex = 0
  /\ isHandlingFatalException = FALSE
  /\ crashedDuringExceptionHandling = FALSE
  /\ asyncSafeContextIndex = 0
  /\ ctx = [c \in Contexts |-> EmptyContext]
  /\ suspendCount = [t \in Threads |-> 0]
  /\ watchdog = "running"
  /\ pc = [a \in Acts |-> "idle"]
  /\ index = [a \in Acts |-> 0]
  /\ cursor = [a \in Acts |-> 0]
  /\ expected = [a \in Acts |-> 0]
  /\ local = [a \in Acts |-> NoLocals]
  /\ todo = [a \in Acts |-> {}]
  /\ dropped = FALSE
  /\ raises = 0

-----------------------------------------------------------------------------
(***************************************************************************)
(* Scheduling                                                              *)
(***************************************************************************)
Active(a)      == pc[a] # "idle"
Busy(t)        == Active(<<t, 1>>)
Interrupted(a) == a[2] < MaxNesting /\ Active(<<a[1], a[2] + 1>>)

\* A thread whose fault a mach handler is dealing with waits for the reply.
AwaitsMachReply(t) ==
  \E m \in MachThreads : Busy(m) /\ local[<<m, 1>>].kind = "mach"
                                 /\ local[<<m, 1>>].offender = t

Runs(t) == alive /\ suspendCount[t] = 0 /\ ~AwaitsMachReply(t)

\* The activation that a step of thread a[1] belongs to, and where it is.
At(a, where) == pc[a] = where /\ ~Interrupted(a) /\ Runs(a[1])

Goto(a, where) == pc' = [pc EXCEPT ![a] = where]

-----------------------------------------------------------------------------
(***************************************************************************)
(* Exceptions.  Monitor m's handler is entered on thread h because of the  *)
(* exception that o met; beginHandlingException() takes the next index.    *)
(***************************************************************************)

\* A mach handler that is waiting for a message runs nothing that could fault.
CanFault(t) == Runs(t) /\ (t \in MachThreads => Busy(t))

\* A fault of thread o is handed to a mach handler that is still waiting.
MachHandles(h, o) == h \in MachThreads /\ ~Busy(h) /\ CanFault(o)

\* The watchdog thread reports a hang of the main thread.
WatchdogHandles(h, o) ==
  /\ HasWatchdog /\ h = WatchdogThread /\ o = MainThread
  /\ ~Busy(h) /\ watchdog = "running" /\ Runs(h)

\* A signal is handled where it arrives, also inside a handler.
SignalHandles(h, o) == h = o /\ CanFault(h)

\* Application code reports an exception; inside a handler application code
\* runs only in the callbacks of handle().
UserHandles(h, o, d) ==
  /\ h \in AppThreads /\ h = o /\ Runs(h)
  /\ d > 1 => pc[<<h, d - 1>>] = "handling"

Handles(kind, h, o, d) ==
  \/ kind = "mach" /\ MachHandles(h, o)
  \/ kind = "watchdog" /\ WatchdogHandles(h, o)
  \/ kind = "signal" /\ SignalHandles(h, o)
  \/ kind \in {"user", "userAll", "userFatal"} /\ UserHandles(h, o, d)

Raise(kind, h, o, d) ==
  LET a == <<h, d>> IN
  /\ alive /\ monitorsEnabled
  /\ raises < MaxRaises
  /\ ~Active(a) /\ (d > 1 => Active(<<h, d - 1>>))
  /\ Handles(kind, h, o, d)
  /\ index' = [index EXCEPT ![a] = handlingExceptionIndex]
  /\ handlingExceptionIndex' = handlingExceptionIndex + 1
  /\ local' = [local EXCEPT ![a] = [NoLocals EXCEPT !.kind = kind, !.offender = o]]
  /\ raises' = raises + 1
  /\ Goto(a, "begun")
  /\ UNCHANGED <<alive, monitorsEnabled, watchdog, dropped, ctx, suspendCount,
                 todo, cursor, expected, threadsHandlingExceptions,
                 isHandlingFatalException, crashedDuringExceptionHandling,
                 asyncSafeContextIndex>>

\* The rest of beginHandlingException(): publish the thread in its slot.
Store(a) ==
  /\ At(a, "begun")
  /\ threadsHandlingExceptions' =
       IF index[a] < MaxSimultaneous
       THEN [threadsHandlingExceptions EXCEPT ![index[a]] = a[1]]
       ELSE threadsHandlingExceptions
  /\ Goto(a, "stored")
  /\ UNCHANGED <<handlingExceptionIndex, isHandlingFatalException,
                 crashedDuringExceptionHandling, asyncSafeContextIndex,
                 frame, system, ctx, suspendCount, todo>>

\* Mutant of Inspect: the crash-loop flag is not read.
InspectForgetsCrash(a) ==
  /\ At(a, "stored")
  /\ local' = [local EXCEPT ![a].wasFatal = isHandlingFatalException]
  /\ cursor' = [cursor EXCEPT ![a] = 0]
  /\ Goto(a, "checking")
  /\ UNCHANGED <<shared, system, ctx, suspendCount, todo, index, expected>>

\* Read the two flags.  Their reads are one step, as are their writes in
\* Commit: a handler goes on to use only one of them.
Inspect(a) ==
  /\ At(a, "stored")
  /\ local' = [local EXCEPT ![a].wasFatal   = isHandlingFatalException,
                             ![a].wasCrashed = crashedDuringExceptionHandling]
  /\ cursor' = [cursor EXCEPT ![a] = 0]
  /\ Goto(a, "checking")
  /\ UNCHANGED <<shared, system, ctx, suspendCount, todo, index, expected>>

\* Mutant of CheckLimit: the slot right below is left out.
CheckLimitShort(a) ==
  IF index[a] > MaxSimultaneous THEN MaxSimultaneous ELSE index[a] - 1

\* isThreadAlreadyHandlingAnException(): a loop over the slots below this one.
CheckLimit(a) == IF index[a] > MaxSimultaneous THEN MaxSimultaneous ELSE index[a]

Check(a) ==
  /\ At(a, "checking")
  /\ LET found == /\ cursor[a] < CheckLimit(a)
                  /\ threadsHandlingExceptions[cursor[a]] \in {a[1], local[a].offender}
     IN /\ local' = [local EXCEPT ![a].isCrashed = found]
        /\ Goto(a, IF found \/ cursor[a] >= CheckLimit(a)
                   THEN "inspected" ELSE "checking")
  /\ cursor' = [cursor EXCEPT ![a] = @ + 1]
  /\ UNCHANGED <<shared, system, ctx, suspendCount, todo, index, expected>>

-----------------------------------------------------------------------------
(***************************************************************************)
(* kscm_disableAllMonitors().  Disabling the watchdog monitor releases     *)
(* KSHangMonitor; if its thread is idle the release is the last one, and   *)
(* dealloc stops the thread's run loop and waits until the thread exits.   *)
(***************************************************************************)
WatchdogMustExit == HasWatchdog /\ watchdog = "running" /\ ~Busy(WatchdogThread)

DisableAllMonitors(a, awaiting, done) ==
  /\ monitorsEnabled' = FALSE
  /\ IF monitorsEnabled /\ WatchdogMustExit
     THEN watchdog' = "stopping" /\ Goto(a, awaiting)
     ELSE UNCHANGED watchdog /\ Goto(a, done)

WatchdogExits ==
  /\ watchdog = "stopping"
  /\ Runs(WatchdogThread)
  /\ watchdog' = "exited"
  /\ UNCHANGED <<shared, frame, alive, monitorsEnabled, dropped, raises, ctx,
                 suspendCount, pc, todo>>

\* Where a caller goes that was handed the exitImmediatelyContext.
AfterDrop(a) ==
  IF local[a].kind \in TestingKinds THEN "returning" ELSE "handling"

WatchdogGone(a) ==
  /\ watchdog = "exited"
  /\ \/ At(a, "awaitDrop") /\ Goto(a, AfterDrop(a))
     \/ At(a, "awaitEnd")  /\ Goto(a, "clearing")
  /\ UNCHANGED <<shared, frame, system, ctx, suspendCount, todo>>

-----------------------------------------------------------------------------
(***************************************************************************)
(* The decision table of notifyException()                                 *)
(***************************************************************************)
Flooded(a) == index[a] > MaxSimultaneous

Drop(a) ==
  /\ At(a, "inspected") /\ Flooded(a)
  /\ DisableAllMonitors(a, "awaitDrop", AfterDrop(a))
  /\ dropped' = TRUE
  /\ local' = [local EXCEPT ![a].ctx = ExitCtx]
  /\ UNCHANGED <<shared, alive, raises, ctx, suspendCount, todo, index, cursor,
                 expected>>

\* The recrash handler crashed too: _exit(1).
CrashLoopExit(a) ==
  /\ At(a, "inspected") /\ ~Flooded(a)
  /\ local[a].isCrashed /\ local[a].wasCrashed
  /\ alive' = FALSE
  /\ UNCHANGED <<shared, frame, monitorsEnabled, watchdog, dropped, raises, ctx,
                 suspendCount, pc, todo>>

Decide(a) ==
  /\ At(a, "inspected") /\ ~Flooded(a)
  /\ ~(local[a].isCrashed /\ local[a].wasCrashed)
  /\ Goto(a, IF ~local[a].isCrashed /\ local[a].wasFatal
             THEN "sleeping" ELSE "committing")
  /\ UNCHANGED <<shared, frame, system, ctx, suspendCount, todo>>

\* sleep(2) is over, whatever the other handler has done in the meantime.
Wake(a) ==
  /\ At(a, "sleeping")
  /\ Goto(a, "committing")
  /\ UNCHANGED <<shared, frame, system, ctx, suspendCount, todo>>

\* A recrash overrides what the monitor asked for.
IsFatal(a)   == local[a].isCrashed \/ local[a].kind \in FatalKinds
IsAsync(a)   == local[a].isCrashed \/ local[a].kind \in AsyncKinds
RecordAll(a) == ~local[a].isCrashed /\ local[a].kind \in RecordAllKinds

\* Note our state, then getNextMonitorContext().
Commit(a) ==
  LET c == IF IsAsync(a) THEN Async(asyncSafeContextIndex) ELSE a IN
  /\ At(a, "committing")
  /\ crashedDuringExceptionHandling' =
       (crashedDuringExceptionHandling \/ local[a].isCrashed)
  /\ isHandlingFatalException' = (isHandlingFatalException \/ IsFatal(a))
  /\ asyncSafeContextIndex' = IF IsAsync(a) THEN 1 - asyncSafeContextIndex
                              ELSE asyncSafeContextIndex
  /\ ctx' = [ctx EXCEPT ![c] =
       [threadHandlerIndex |-> index[a], isFatal |-> IsFatal(a),
        recordAll |-> RecordAll(a),
        suspended |-> IF RecordAll(a) \/ ~IsAsync(a) THEN {} ELSE @.suspended]]
  /\ local' = [local EXCEPT ![a].ctx = c]
  /\ Goto(a, IF RecordAll(a) THEN "listing" ELSE "handling")
  /\ UNCHANGED <<threadsHandlingExceptions, handlingExceptionIndex, index,
                 cursor, expected, system, suspendCount, todo>>

-----------------------------------------------------------------------------
(***************************************************************************)
(* ksmc_suspendEnvironment() and ksmc_resumeEnvironment(): the list of     *)
(* threads comes from the kernel, which may refuse it; the loop leaves out *)
(* the caller and the reserved threads (the mach handlers).                *)
(***************************************************************************)

OtherThreads(a) == Threads \ ({a[1]} \cup MachThreads)

\* Mutant of ListThreads: the list is not kept for resuming.
ListThreadsUnrecorded(a) ==
  /\ At(a, "listing")
  /\ todo' = [todo EXCEPT ![a] = OtherThreads(a)]
  /\ Goto(a, "suspending")
  /\ UNCHANGED <<shared, frame, system, ctx, suspendCount>>

ListThreads(a) ==
  /\ At(a, "listing")
  /\ \E listed \in {OtherThreads(a), {}} :
       /\ todo' = [todo EXCEPT ![a] = listed]
       /\ ctx' = [ctx EXCEPT ![local[a].ctx].suspended = listed]
  /\ Goto(a, "suspending")
  /\ UNCHANGED <<shared, frame, system, suspendCount>>

SuspendThread(a, t) ==
  /\ At(a, "suspending")
  /\ t \in todo[a]
  /\ suspendCount' = [suspendCount EXCEPT ![t] = @ + 1]
  /\ todo' = [todo EXCEPT ![a] = @ \ {t}]
  /\ UNCHANGED <<shared, frame, system, ctx, pc>>

Suspended(a) ==
  /\ At(a, "suspending")
  /\ todo[a] = {}
  /\ Goto(a, "handling")
  /\ UNCHANGED <<shared, frame, system, ctx, suspendCount, todo>>

\* Mutant of Handle: a fatal exception leaves the threads suspended.
HandleFatalStaysSuspended(a) ==
  /\ At(a, "handling")
  /\ todo' = [todo EXCEPT ![a] = IF ctx[local[a].ctx].isFatal THEN {}
                                 ELSE ctx[local[a].ctx].suspended]
  /\ Goto(a, "resuming")
  /\ UNCHANGED <<shared, frame, system, ctx, suspendCount>>

\* addContextualInfoToEvent() of every monitor and the event callback, which
\* writes the report; then the loop that resumes the threads starts.
Handle(a) ==
  /\ At(a, "handling")
  /\ todo' = [todo EXCEPT ![a] = ctx[local[a].ctx].suspended]
  /\ Goto(a, "resuming")
  /\ UNCHANGED <<shared, frame, system, ctx, suspendCount>>

\* thread_resume() of a thread that is not suspended fails and is ignored.
ResumeThread(a, t) ==
  /\ At(a, "resuming")
  /\ t \in todo[a]
  /\ suspendCount' =
       [suspendCount EXCEPT ![t] = IF @ > 0 THEN @ - 1 ELSE 0]
  /\ todo' = [todo EXCEPT ![a] = @ \ {t}]
  /\ UNCHANGED <<shared, frame, system, ctx, pc>>

Resumed(a) ==
  /\ At(a, "resuming")
  /\ todo[a] = {}
  /\ ctx' = [ctx EXCEPT ![local[a].ctx].suspended = {}]
  /\ Goto(a, IF ctx[local[a].ctx].isFatal THEN "disabling" ELSE "clearing")
  /\ UNCHANGED <<shared, frame, system, suspendCount, todo>>

Disable(a) ==
  /\ At(a, "disabling")
  /\ DisableAllMonitors(a, "awaitEnd", "clearing")
  /\ UNCHANGED <<shared, frame, alive, dropped, raises, ctx, suspendCount, todo>>

-----------------------------------------------------------------------------
(***************************************************************************)
(* endHandlingException()                                                  *)
(***************************************************************************)

\* The store goes to ctx->threadHandlerIndex.  The slot array is followed in
\* memory by handlingExceptionIndex, so a store to slot MaxSimultaneous may
\* zero it.
Clear(a) ==
  LET i == ctx[local[a].ctx].threadHandlerIndex IN
  /\ At(a, "clearing")
  /\ \/ /\ i \in Slots
        /\ threadsHandlingExceptions' =
             [threadsHandlingExceptions EXCEPT ![i] = NoThread]
        /\ UNCHANGED handlingExceptionIndex
     \/ /\ i \notin Slots
        /\ handlingExceptionIndex' \in {0, handlingExceptionIndex}
        /\ UNCHANGED threadsHandlingExceptions
  /\ Goto(a, "reading")
  /\ UNCHANGED <<isHandlingFatalException, crashedDuringExceptionHandling,
                 asyncSafeContextIndex, frame, system, ctx, suspendCount, todo>>

ReadIndex(a) ==
  /\ At(a, "reading")
  /\ expected' = [expected EXCEPT ![a] = handlingExceptionIndex]
  /\ cursor' = [cursor EXCEPT ![a] = 0]
  /\ Goto(a, IF handlingExceptionIndex = 0 THEN "returning" ELSE "scanning")
  /\ UNCHANGED <<shared, index, local, system, ctx, suspendCount, todo>>

\* One pass of the loop over all slots.
Scan(a) ==
  /\ At(a, "scanning")
  /\ Goto(a, IF cursor[a] = MaxSimultaneous THEN "swapping"
             ELSE IF threadsHandlingExceptions[cursor[a]] = NoThread THEN "scanning"
             ELSE "returning")
  /\ cursor' = [cursor EXCEPT ![a] = @ + 1]
  /\ UNCHANGED <<shared, index, expected, local, system, ctx, suspendCount, todo>>

\* Mutant of Swap: a weak compare-and-exchange, which may fail for no reason.
SwapWeak(a) ==
  /\ At(a, "swapping")
  /\ \/ handlingExceptionIndex' = handlingExceptionIndex
     \/ handlingExceptionIndex = expected[a] /\ handlingExceptionIndex' = 0
  /\ Goto(a, "returning")
  /\ UNCHANGED <<threadsHandlingExceptions, isHandlingFatalException,
                 crashedDuringExceptionHandling, asyncSafeContextIndex, frame,
                 system, ctx, suspendCount, todo>>

\* Mutant of Swap: the index is lowered by what was read.
SwapSubtract(a) ==
  /\ At(a, "swapping")
  /\ handlingExceptionIndex' = handlingExceptionIndex - expected[a]
  /\ Goto(a, "returning")
  /\ UNCHANGED <<threadsHandlingExceptions, isHandlingFatalException,
                 crashedDuringExceptionHandling, asyncSafeContextIndex, frame,
                 system, ctx, suspendCount, todo>>

\* atomic_compare_exchange_strong(&handlingExceptionIndex, expected, 0)
Swap(a) ==
  /\ At(a, "swapping")
  /\ handlingExceptionIndex' =
       IF handlingExceptionIndex = expected[a] THEN 0 ELSE handlingExceptionIndex
  /\ Goto(a, "returning")
  /\ UNCHANGED <<threadsHandlingExceptions, isHandlingFatalException,
                 crashedDuringExceptionHandling, asyncSafeContextIndex, frame,
                 system, ctx, suspendCount, todo>>

\* The monitor that called handle() goes on: it re-raises the signal, replies
\* to the kernel or exits, all of which end the process, or it returns.  Its
\* frame and its heap context are gone.
Return(a) ==
  /\ At(a, "returning")
  /\ alive' = (local[a].kind \notin EndingKinds)
  /\ Goto(a, "idle")
  /\ index' = [index EXCEPT ![a] = 0]
  /\ cursor' = [cursor EXCEPT ![a] = 0]
  /\ expected' = [expected EXCEPT ![a] = 0]
  /\ local' = [local EXCEPT ![a] = NoLocals]
  /\ ctx' = [ctx EXCEPT ![a] = EmptyContext]
  /\ UNCHANGED <<shared, monitorsEnabled, watchdog, dropped, raises,
                 suspendCount, todo>>

\* With the monitors disabled a fatal exception goes to the handlers that were
\* there before, and the process ends.
FatalUnmonitored(a) ==
  /\ ~monitorsEnabled
  /\ Active(a) /\ ~Interrupted(a) /\ Runs(a[1])
  /\ alive' = FALSE
  /\ UNCHANGED <<shared, frame, monitorsEnabled, watchdog, dropped, raises, ctx,
                 suspendCount, pc, todo>>

-----------------------------------------------------------------------------
Notify(a) == Store(a) \/ Inspect(a) \/ Check(a) \/ Drop(a) \/ CrashLoopExit(a) \/ Decide(a)
             \/ Wake(a) \/ Commit(a) \/ ListThreads(a) \/ Suspended(a)
             \/ \E t \in Threads : SuspendThread(a, t)

HandleException(a) == Handle(a) \/ Resumed(a) \/ Disable(a) \/ WatchdogGone(a)
                      \/ \E t \in Threads : ResumeThread(a, t)

EndHandling(a) == Clear(a) \/ ReadIndex(a) \/ Scan(a) \/ Swap(a) \/ Return(a)

Step(a) == Notify(a) \/ HandleException(a) \/ EndHandling(a)

\* The process is gone, or nothing is left to do in this bounded behaviour.
Finished ==
  /\ \/ ~alive
     \/ (\A a \in Acts : ~Active(a)) /\ (raises = MaxRaises \/ ~monitorsEnabled)
  /\ UNCHANGED vars

Next ==
  \/ \E kind \in Kinds, h, o \in Threads, d \in 1 .. MaxNesting : Raise(kind, h, o, d)
  \/ \E a \in Acts : Step(a)
  \/ \E a \in Acts : FatalUnmonitored(a)
  \/ WatchdogExits
  \/ Finished

Spec == Init /\ [][Next]_vars

\* The kernel runs every runnable thread.
Fairness == (\A a \in Acts : WF_vars(Step(a))) /\ WF_vars(WatchdogExits)

-----------------------------------------------------------------------------
(***************************************************************************)
(* Properties                                                              *)
(***************************************************************************)
Quiescent == alive /\ \A a \in Acts : ~Active(a)

\* Where an activation is between notify() publishing its thread and
\* endHandlingException() taking the thread out again.
Published == {"stored", "checking", "inspected", "awaitDrop", "sleeping",
              "committing", "listing", "suspending", "handling", "resuming",
              "disabling", "awaitEnd", "clearing"}

\* Where an activation holds a context of its own.
InContext == {"listing", "suspending", "handling", "resuming", "disabling",
              "awaitEnd", "clearing"}

\* endHandlingException() leaves no index behind: once every handler of a burst
\* of non-fatal exceptions has returned, handlingExceptionIndex is 0 again, so
\* the slots are not used up over the life of the process.
QuiescentIndexReset ==
  Quiescent /\ ~isHandlingFatalException /\ ~dropped
    => handlingExceptionIndex = 0

\* Every thread_suspend() of ksmc_suspendEnvironment() is matched: a process in
\* which all handlers have returned has no suspended thread, whatever handlers
\* ran at the same time, suspended one another or were nested.
QuiescentNobodySuspended ==
  Quiescent => \A t \in Threads : suspendCount[t] = 0

\* While the report of a non-fatal exception is written, every thread the
\* handler has suspended stays suspended: no other handler's
\* ksmc_resumeEnvironment() lets one run.
FrozenWhileRecording ==
  \A a \in Acts :
    pc[a] = "handling" /\ ~isHandlingFatalException
      => \A t \in ctx[local[a].ctx].suspended : suspendCount[t] > 0

\* Threads that were suspended for a report run again when no handler is left,
\* and while a report is written none of those that are in it runs.
SuspensionsSound == QuiescentNobodySuspended /\ FrozenWhileRecording

\* A recrash handler that crashes is not handled once more: a thread never has
\* two nested activations that both went on as a recrash, notifyException()
\* calls _exit(1) instead.
CrashLoopStops ==
  \A t \in Threads, d, e \in 1 .. MaxNesting :
    /\ d < e
    /\ pc[<<t, d>>] \in InContext /\ local[<<t, d>>].isCrashed
    /\ pc[<<t, e>>] \in InContext
    => ~local[<<t, e>>].isCrashed

\* The row "any | any | Y | recrash handling" of notifyException()'s table: a
\* handler that interrupts a published handler of its own thread, or that was
\* started by a fault of a thread inside a published handler, knows that it
\* deals with a recrash.
RecrashDetected ==
  \A a, b \in Acts :
    /\ a # b
    /\ pc[a] \in InContext /\ local[a].ctx # ExitCtx
    /\ pc[b] \in Published \ {"awaitDrop"}
    /\ \/ b[1] = a[1] /\ b[2] < a[2]
       \/ b[1] = local[a].offender /\ local[a].kind = "mach"
    => local[a].isCrashed

\* No handler is stuck: what notify() has begun ends with the monitor's handler
\* returning or with the process ending, though handlers suspend one another's
\* threads and wait for one another.
EveryHandlerReturns ==
  \A a \in Acts : Active(a) ~> (~Active(a) \/ ~alive)

\* A fatal exception takes the process down: other handlers, which suspend its
\* thread or are blocked, and a watchdog thread that is waited for do not keep it
\* alive.
FatalTerminates ==
  \A a \in Acts : (Active(a) /\ local[a].kind \in FatalKinds) ~> ~alive
=============================================================================
