# A verification of KSCrash

KSCrash records what an application was doing when it crashed, hung or was
terminated, keeps the reports on disk, and hands them over at a later launch. Most
of it runs where tests hardly reach: in signal handlers, on threads that others
have suspended, in a process that is about to end. This directory holds TLA+
models of these parts, TLC configurations that check them on small instances, and
proofs checked by TLAPS.

`PROJECT.json` lists the components, the runs, the lines that every definition
models, the hazards, the findings and the theorems.

## 1. Inventory

### The parts and their state

| part | source | state it keeps | operations |
|---|---|---|---|
| exception dispatcher | `KSCrashRecordingCore/KSCrashMonitor.c` | slots of the threads that are handling exceptions, next index, two flags, two async-safe contexts | `notify`, `handle`, enabling and disabling all monitors |
| suspending threads | `KSMachineContext.c` | the kernel's suspend counts, reserved threads | suspend and resume the environment |
| monitor registry | `KSCrashMonitorRegistry.c` | lock-free array of monitor APIs | add, remove, activate, disable, walk |
| monitors of crashes | `KSCrashMonitor_{MachException,Signal,NSException,CPPException,User,Deadlock,Zombie}` | what was installed before them, enabled flags | trap an exception, fill the context, call the dispatcher, end or go on |
| hang monitor | `KSCrashMonitor_Watchdog.m` | the hang slot, the timer, its thread | run loop callbacks, ping, write, update and end a hang's report |
| memory monitor, trackers | `KSCrashMonitor_Memory.m`, `KSCrashAppMemoryTracker.m`, `KSCrashAppStateTracker.m` | mapped `memory.bin`, breadcrumb report, latest footprint and state | heartbeat, pressure, state changes, check of the previous session |
| application state monitor | `KSCrashMonitor_AppState.c` | durations, launches, sessions, `CrashState.json` | load, reset, notifications, crash |
| C API | `KSCrashC.c` | configuration, path of the last report, last notification | install, event callback, notifications |
| report writer | `KSCrashReportC.c` | the open report file | standard and recrash reports |
| report store | `KSCrashReportStoreC.c`, `KSCrashReportStore.m` | the reports directory, next ID | new IDs, list, read, prune, delete, send |
| thread cache | `KSThreadCache.c` | active and frozen cache | background update, freeze, look up, unfreeze |
| image and symbol caches | `KSBinaryImageCache.c`, `KSDynamicLinker.c` | a sorted cache behind an exchanged pointer | insert, look up, fall back to a scan |
| JSON codec | `KSJSONCodec.c` | nesting of the encoder | encode, decode, merge a file |
| file utilities | `KSFileUtils.c` | buffers of a writer and a reader | buffered reading and writing, mapping |
| replacing `__cxa_throw` | `KSCxaThrowSwapper.c` | what every image was bound to, a callback for new images | swap, reset, throw |
| unwinding | `KSStackCursor*.c`, `Unwind/*.c` | a cursor | step by frame pointer, compact or DWARF tables |
| Objective-C introspection | `KSObjC.c` | the classes it has met | tell objects, classes and blocks apart, read variables, arrays and strings |
| access to memory, text and headers | `KSMemory.c`, `KSString.c`, `KSMach-O.c` | none, but a buffer for tests | copy and test memory, search for text, for an address, for load commands |
| filters, sinks, HTTP | `KSCrashFilters`, `KSCrashSinks`, `KSCrashReportingCore` | pipelines under way, reachability | filter, send, complete |
| installations | `KSCrashInstallations/KSCrashInstallation.m` | handler data shared with the crash callback | set fields, install, send |
| profiler | `KSCrashProfiler` | sample ring, open sessions | begin, sample, end |
| locks | `KSCrashCore/KSSpinLock.c` | a lock word | bounded and unbounded acquisition |

Kernel wrappers, report formatting and the Swift declarations of a report's fields
have no protocol of their own and are not modelled (section 6).

### How they interact

A monitor traps an exception on some thread and calls the dispatcher's `notify`,
which takes a slot, detects whether a handler itself has crashed, and may suspend
all other threads. The monitor fills the context it gets and calls `handle`, which
walks the registry so that every monitor adds its information (the memory monitor
marks a fatal event, the application state monitor brings its durations up to
date), calls the event callback of the C API, resumes the threads, disables the
monitors if the event is fatal, and frees the slot. The event callback notes a
crash in `CrashState.json`, takes an ID and a path from the store, and has the
report written, with names from the frozen thread cache. The hang monitor goes the
same way from its own thread, gets back the report's path, and rewrites or deletes
that file later. The store prunes at launch and sends on request.

While it writes, the report writer walks the stacks with a cursor, which looks up the
image of every address and the unwind information in it, and it looks at whatever the
registers and the stack refer to as if these were Objective-C objects or text. All of
this is memory of a process that has just crashed, so it is copied or tested with the
kernel's help before it is used. What is written goes through the JSON encoder to a
buffered file. When the monitors are disabled, each puts back what it had replaced:
ports, signal handlers, `__cxa_throw`.

### What is hard

* Handlers run on several threads at once, suspend one another, and are interrupted
  by further exceptions on the same thread (dispatcher, event callback, caches).
* Some shared state is changed by exchange or compare-and-exchange, some without
  any lock (registry, thread cache, `g_lastCrashReportFilePath`, `g_state`).
* The process may end between any two steps, and the next launch must draw the right
  conclusion from what is on disk (store, memory monitor, application state).
* Threads are resumed before the monitors are disabled, so ordinary threads run on
  beside the end of a crashed process (memory monitor, application state).
* The order of callbacks on different threads is not that of the events they tell of
  (hang monitor, state tracker).
* What the monitors replace has been replaced by others before or is replaced after,
  piece by piece, and the thing they wait for may happen between two pieces (Mach
  ports, signals, `__cxa_throw`, `dealloc`).
* Memory is read that may be damaged, freed or not there (unwinding, introspection,
  zombies), and files may be short, full or changed by others.
* Limits: slots, two async-safe contexts, monitors, reports kept, caches, buffers,
  remembered rows, levels of objects.

The list "hazards" in `PROJECT.json` gives each of these at the line where it bites,
with the properties that would catch it going wrong.

### What makes each part correct

* Dispatcher: the index is reset, suspensions are balanced, recrashes are detected,
  crash loops end, no handler is stuck, a fatal event ends the process.
* Registry: only a removal removes, nothing is listed twice, a walk misses nobody,
  a monitor is initialised before it is enabled.
* Hang monitor: if the process is terminated because of a hang, the report is there;
  if the hang recovers, it is not; a disabled monitor's thread exits.
* Thread cache: no pointer is left to a freed cache, however many reports are written
  at once; while one is, no cache is lost and it always comes back.
* Store: no report is lost, replaced, hidden or deleted out of order.
* Event callback and writer: IDs, results and recrash reports belong to the handler
  that they are given to; a recrash loses nothing that was written.
* Memory monitor: every OOM in the user's sight is reported, once; exits and crashes
  are not OOMs.
* Application state: durations, launches and sessions are right, a crash is remembered,
  and nothing but a crash or a hang is taken for one.
* Handlers of Mach exceptions and signals: what was there before is back afterwards and
  is told, in every order of faults, and nobody waits for an answer that never comes.
* C++ exceptions and `__cxa_throw`: a throw always reaches an original, a trace is that
  of the exception it is reported with.
* Zombies: the class kept for an address is that of the object freed last.
* Files and directories: what was accepted is in the file once, what is given out is
  the file's, and only what is inside a directory, or inside one that a link in there
  refers to, is deleted with its contents.
* Writer: a fault loses no earlier section; a walk over memory ends and keeps away from
  restricted classes.
* Unwinding: the entry, the row and the caller are those the tables define.
* Introspection, memory, text, headers: nothing is taken for what it is not, nothing is
  read that cannot be, nothing is written beyond a buffer.
* Image and symbol caches: one user at a time, always sorted, and no answer that a
  lookup without them would not give.
* JSON codec: what is written is well-formed whatever was cut short before, and a
  file that is merged is taken over as it is; strings and numbers are read as they were
  written.

## 2. Modules and how they correspond to the code

Names follow the source. One action is one access to shared state, or a group of
accesses that no other step can tell apart; what a lock covers is one action.

**`KSCrashMonitor`**. An activation is one run
of `notify` and `handle` on a thread; a fault in a handler stacks another activation
on the same thread, so activations are pairs of a thread and a level. `Raise`
(entering a monitor, taking an index), `Store`, `Inspect`, `Check` (the loop that
looks for the thread), `Drop`, `CrashLoopExit`, `Decide`, `Wake`, `Commit` (flags and
context), `ListThreads`, `SuspendThread`, `Handle`, `ResumeThread`, `Disable`,
`WatchdogGone`, `Clear`, `ReadIndex`, `Scan`, `Swap` and `Return` follow
`notifyException`, `handleException` and `endHandlingException` line by line. The
kinds of exception stand for what the monitors ask for and what they do afterwards.
A store past the last slot may zero the index behind the array: the outcome of
undefined behaviour is a choice.

**`KSHangMonitor`**. The main thread's run loop callbacks and the watchdog thread's
ping; files are "none", "fatal" (a timeout that killed the application) or "hang".
Reporting of recovered hangs is off, as in the source. Left out: failures of the file
system while a report is rewritten, observers, enabling again after disabling.

**`KSThreadCache`**. A cache is its address. `Acquire`, `Build`, `BuildFails` and the
freeing are the background thread's; the writers, which may be several at once, freeze
(two exchanges and a store), read and unfreeze, and may fault at any point.

**`KSCrashMonitorRegistry`**. One step per load, compare-and-exchange or call of a
monitor, for each operation; `kscm_addMonitor` with its `init()` afterwards.

**`KSCrashReportStore`**. An ID is a pair of a second and a counter (61 bits of time and
counter in the source, ordered in the same way; the counter stays below 2^23). A
listing taken while files disappear has unset entries, as in the code.

**`KSCrashC`**. `onExceptionEvent` by several handlers at once, each step of the
recrash report (rename, open, merge, close), and faults. A report whose path the
monitor supplies is written elsewhere and only passes through.

**`KSCrashReportC`**. `kscrashreport_writeStandardReport()` as the list of its sections, each
flushed before the next is begun, with a fault in any of them; where the handler is, is a
position in `Order`. An empty object for the user is left in the buffer until the callback
that may fill it. Further, the threads that are captured and written; and the user's JSON,
which threads replace under the spin lock of `KSSpinLock.c` while the handler asks for it
within a bound and then goes on without; it gives the lock back after the flush. A handler
may have stopped the thread that has the lock, or be on it.

**`KSMemoryContents`**. The walk of `writeMemoryContents()` and its callees over what
registers, stack and an exception's reason refer to. They call one another, so the
calls to come are a list. Memory is any graph of objects, circles included. An object's
variables are taken from the limit together, before any of them is written, and are all
written then, so that elements and levels may go beyond the limit; `WithinLimit` says by
how much.

**`KSCrashMonitor_Memory`**. Sessions that end in every way at every point, `exit()` on
any thread among them, with and without `UIApplication` (the run has it, the proof covers both). Only "critical or worse" is
told apart; the limit is fixed, so the level is a function of the footprint.

**`KSCrashMonitor_AppState`**. `CrashState.json` is the sequence of the fields that can
be read before the first error; a field is written per step, and a crash handler may
save the file while the main thread is writing it. Time passes at every point, the
installation included; a hang is noted as a crash, and recovers or kills the process. Left
out: the version, digits of two writers that join to a different number, launches into the
background, and a hang before the installation is complete.

**`KSDynamicLinker`** and **`KSImageLookup`**. `ksdl_init`, `ksbic_init`, dyld's notifier,
`ksdl_dladdr` and the three lookups of `KSBinaryImageCache.c`, by callers that take each
cache by exchanging its pointer for NULL and go without it if they get NULL. An image is
its segments and symbols, with addresses as small numbers; the segments of two images
may lie between each other, as in dyld's shared cache. `KSImageLookup` is what a lookup
promises: the image and the symbol that a scan of the loaded images gives, with no
cache at all. `KSDynamicLinker!LinkerImplements` is the refinement. `LinkerAssumption`
says that an address which is looked up is in the segments of at most one image, and that no
two images start at the same place; other segments may be shared, such as `__LINKEDIT` in
dyld's cache. It also gives the type of an image's content. Left out: the reset for tests.

**`KSJSONCodec`**. The encoder's nesting and commas, `decodeElement` one callback at a
time, and the file buffer with its refills, as `kscrashreport_writeStandardReport` and
`kscrashreport_writeRecrashReport` use them: any sections, the user's JSON, the user
callback, a fault that leaves any prefix of the report in the file, and the decoding of
that file into the recrash report. A piece of JSON is one token. Left out: pretty
printing, failing writes, and the Objective-C layer.

**`KSJSONText`**. What a token is made of: `appendEscapedString` portion by portion,
`decodeString` byte by byte with `\u` and pairs of `\u`, the forms of floating point numbers,
and `decodeElement`'s digits with a word of 6 bits. What `snprintf()` prints and `sscanf()`
reads is given. It is a unit of `MCUnwinding`.

**`KSFileUtils`**. `KSBufferedWriter` over a `write(2)` that may take part of what it is given
or fail, `ksfu_readEntireFile()` beside it, and `KSBufferedReader` with its search for a
separator, after a close or a crash. A byte is its place among what was written, so that
every loss, repetition and change of order can be seen.

**`KSDirectories`**. `ksfu_deleteContentsOfPath()`, with its recursion as a stack of calls,
and `ksfu_makePath()`: every call of the file system is a step, and a crash on another
thread may create files in between. The tree has symbolic links, and a path is resolved as
the kernel does it: `stat()`, `opendir()` and `mkdir()` follow the links on the way, and
`stat()` and `opendir()` a last one as well, up to a number of links; `remove()` does not
follow the last one.

**`KSCrashMonitor_MachException`**. The two handler threads, the restore points, and
`install()`, `uninstall()` and `deallocExceptionHandler()`, with a kernel that may refuse
every call. The kernel is external: a fault sends a message to the task's port and waits
for the reply. Faults come on two threads and inside the handlers.

**`KSCrashMonitor_Signal`**. `install()` and `uninstall()` signal by signal, with a `sigaction()`
that fails, and handlers as frames on the stacks of two threads, since a signal may
interrupt either function and another handler.

**`KSCxaThrowSwapper`**. `ksct_swap()`, `ksct_swapReset()`, the callback for new images and the
decorator, one step per access; nothing of it is locked. **`KSCrashMonitor_CPPException`** is
what happens on top of it: throwing, catching, rethrowing, terminating, and the
thread-local trace.

**`KSCrashMonitor_Zombie`**. Two threads free objects whose addresses share a slot and are used
again, field by field; a crash may look at any time.

**`KSDwarfReader`**, **`KSDwarfRules`**, **`KSDwarfUnwind`**. Numbers and encoded pointers out of bytes
that may end; register rules and expressions; the search for an FDE, the row machine with
its bounded stack of remembered rows, and the application of the row. Encodings of one
instruction's operands are not told apart. Left out: personality and LSDA, which the
code reads past.

**`KSCompactUnwind`**. `kscu_findEntry()` with both of its binary searches, one comparison per
step, over regular and compressed pages.

**`KSStackCursor`**. `advanceCursor()` of `KSStackCursor_Unwind.c` on four processors, with the
decoders of compact encodings, the rules of `KSDwarfRules` and frame pointers, in any
order of methods. The stack is laid out from the functions on it, so that the true
backtrace is known. Left out: which registers x86's permutation names.

**`KSObjC`** and **`KSObjCStrings`**. Validation of pointers and classes, instance variables,
arrays, blocks, the cache of classes, and an exception's name and reason; the copying of
UTF-16, byte and tagged strings into a buffer. A read of what cannot be read is a fault.
Left out: descriptions, dates, numbers, dictionaries.

**`KSMemory`**, **`KSString`**, **`KSMachO`**. Copying and testing memory in halves and in buffers; the
check of UTF-8 and the search for a hexadecimal address; the search of a header's load
commands, segments and sections, the description of an image and its crash information.
Words are 8 bits wide where arithmetic may wrap.

**MC modules.** `MCKSCrashMonitor`, `MCLiveness`, `MCRecording`, `MCReport`, `MCFiles` and
`MCUnwinding` put parts that share no state into one run: a variable `unit`, fixed in the
initial state from the constant `Units`, says whose behaviour it is, and the others stay as
they are. Such a module
EXTENDS the parts whose properties are proved as well, and the run checks these
definitions themselves; it takes the others with INSTANCE, and a property of theirs is a
conjunction in the MC module.

| module | EXTENDS | further units |
|---|---|---|
| `MCKSCrashMonitor` | `KSCrashMonitor`, `KSCrashMonitorRegistry`, `KSCrashMonitor_AppState` | |
| `MCLiveness` | `KSThreadCache` | the dispatcher, under fairness |
| `MCRecording` | `KSCrashMonitor` (recrashes), `KSCxaThrowSwapper`, `KSCrashMonitor_MachException`, `_Signal`, `_CPPException`, `_Zombie` | |
| `MCReport` | `KSHangMonitor`, `KSCrashC`, `KSDynamicLinker` | |
| `MCFiles` | `KSCrashReportStore`, `KSCrashReportC`, `KSMemoryContents` | JSON, buffered files, directories |
| `MCUnwinding` | `KSCrashMonitor_Memory` | unwinding, introspection, access to memory, text and headers |

In `MCKSCrashMonitor`, `MCFiles` and `MCUnwinding`, the constant `Units` says which of them a run
is about.

## 3. Runs

Every property has a mutant: a changed definition, of the kind a slip in that code
would be, under which TLC finds the property violated.

### Runs that pass

| run | properties | what it shows |
|---|---|---|
| `concurrent` | `QuiescentIndexReset`, `SuspensionsSound`, `RegistrySound`, `RegistryKept`, `CountsExact`, `CrashKnown` | three threads, three non-fatal exceptions: the index is reset, suspensions are balanced, recorded threads stay frozen; two threads that add, remove, activate, disable and walk a list with room for three: only removal removes, no duplicates, walks are complete; two launches with time passing anywhere, hangs that recover or kill: durations, launches and sessions are exact but for what is named (below), a crash is remembered, nothing from before it counts as since it |
| `liveness` | `ReadersHoldLiveCache`, `NoCacheLost`, `CacheReturns`, `HandlersEnd` | two writers that may fault, allocations that may fail: no pointer is left to a freed cache, at most one cache leaks, and until the two have frozen at once none does, none is read that was freed, and the cache comes back; a thread and the hang watchdog, more exceptions than slots: every handler returns or the process ends, and a fatal exception ends it, although the watchdog thread has to be stopped first |
| `recording` | `RecrashDetected`, `CrashLoopStops`, `SwapSound`, `MachSound`, `SignalsRestored`, `TraceExact`, `ZombieExact` | nesting up to three, two Mach handlers: every recrash is recognised and a crash loop ends the process; `__cxa_throw` is swapped and put back up to three times, with a slot for the image that is there at the start and none for the one that is loaded later; Mach ports and signal handlers are handed on and put back with faults at every point; a C++ trace is that of its throw; zombies are those freed last |
| `unwinding` | `CFIExact`, `ImageExact`, `BacktraceExact`, `ObjectsExact`, `TextExact`, `OOMExact` | numbers, rows, entries and backtraces are those the tables define; memory is copied up to its first hole; objects, classes and blocks are told apart, and in damaged memory only reads that nothing checks may fault; strings are copied and text recognised exactly; strings and numbers come back from JSON; headers are searched and images described by their own commands; two sessions of the memory monitor, `exit()` on any thread: ends are reported at most once, an OOM in sight is reported, and an exit is none, unless a change of the state on another thread crosses it |
| `files` | `NoReportLost`, `StoreKeepsReports`, `ReportWellFormed`, `FileUtilsExact`, `SectionsKept`, `MemoryBounded`, `NothingElseDeleted` | crashes, user reports, deletions, sends and relaunches: nothing is lost or replaced, the oldest reports are pruned; reports cut short anywhere and merged are well-formed; buffered files are exact with short and failing writes; sections survive a fault; the walk over memory stays within its limit and keeps out what is restricted; nothing is deleted but what is inside a directory, or inside one that links in there lead to |
| `report` | `TerminationIsReported`, `ReportsKept`, `LinkerCachesSound`, `LinkerImplements` | two handlers and a fault at any point: reports are whole when told of, a recrash is merged with the report it interrupted and destroys nothing; two lookups beside images that are loaded: the caches have one user at a time, stay sorted, and implement the lookup without caches; three hangs, disabling at any point: an attached report is on disk until the main thread ends the hang |

Each run also checks one type invariant, `UnitsTypeOK`, of all its parts.

### Runs that find a disagreement

Each of these checks one sentence of a comment, a header or a document against what
the code does, and TLC finds a behaviour that contradicts it. The findings in
`PROJECT.json` quote the sentence. Further sentences that the code does not keep have no run of
their own; the table after this one names them, each with the line where it says so.

| run | what happens |
|---|---|
| `missed_recrash` | two threads report exceptions at once; the index is reset while one of them has taken its index and not stored itself (`KSCrashMonitor.c:148`), and an exception in its handler passes for the first one of its thread |
| `hang_recovered` | a hang that recovers while its report is written or updated leaves a report of a fatal timeout on disk |
| `file_merge` | after a short read `updateDecoder_readFile` leaves `bufferEnd` where it is: of a report that is longer than the buffer and was cut short, what the previous fill left in the buffer is decoded again |
| `backtrace` | on ARM, the link register is taken for the caller of the first function even if that function has called another one since and is described by the tables; its caller is then missing from the trace (`KSStackCursor_Unwind.c:407`) |
| `cache_freed` | two handlers freeze the thread cache at once; the first hands it back, `updateCache()` frees it, and the second goes on reading names from it |
| `false_crash` | a hang is noted in `CrashState.json` as a crash when it is reported (`KSCrashC.c:210`); it recovers, the mark stays, and the next launch says that this one crashed |

### What the properties take for granted

Some properties hold under a condition, which their statement or the configuration
of the run names. The models contain what happens without it; TLC finds these
behaviours once the condition is dropped.

| part | condition | without it |
|---|---|---|
| dispatcher | `QuiescentIndexReset`: no fatal and no dropped exception | after a flood the index is never reset, as intended |
| dispatcher | `RecrashDetected`: one application thread, beside the two Mach handlers | the run `missed_recrash`: the index is reset under a thread that has taken one and has not stored itself, and a recrash of it is taken for a first crash |
| dispatcher | none | the exception whose index equals `MAX_SIMULTANEOUS_EXCEPTIONS` has no slot and is handled all the same, where the comment says that it is dropped (`KSCrashMonitor.c:250`) |
| dispatcher | at most two fatal signals at once | a third one shares an async-safe context with the first (`KSCrashMonitor.c:164`) |
| dispatcher | `HandlersEnd`: no recrash | a recrash does not resume what the interrupted handler suspended, and `kscm_disableAllMonitors` may wait for a suspended watchdog thread |
| dispatcher | none | a hang reported while the main thread is inside a report of its own looks like a recrash and is handled as fatal; the process goes on without monitors (`KSCrashMonitor.c:270`) |
| hang monitor | none | a ping under way when the run loop becomes idle claims the slot for a hang that is over; if the monitor is disabled during a ping, `dealloc` runs on the watchdog thread and waits for it (`KSCrashMonitor_Watchdog.m:328`, `:188`) |
| thread cache | `ReadersHoldLiveCache` (what is being read), `NoCacheLost`, `CacheReturns`: no two writers have frozen the cache at once; for `NoCacheLost` also that none has faulted | the run `cache_freed`; or the second freeze stores NULL over the frozen cache (`KSThreadCache.c:239`), which nobody hands back, and updates do not "resume" (`KSThreadCache.h:61`); one cache is lost at the most |
| thread cache | `CacheReturns`: the first cache could be created | NULL means "taken", so that there is never one |
| registry | `RegistryKept`: the monitor is never removed | a removal between the two passes of an addition may let it drop the last copy |
| registry | `RegistryKept`: nobody is adding the monitor | it moves to an earlier hole behind the walk |
| registry | none | a monitor may be enabled by another thread before its `init()` has run, and is added again, with `init()`, if there is a hole before its entry |
| store | `NoReportLost`, `StoreKeepsReports`: the clock goes forward, and one store is made in a second | a report after the clock was set back is pruned first; a store made again in the same second repeats IDs |
| store | none | what is written during a send is deleted with what was sent; a report deleted between counting and listing hides another one from the list (`KSCrashReportStore.m:98`, `KSCrashReportStoreC.c:116`) |
| event callback | `ReportsKept`: the path of the last report is the faulting handler's own | the path is one global: a result or a merge may name another handler's report, and before the first report it is empty |
| memory monitor | `OOMExact`, its part `ExitNotOOM`: an application with `UIApplication`, and no change of the state on another thread that comes after `exit()` or is still being told | the exit is reported as an OOM, against the comment at `KSCrashAppStateTracker.m:286`: the observers are told outside the lock, so that the other change may come last (`:261`); without `UIApplication` the callback returns at once (`:271`) |
| memory monitor | `OOMExact`: killed for the footprint | a change of the pressure alone is not noted (`KSCrashMonitor_Memory.m:223`) |
| memory monitor | none | a heartbeat between resuming the threads and disabling the monitor loses the mark of a fatal event (`KSCrashMonitor_Memory.m:162`) |
| application state | `CrashKnown`, its part `NoneInvented`: a hang counts as a crash, and "since the crash" is since the hang | the run `false_crash` |
| application state | `CountsExact`, its part `DurationsExact`: what a notification that was kept back adds of the installation is added on the other side, too | the time that the installation took is added to the active time, although the application was inactive (`KSCrashMonitor_AppState.c:371`; "total active time elapsed since launch", `KSCrashMonitor_AppState.h:58`) |
| application state | `CountsExact`, its part `SessionsExact`: sessions that another notification followed before the installation, and those after the last save of a process that was killed, are set off | the first are overwritten by the later notification (`KSCrashC.c:169`); the others are counted in memory only (`KSCrashMonitor_AppState.c:391`), and missing in "sessions [...] since last crash" (`KSCrashMonitor_AppState.h:55`) |
| application state | `CountsExact`, its parts about launches and about sessions since the crash: no save was cut short | a file that was cut short counts from 0 where it ends |
| application state | `CrashKnown`: the process does not end in the middle of the main thread's save after the crash | that save has truncated the file |
| linker | none | `ksbic_getUnwindInfoForAddress` returns true and leaves `*outInfo` unset, against its header, if the image was found by a scan and the cache is full (`KSBinaryImageCache.c:704`) |
| linker | none | a second caller of `ksdl_init` returns while the first is still at it, and its lookups find nothing until then; an image that is added while the cache is taken is not cached until a lookup finds it by a scan |
| JSON codec | `ReportWellFormed`: the user's JSON begins with an object or an array | nothing is opened for it, `endContainer` closes the report instead of the user's section, and what follows is outside |
| JSON codec | none | if the user's JSON is incomplete, what it opened stays open, and the section after it is inside the user's |
| JSON codec | `ReportWellFormed`: an element, with its name, is no longer than half of the buffer | the buffer is only filled up between elements, so that the merge stops there; and so it does at a text of 500 bytes or more |
| JSON codec | `TextExact`: a pair of `\u` is a character 0x10000 too low, as the tests have it too | `KSJSONCodec.c:825` combines the 20 bits and adds nothing |
| JSON codec | `TextExact`: every byte of the string can be written; the bytes behind `\u` are ASCII | at a byte that cannot be, its portion and the rest of the string are dropped, and the string is closed; the digits' table is indexed with a signed `char` |
| JSON codec | less than 200 levels | the level is not compared with the size of `isObject` (`KSJSONCodec.c:507`) |
| `__cxa_throw` | `SwapSound`: `mprotect()` refuses nothing, there is a slot for every image, and none is loaded between the scan of `ksct_swap` and its registration | an image that is refused, without a slot or missed keeps its original; a throw still reaches an original |
| `__cxa_throw` | `SwapSound`: no callback for a new image is under way during a reset | it goes on after the reset: the image stays decorated, and a later swap may record the decorator as its original, which then calls itself |
| Mach monitor | `MachSound`: no fault while `install()` is between its two handlers; the kernel refuses nothing; no second thread waits at a port that is given up | the primary handler hands the task back to a secondary one that is busy, and the two wait for each other; the process ends before the earlier handlers are told |
| signal monitor | `SignalsRestored`: the signal does not come before `install()` has returned, nor on a thread that is inside `uninstall()` | handlers are put back that were never stored, and `install()` goes on installing behind them; the alternate stack may be freed under a handler that runs on it |
| C++ monitor | `TraceExact`: the last throw of its thread, which had enabled the monitor itself, or has never set it and has not rethrown | the flag is thread-local, and the trace is that of an earlier throw or of the handler; `terminate` without any exception reads the type of one (`KSCrashMonitor_CPPException.cpp:132`) |
| zombie monitor | `ZombieExact`: no two threads write the same slot, or the last exception, at once | an address with the class of another object; the name of one exception with the reason of another. An exception without a name or reason keeps those of the one before |
| files | `FileUtilsExact`: no write has failed | the buffer is kept after a failed write whose beginning was taken, so that these bytes are written twice; closing does not say that its flush has failed; a `'\0'` in the file ends a line; the descriptor 0 is taken for a closed file |
| directories | `NothingElseDeleted`: the directories that links inside the directory refer to count as inside | `stat()` follows a link to a directory elsewhere, and what is in there is deleted (`KSFileUtils.c:140`), against "delete the contents of a directory" (`KSFileUtils.h:161`) |
| writer | `SectionsKept`: the user's JSON is in the report if the lock is free, or comes free, while the handler asks for it | the handler goes on without the lock and leaves the user's JSON out; an empty object for the user is in the buffer when the handler faults, and is lost |
| DWARF | `CFIExact`: no more rows are remembered than there is room for (eight) | the row is not kept, and a later restore takes an older one |
| unwinding | `BacktraceExact`: the cases that `Sure` lists | see the comment there: a method for every function, a link register that still holds, frame pointers that were not reused |
| introspection | `ObjectsExact`: whole memory for the answers; any damage for the faults, which are said to come only from the reads on the right | what `ksobjc_objectType` calls an object need not be "accessible" (`KSObjC.h:88`): a superclass's name, the first variable, an object's contents, and an exception without variables are read without a test; a class of blocks passes for a block; of two classes with one name the first one's kind is taken, also when it has been freed since |
| text | `TextExact`: the buffer has room for a tagged string's terminator; digits that fit in a word | the terminator is written behind a small buffer; further digits are dropped, and one byte behind the length is looked at |
| memory | `ObjectsExact`: a test that says yes is about no more bytes than the buffer holds | of more bytes only the beginning is tested (`KSMemory.c:93`), against "true if the memory can be safely read" (`KSMemory.h:41`); `ksmem_maxReadableBytes` counts whole buffers, so that crash messages longer than `KSDL_MaxCrashInfoStringLength` are accepted; `ksmem_copyMaxPossible` copies a byte for a count of 0 |
| headers | `ImageExact`: one `__TEXT`, one UUID and one dylib command | the last one counts |

### Bounds

The instances are small on purpose. The safety properties that section 4 lists are
proved for every value of the constants; for these, TLC shows that the formula is not
void, that the interesting steps happen, and that its mutant is caught. For the others
the bounds are those at which every case of the code is met.

Threads: two or three handlers, because the races are between a handler that takes an
index, one that ends, and one that scans; two on a list of two monitors with room for
three, so that there may be a hole before, between and behind copies. Slots: one to three, at most
as many as exceptions, and fewer where the limit matters. Nesting three: a handler, its
recrash, and the crash of that. Exceptions: three or four, enough for an index that is
reset and used again. Hangs: three, so that a slot is used again while an old hang's work
is still going on. Reports: three or four with two kept, so that pruning, an ID after a restart
and a report made during a send all happen, in two seconds, so that two reports may have
their time in common. Writers of reports beside the thread cache: two, with three caches, so that
one can be frozen twice and freed while another is built. Sessions of the memory monitor: two, one that ends in any way and one that may
report it; what a session leaves is all that the next one reads. Launches of the
application: two with two ticks, one session and one other event beyond those of the
launches, since what a launch leaves to the next one is its file. Linker: two callers, one of which may be suspended for
good, three images, a cache of two images and one of one symbol, so that both are full
and an entry is replaced, and a count of hits that stops at one, since with one symbol
there is no choice which entry goes; the two callers do the same, and TLC takes them for one another
(`CallerSymmetry`). JSON: a buffer of 16 pieces, which a report of two elements fills
more than once, three levels, and texts of up to two pieces. Ticks: one to four per
behaviour.

Monitors: two signals, one of them ignored before, on two threads; two faulting threads
and both Mach handlers; two images, the second of which is loaded later, with one slot,
which is enough until then, and three swaps or resets; two exceptions on two threads; two addresses in one
slot. In each of these units two threads or handlers do the same, and TLC takes them for one
another; a behaviour is one of a single unit, so exchanging all the pairs at once is
enough (`Symmetry` in `MCRecording`). Files: five bytes through buffers of two, with two
failing writes; trees of two levels with two files that others create, with a link to a
directory whose links lead to another one and to a file, and with one that leads back. Writer: one
thread more than is captured, two that set the user's JSON. Memory contents: every pair
of objects that refer to each other, chains of two to seven that end in a circle, and a limit
of six, so that both bounds of `WithinLimit` are reached.

Unwinding: LEB128 numbers one byte longer than a word of 16 bits needs; all programs of
up to five moving, remembering and restoring instructions with room for two rows, and
every other instruction in a short one; up to six functions on one or two pages; stacks
of up to four functions of every kind, on four processors, with a trace of four. A
runtime of five hierarchies of classes with one cell damaged in every way. Strings of
three UTF-16 units at every boundary of UTF-8 and buffers of up to 12. Memory of twelve
addresses with up to two holes, a test buffer of three and counts up to three buffers.
Texts of four, five and seven bytes as UTF-8, and of six that are searched for a number;
headers of two commands. JSON strings of five bytes
through a work buffer of four, three escapes of every kind, and all numbers of six bits.
A table, a tree or a header of these sizes has a first, a last and, where it matters, a
middle element, and the loops that go through them do the same for every further one.

All bounds are constants, or are named where an MC module gives them.

### Fairness

Only `MCLiveness` assumes any. `KSCrashMonitor!Fairness`: a thread that is not suspended or
waiting gets its turn, and the watchdog thread, once told to stop, exits when it can
run. `KSThreadCache!Fairness`: strong fairness for the background thread, which is
suspended and resumed over and over but runs in between, and weak fairness for a writer
that has begun; no fairness makes a report begin. Nothing is assumed about when
exceptions, kills, hangs or notifications come. All other runs check safety alone.

## 4. Proofs

TLAPS proves the following for every value of the constants: any number of threads,
slots, monitors, caches, reports, images, signals, sessions and launches. Each module with
proofs EXTENDS the one to four components it is about. In each, the property is not inductive, an invariant that is
has been found and checked with TLC, and the proof has one step per action.

| theorem | property | assumptions besides the module's own |
|---|---|---|
| `KSCrashMonitorProofs!TypeCorrect` | `TypeOK` (part of `UnitsTypeOK`) | |
| `KSCrashMonitorProofs!IndexAlwaysReset` | `QuiescentIndexReset` | |
| `KSCrashMonitorProofs!SuspensionsMatched` | `SuspensionsSound` | |
| `KSCrashMonitorProofs!CrashLoopsStop` | `CrashLoopStops` | |
| `KSCrashMonitorProofs!RegistryListsOnce` | `RegistrySound` | |
| `KSCrashMonitorProofs!RegistryLosesNothing` | `RegistryKept` | |
| `ReportProofs!HangKeepsReport` (and `HangTypeCorrect`) | `TerminationIsReported` | |
| `ReportProofs!ReportsAlwaysKept` | `ReportsKept` | |
| `KSThreadCacheProofs!ReadersSafe` | `ReadersHoldLiveCache` | |
| `KSThreadCacheProofs!CacheNeverLost` | `NoCacheLost` | |
| `FilesProofs!EveryReportOpens` (and `StoreTypeCorrect`) | `NoReportLost` | `ClockForward` |
| `FilesProofs!StoreKeeps` | `StoreKeepsReports` | `ClockForward` |
| `KSCrashMonitor_MemoryProofs!OOMsReportedOnce` | `OOMReported`, `ReportedOnce` | |
| `KSCrashMonitor_MemoryProofs!OOMsExact` | `OOMExact` | |
| `FilesProofs!CountsStayExact` | `CountsExact` | |
| `FilesProofs!CrashIsKnown` | `CrashKnown` | |
| `FilesProofs!ContentsBounded` | `MemoryBounded` | |
| `FilesProofs!SectionsAlwaysKept` | `SectionsKept` | |
| `TrapProofs!SignalsAlwaysRestored` | `SignalsRestored` | |
| `TrapProofs!MachAlwaysSound` | `MachSound` | |
| `RecordingProofs!SwapAlwaysSound` | `SwapSound` | |
| `RecordingProofs!TracesExact` | `TraceExact` | |
| `RecordingProofs!ZombiesExact` | `ZombieExact` | |
| `KSDynamicLinkerProofs!LinkerCachesExact` | `LinkerCachesSound` | |
| `KSDynamicLinkerProofs!LinkerAnswers` | `LinkerImplements` | |

The last column is what the table of section 3 says the property takes for granted; the
run behind each theorem has the same conditions. `ClockForward`: the clock is not set back,
and the store is initialised once in a second. The modules' own assumptions are about types and sizes, and say that
threads are finitely many and that a name with a meaning of its own, such as `NULL` or
"async" for the static contexts, is not one of theirs; TLC evaluates them in every run of
these modules. `RegistryAssumption` and `MemoryAssumption` are hypotheses of the theorems, and
TLC evaluates them in the runs. Conditions which the table of section 3 gives and this one does not are part
of the property: it says what holds until, say, a signal has come inside `install()`, and the
variable that remembers so is set by the steps themselves.

### Dispatcher

`IndexInv`. Whether the index is reset depends on which handler scans last. The invariant
says that while no exception was fatal or dropped, every activation's context holds its
own index, that an activation which has published its thread finds it in its slot, and
that, if the index is not 0, some activation is still to clear its slot or is in a scan
that can yet succeed. Without a fatal event there is no nesting that matters, so slots
are not shared.

`SuspendInv`. `Counted` is the heart of it: a thread's suspend count is the number of
handlers that hold it, those that have suspended it and not yet resumed it. This is only
true of exceptions that the process survives (`Survivable`): handlers of fatal exceptions
share two static contexts, and the list of suspended threads in them. So the invariant has
to say that only contexts of the handler's own list threads as long as the process can
survive (`ListsOwned`, `ContextTaken`), and that what cannot be survived has been noted
(`FatalNoted`). `LoopsDone` says that a loop over threads is finished before the next.

`NestInv`. Activations of a thread form a stack (`Stacked`), a recrash that is being
handled has set the flag unless it was dropped (`RecrashNoted`), and whoever is above it
has read the flag and has gone on only if it was no recrash itself (`LoopKnown`, `Knows`).
`HangsFirst` is needed since a report of a hang never interrupts a handler of its thread.

### Registry

`RegistryInv`. A monitor may well be listed twice while threads add it. The invariant
gives, for every two copies, a thread that is on its way to drop one of them
(`DuplicatesDropped`); and for every thread that has found a copy, a copy at a lower
index than where it stands (`FirstCopyKept`). The second is what keeps two threads from
each dropping the other's copy: a copy is only dropped because of one further down,
and the lowest stays. It fails if the monitor is being removed meanwhile, and is
therefore about those that nobody removes. For walks, what has been listed and enabled
since the walk began and not been visited is ahead of it (`WalkAhead`), since it has one
copy which nobody moves (`StableListed`).

### Hang monitor

`HangInv`. Hangs are numbered in the order in which they claim the slot, the hang that
the main thread is ending is no longer in the slot, and a report becomes one of a
recovered hang only after that; so nothing the two threads do to an old hang's file
touches the file of the tracked one.

### Event callback

`EventInv`. An ID is handed out once (`Numbers`), and until a handler faults each file has one
report, that of its path (`Unfaulted`). One handler faults, since none begins or ends after
that (`OneFault`), and its report is still in its file (`InFile`). `Merging` follows that report
while the path of the last report, which is one global, is still the handler's own: renamed,
beside the recrash report, merged into it. `ReportsKept` is the last two conjuncts, and needs
all of these.

### Thread cache

`CacheInv`. Nothing is assumed about how many threads write reports at once. A cache may be
in one of four places: the two globals, the background thread's `old`, and a writer's hand
between two of its exchanges. All that these hold is allocated (`Live`), what the background
thread is about to free is in no other place (`Apart`), and there is one cache in use in one
place, however the writers' exchanges and stores are interleaved (`OnePlace`). So no pointer
is left to what is freed. `Local` says what a writer's variables hold at each point, and
`Alone` that until two writers have frozen the cache at once, the only one that reads reads
the frozen one. "At once" is the history variable `overlapped`, which the second `Freeze` sets.

`LeakInv` rests on `CacheInv`. A lost cache was the only one in use, so that once there is one,
there is nothing left to lose (`OneLost`): the bound of one cache holds of any number of
writers. Until two overlap or one faults, the frozen cache has a writer that will take it
(`Kept`).

### Report store

`StoreInv`. The next ID comes after every ID that has been handed out, also after the
one a writer has not used yet (`Handed`), and the order of IDs is that of the reports,
the one that is being opened included (`Ordered`). The next second begins after all IDs of
this one, so a restart keeps the first part; that is where `ClockForward` is used.
`Numbered` bounds what is on disk, so that listings are long enough and `Smallest` finds
enough to prune: its proof counts by the rank of an ID among all IDs.

### Memory contents

`ContentsInv`. What has been written and what is still to be written are counted together:
they are as many as the limit has been lowered, or fewer, but for the last object whose
variables came at once (`Spent`), and none is deeper than that (`Deep`). The second bound
holds on its own only because an object makes calls while the limit is positive, and the
first because an array makes one call and has paid for itself. `Spared` says of the calls
to come what `RestrictedKept` says of the elements. The graph may have any shape.

### Sections of a report

`WriterInv`. `LockHeld` says that the lock is with the one who is inside, and with the
handler from its request to the flush of the user's section; so no one gives back a lock
that is another's, although `ks_spinlock_unlock()` would. The string is alive but for the
time in which it is replaced, and that is inside. `InBuffer` says that the buffer holds
the section being written, an empty user's section, or the last one, and never two; `OnFile`,
that the file holds those that were passed, in order. From these a flush adds just what is
missing, at any point (`Flushed`). `ThreadsListed` says that the crashed thread is in the list
once, which `getThreadList()` ensures also when there are more threads than it captures.

### Memory monitor

`MemoryInv`. A termination that is due travels from the mapped file of one session to the
previous data of the next and into its report (`Carried`), and is never in two of these
places once it is reported (`Once`, `Owned`). That the file does tell of it is `Saved`: a
footprint is noted before it has grown by the least change that counts, and no fatal event
is marked before there is one. For `OOMExact`, `Told` says that the observer has been told of
the present state or is just being told, unless `exit()` was called on another thread, and
`Exited` that a session which ended with `exit()` has left a file that looks like no OOM,
unless a change of the state has crossed the exit. Which sessions these are is the history
variable `disturbed`: `exit()` found another thread telling a change, or the state changed on
another thread after it. Nothing is assumed about where `exit()` is called.

### Application state

`AppStateInv`. A file that was cut short holds the first fields, or fields of two saves
next to each other; `Marked` and `Remembered` say that its first field always tells
whether the launch that wrote it crashed, and that a crash which was saved stays there
although the main thread goes on saving. `Measured` and `Since` relate the durations, with
the time not added yet, to those the application really spent: equal for this launch, and no
more since the last crash; a notification that is replayed at the end of the installation
adds what it counts of it to both sides. `Follows` relates the flags to the last
notification, without which a notification could count twice. `Whole` says what is exact as
long as no save was cut short.

`SessionsInv` is about sessions, and rests on `AppStateInv`. A session is counted when it is
resumed, so of this launch only those are missing that another notification followed before
the installation (`ThisLaunch`), and the one that is kept back is counted at its end. None is
added, in the state or in the file (`NoSessionAdded`). As long as no save was cut short,
those that the file does not have are those missed and those since the last save, which are
missed when the process is killed (`SessionsKept`).

### Signals

`SignalInv`. Handlers are frames on stacks, each may run `uninstall()`, and all
of them share an array of actions, one state, and one alternate stack. Whatever happens,
our handlers are put in place once and by `install()` (`OnceOurs`), and unless two handlers have
met there is one (`Alone`). Until a signal has come inside `install()` or `uninstall()`, what
`install()` has stored and replaced is a prefix of the signals (`InstallSteps`); what is
being restored is a suffix of them, by the innermost frame of its thread (`Restoring`); nobody
else restores meanwhile, and somebody does until all is restored (`OneRestores`). `StackShared`
says who may still be on the stack that was freed. A delivery and a signal raised again push
the same frame, and share the lemma `DeliverKeeps`.

### Mach exceptions

`MachInv`. There are two handlers and any number of threads that fault, the handlers among
them, and every call of the kernel may be refused. `Started` follows `install()` for the
secondary and then the primary handler, and says whose ports each has saved: those of the
system for the one, those of the secondary one for the other. `Alive` ties a port to its
handler, and requests to ports that exist. That is enough for `NobodyHangs`, but for
handlers which wait for each other: this needs `InOrder`, that a request reaches the
secondary handler only after the primary one has handed the task on. `InOrder` is lost if a
fault comes inside `install()`, and the property says so. `Reporting` says that what is being
answered has been reported, and `HandedBack` that a handler which answers has put the ports
of the system back; they give `ChainKept`, unless the kernel has refused something.

### C++ exceptions

`CppInv`. The flag for traces belongs to a thread and is set by whoever enables the
monitor. `Takers` says that the thread which has enabled it has its flag set outside the
handler, and that a thread which has never called anything has no flag and an empty cursor.
`Traced` is the property before the fact: while an exception that was to be traced is the
last one its thread has thrown, the cursor has its trace. The report only copies it
(`Reported`, `Unhandled`).

### Zombies

`ZombieInv`. An address and a class are stored one after the other, and so are the fields of
the last exception, without a lock. `Owning` says that two threads never free the same
object, and `Replacing` that nothing is recorded before `dealloc` is replaced. `Whole` is
about a slot that is not torn: whoever is between its two fields is there alone, and
otherwise its class is that of the object being freed at its address, or freed there last
(`Written`). `Unmixed` says the same of the last exception: there is one thread in it, which
has stored its address, and its own name before its reason, or one that could not be copied.

### `__cxa_throw`

`SwapInv`. Nothing in `KSCxaThrowSwapper.c` is locked, so the invariant has three layers. Always:
where each function stands (`Phases`), that whoever rebinds has read a function in a loaded
image (`Rebinding`), that the fallback was stored before the first image was decorated
(`Fallbacks`), and that a thread which found an entry found a function in it (`Finding`);
from these, a throw always ends in a call. While no callback has overlapped a reset, nobody
reads the decorator where he looks for an original (`Alternate`, `Originals`); from these, a
throw never ends in the decorator. While also nothing was refused, a binding is the image's
own or the decorator (`Own`), the slots in use are the first `count` (`Empty`), the one being
filled is the last (`Filling`), every decorated image has its original in a slot that a reset
has not passed (`Recorded`), and every loaded image is decorated or about to be, or was missed,
or the table was full (`Covered`); from these, after a reset every image calls its own function,
and after a swap the decorator.

### Image and symbol caches

`LinkerInv`, and a refinement. `Exclusive` says that a cache which a caller holds is not
behind its pointer and not with another; `SetUp`, that there is one caller in `ksdl_init` and
that it puts the caches behind their pointers one after the other; `Places`, what a caller
holds and has found at each point. `Entries` says that the image cache is sorted and holds
listed images only, and that what a lookup is about to insert is not in it; `Answers`, that
every symbol entry, and every result that is about to become one, is what a lookup without
caches would say.

The steps need what the recursive functions compute, for every cache and every image:
`binarySearchCache` gives the place where an image is or belongs (`SearchExact`), insertion
keeps the cache sorted (`InsertExact`), the search of a symbol table gives the best
match (`BestMatchExact`), inserting a list of images keeps the cache sorted and within its
size (`PutExact`). Each is proved from a counterexample at the least distance of
the ends, or by following the function's values. Since a looked-up address is in
one image at most, and the way back from the search passes every image that begins before it
(`HitsExact`), the image that is found through the cache and the one that a scan finds are
the same, although ranges overlap; that is the heart of `SimulatesNext`, in which every step
that ends a lookup is one of `KSImageLookup` and all others are stutters.

### What only TLC checks

* Liveness (`CacheReturns`, `HandlersEnd`): TLAPS proves nothing about fairness here.
* `RecrashDetected` is not true of every instance: with two application threads there is
  a behaviour without it (the run `missed_recrash`). It is checked where it holds.
* What most recursive definitions compute for every input: JSON text, LEB128 numbers, DWARF
  programs, the compact table, searches of text, conversions of strings. The runs
  enumerate small inputs instead. The exceptions are the binary search, the insertion and
  the symbol search of `KSDynamicLinker`, which are functions over intervals of numbers.
* The other safety properties of JSON, files, unwinding and introspection
  (`ReportWellFormed`, `FileUtilsExact`, `CFIExact`,
  `ImageExact`, `BacktraceExact`, `ObjectsExact`, `TextExact`), and all runs that find a
  violation. Most of them say what an algorithm returns for a text, a table or a stack, and
  their proofs would be inductions over these data.

## 5. Plan

Everything that was planned is modelled, and of the safety properties that are about
threads, signals, faults and restarts, all but `RecrashDetected` (see above) are proved.

## 6. Not modelled

* Deadlock monitor: deprecated in favour of the hang monitor, off by default.
* System, boot time and disc space monitors, processor registers and system calls: they
  copy facts of the system, and keep no state that changes.
* Installation and the Objective-C API: a configuration is copied into globals before
  any handler is installed; the callbacks in it are the application's.
* Filters, sinks, HTTP, report formatting, diagnosis and the fixer: they run at a later
  launch over finished reports, one after the other, mostly in Objective-C; what they
  do to the store is in `KSCrashReportStore`.
* Profiler and Swift report models: Swift, and no part of recording.
* Within modelled parts: pretty printing and failing writes of JSON, keys and wording of a
  report, personality and LSDA of unwind entries, x86's register permutation, and
  descriptions of objects.

The models translate about a third of the C and C++ lines. Most of the others are
tables of names and keys, declarations, wrappers of the kernel and text.
