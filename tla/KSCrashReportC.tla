---------------------------- MODULE KSCrashReportC ----------------------------
(***************************************************************************)
(* kscrashreport_writeStandardReport() of KSCrashReportC.c: the sections   *)
(* of a report, flushed one after the other, the threads in it, and the    *)
(* user's JSON, which the application replaces under a spin lock           *)
(* (KSSpinLock.c) while a handler may want it.                             *)
(*                                                                         *)
(* A handler that suspends the threads may stop one that holds the lock,   *)
(* and an exception may happen on the very thread that holds it.  A        *)
(* string is a number; the strings that are not freed are alive.           *)
(***************************************************************************)
EXTENDS Integers, SequencesExt

CONSTANTS
  Setters,       \* threads that call kscrashreport_setUserInfoJSON() and its getter
  Others,        \* other threads; the exception is on one of either
  MaxCaptured,   \* MAX_CAPTURED_THREADS
  Listings,      \* the orders in which task_threads() may list them
  Monitors,      \* monitorId of the exception
  MaxStrings     \* model bound: strings the user sets

NoString == 0
Nobody   == "nobody"
Handler  == "handler"
Threads  == Setters \cup Others

\* task_threads() lists a thread once.
ASSUME WriterAssumption ==
  /\ MaxCaptured \in Nat \ {0} /\ MaxStrings \in Nat
  /\ Nobody \notin Threads /\ Handler \notin Threads
  /\ \A l \in Listings : /\ l \in Seq(Threads) /\ l # <<>>
                         /\ \A i, j \in DOMAIN l : l[i] = l[j] => i = j

VARIABLES
  lock,       \* g_userInfoLock: who has it
  info,       \* g_userInfoJSON
  alive,      \* the strings that have not been freed
  strings,    \* how many strings have been set
  setting,    \* where each of the setters is
  got,        \* the string its getter copies
  crash,      \* what the handler knows of the exception
  place,      \* where the handler is in Order, or 0
  wrote,      \* the section there is written
  userInfoLocked, \* what ks_spinlock_lock_bounded() has said
  buffered,   \* sections that are written and not yet flushed
  sections,   \* sections on disk
  faulted,    \* the handler has faulted
  stopped     \* threads that do not run: suspended, or in the handler

userVars   == <<lock, info, alive, strings, setting, got>>
reportVars == <<crash, place, wrote, userInfoLocked, buffered, sections, faulted>>
writerVars == <<userVars, reportVars, stopped>>

\* What a report goes through: its sections in their order, the place where the
\* threads may be resumed, and the end.
Order == <<"info", "images", "process", "system", "error", "threads", "resume", "user", "callback", "debug", "end">>
Ended == 12

Crashes == [monitor : Monitors \cup {""}, thread : Threads \cup {Nobody}, list : Seq(Threads),
            all : BOOLEAN, signal : BOOLEAN, images : BOOLEAN, hang : BOOLEAN, callback : BOOLEAN]
Steps   == {"idle", "locking", "locked", "freed", "set", "copy"}

WriterTypeOK ==
  /\ lock \in Setters \cup {Nobody, Handler}
  /\ info \in 0 .. MaxStrings /\ alive \subseteq 1 .. MaxStrings /\ strings \in 0 .. MaxStrings
  /\ setting \in [Setters -> Steps] /\ got \in [Setters -> 0 .. MaxStrings]
  /\ crash \in Crashes
  /\ place \in 0 .. Ended /\ userInfoLocked \in {"unset", "yes", "no"}
  /\ {wrote, faulted} \subseteq BOOLEAN /\ stopped \subseteq Threads
  /\ \A f \in {buffered, sections} : \A i \in DOMAIN f : f[i].section \in DOMAIN Order

WriterInit ==
  /\ lock = Nobody /\ info = NoString /\ alive = {} /\ strings = 0
  /\ setting = [t \in Setters |-> "idle"] /\ got = [t \in Setters |-> NoString]
  /\ crash = [monitor |-> "", thread |-> Nobody, list |-> <<>>,
              all |-> FALSE, signal |-> FALSE, images |-> FALSE, hang |-> FALSE, callback |-> FALSE]
  /\ place = 0 /\ wrote = FALSE /\ userInfoLocked = "unset" /\ buffered = <<>> /\ sections = <<>>
  /\ faulted = FALSE /\ stopped = {}

-----------------------------------------------------------------------------
(***************************************************************************)
(* The application.                                                        *)
(***************************************************************************)
Runs(t) == t \notin stopped /\ ~ faulted
Goto(t, from, to) == Runs(t) /\ setting[t] = from /\ setting' = [setting EXCEPT ![t] = to]

\* kscrashreport_setUserInfoJSON() or kscrashreport_getUserInfoJSON() is called.
CallUser(t) ==
  /\ Goto(t, "idle", "locking")
  /\ UNCHANGED <<lock, info, alive, strings, got, reportVars, stopped>>

\* ks_spinlock_lock() spins until the exchange finds the lock free.
Lock(t) ==
  /\ \E to \in {"locked", "copy"} : Goto(t, "locking", to)
  /\ lock = Nobody /\ lock' = t
  /\ UNCHANGED <<info, alive, strings, got, reportVars, stopped>>

\* free(g_userInfoJSON)
FreeInfo(t) ==
  /\ Goto(t, "locked", "freed")
  /\ alive' = alive \ {info}
  /\ UNCHANGED <<lock, info, strings, got, reportVars, stopped>>

\* strdup() of the new JSON, or NULL.
SetInfo(t) ==
  /\ Goto(t, "freed", "set")
  /\ \/ /\ strings < MaxStrings
        /\ strings' = strings + 1 /\ info' = strings + 1 /\ alive' = alive \cup {strings + 1}
     \/ info' = NoString /\ UNCHANGED <<strings, alive>>
  /\ UNCHANGED <<lock, got, reportVars, stopped>>

\* The getter's strdup().
CopyInfo(t) ==
  /\ Goto(t, "copy", "set")
  /\ got' = [got EXCEPT ![t] = info]
  /\ UNCHANGED <<lock, info, alive, strings, reportVars, stopped>>

\* ks_spinlock_unlock() stores 0, whoever has the lock.
Unlock(t) ==
  /\ Goto(t, "set", "idle")
  /\ lock' = Nobody
  /\ UNCHANGED <<info, alive, strings, got, reportVars, stopped>>

-----------------------------------------------------------------------------
(***************************************************************************)
(* The exception.                                                          *)
(***************************************************************************)
\* getThreadList(): as many threads as fit; the crashed one is put at the end
\* when it would not be among them.
ThreadList(threads, crashed) ==
  LET n    == IF Len(threads) > MaxCaptured THEN MaxCaptured ELSE Len(threads)
      list == SubSeq(threads, 1, n)
  IN IF n > 0 /\ crashed \notin ToSet(list) THEN [list EXCEPT ![n] = crashed] ELSE list

\* An exception on a thread, with or without all threads being suspended for
\* it; the handler opens the file and prepares the writer.
BeginReport(t) ==
  /\ place = 0 /\ place' = 1
  /\ \E threads \in Listings, m \in Monitors, all, images, hang, callback \in BOOLEAN :
       /\ hang => m = "Watchdog"
       /\ crash' = [monitor |-> m, thread |-> t, list |-> ThreadList(threads, t), all |-> all,
                    signal |-> m = "Signal", images |-> images, hang |-> hang, callback |-> callback]
       /\ stopped' = IF all THEN Threads ELSE {t}
  /\ UNCHANGED <<userVars, wrote, userInfoLocked, buffered, sections, faulted>>

Handles(name)   == ~ faulted /\ ~ wrote /\ place \in DOMAIN Order /\ Order[place] = name
Writes(content) == wrote' = TRUE /\ buffered' = Append(buffered, [section |-> place, holds |-> content])

-----------------------------------------------------------------------------
(***************************************************************************)
(* What the sections hold.                                                 *)
(***************************************************************************)
\* The type in writeError(): a watchdog's report is one of a termination while
\* the hang goes on; some monitors never cause events; a custom monitor is
\* named by its ID and may write a section.
ErrorType(c) ==
  CASE c.monitor = "Watchdog" -> IF c.hang THEN "mach" ELSE "hang"
    [] c.monitor = "MachException" -> "mach"
    [] c.monitor \in {"System", "AppState", "Zombie"} -> "none"
    [] OTHER -> c.monitor

\* getStackCursor(): the pre-captured cursor is that of the offending thread.
getStackCursor(c, t) == IF t = c.thread THEN "captured" ELSE "unwound"

\* ksmc_canHaveCPUState(): not for the thread that is running, unless a signal
\* has brought its registers.  Some monitors have threads of their own.
canHaveCPUState(c, t) == t # c.thread \/ c.signal \/ c.monitor \in {"MachException", "Watchdog"}

\* writeRegisters(): the exception's registers are those of the crashed thread.
writeRegisters(c, t) ==
  IF ~ canHaveCPUState(c, t) THEN {} ELSE {"basic"} \cup (IF t = c.thread THEN {"exception"} ELSE {})

\* writeStackContents(), writeNotableAddresses(): for the crashed thread only.
writeMemory(c, t) == IF t = c.thread THEN {"stack", "notable"} ELSE {}

\* writeThread()
writeThread(c, i) ==
  LET t == c.list[i] IN
  [index |-> i, thread |-> t, crashed |-> t = c.thread, backtrace |-> getStackCursor(c, t),
   registers |-> writeRegisters(c, t), memory |-> writeMemory(c, t)]

\* writeThreads(): the offending thread, or all of them.
writeThreads(c) == {writeThread(c, i) : i \in {j \in DOMAIN c.list : c.list[j] = c.thread \/ c.all}}

\* The other sections copy what the context, the images and the log hold.
writeReportInfo   == {"version", "id", "process_name", "timestamp", "type"}
writeBinaryImages == {"binary_image"}
writeProcessState == {"last_dealloced_nsexception"}
writeSystemInfo   == {"system", "memory", "application_stats", "app_memory"}
writeDebugInfo    == {"console_log"}

Content(section) ==
  CASE section = "info"    -> writeReportInfo
    [] section = "images"  -> writeBinaryImages
    [] section = "process" -> writeProcessState
    [] section = "system"  -> writeSystemInfo
    [] section = "error"   -> {ErrorType(crash)}
    [] section = "threads" -> writeThreads(crash)
    [] section = "debug"   -> writeDebugInfo

-----------------------------------------------------------------------------
\* A section is written to the buffer of the writer, ...
WriteSection ==
  /\ \E s \in {"info", "images", "process", "system", "error", "threads", "debug"} :
       Handles(s) /\ Writes(Content(s))
  /\ UNCHANGED <<userVars, crash, place, userInfoLocked, sections, faulted, stopped>>

\* Mutant of Flushes: the threads are left in the buffer.
FlushesMost == Order[place] # "threads"

\* ... and ksfu_flushBufferedWriter() follows; but not after an empty object for
\* the user, and the last section waits for the close of the file.
Flushes ==
  /\ Order[place] # "debug"
  /\ Order[place] = "user" => buffered[1].holds # {}

\* The handler gives the lock back when the user's section has been flushed; the
\* binary images may be left out.
EndSection ==
  /\ ~ faulted /\ wrote
  /\ wrote' = FALSE
  /\ IF Flushes THEN sections' = sections \o buffered /\ buffered' = <<>> ELSE UNCHANGED <<sections, buffered>>
  /\ lock' = IF Order[place] = "user" /\ userInfoLocked = "yes" THEN Nobody ELSE lock
  /\ place' = place + (IF Order[place] = "info" /\ ~ crash.images THEN 2 ELSE 1)
  /\ UNCHANGED <<info, alive, strings, setting, got, crash, userInfoLocked, faulted, stopped>>

\* The threads are resumed when they were only suspended to be recorded.
Resume ==
  /\ Handles("resume")
  /\ stopped' \in {stopped, {crash.thread}}
  /\ place' = place + 1
  /\ UNCHANGED <<userVars, crash, wrote, userInfoLocked, buffered, sections, faulted>>

\* ks_spinlock_lock_bounded() gives up when the lock stays taken.
LockBounded ==
  \/ lock = Nobody /\ lock' = Handler /\ userInfoLocked' = "yes"
  \/ lock # Nobody /\ lock' = lock    /\ userInfoLocked' = "no"

\* The handler needs the lock to read the user's JSON.
LockUser ==
  /\ Handles("user") /\ userInfoLocked = "unset"
  /\ LockBounded
  /\ UNCHANGED <<info, alive, strings, setting, got, crash, place, wrote, buffered, sections, faulted, stopped>>

\* addJSONElement() with g_userInfoJSON, or the beginning of an empty object.
WriteUser ==
  /\ Handles("user") /\ userInfoLocked # "unset"
  /\ Writes(IF userInfoLocked = "yes" /\ info # NoString THEN {info} ELSE {})
  /\ UNCHANGED <<userVars, crash, place, userInfoLocked, sections, faulted, stopped>>

\* g_userSectionWriteCallback(), after a flush, if it is set; the end of the
\* user's object, which is flushed, follows in any case.
UserCallback ==
  /\ Handles("callback")
  /\ wrote' = TRUE
  /\ IF crash.callback THEN /\ sections' = sections \o buffered
                            /\ buffered' = <<[section |-> place, holds |-> {"callback"}]>>
     ELSE UNCHANGED <<sections, buffered>>
  /\ UNCHANGED <<userVars, crash, place, userInfoLocked, faulted, stopped>>

\* ksjson_endEncode() and the close; the handler returns.
EndReport ==
  /\ Handles("end")
  /\ sections' = sections \o buffered /\ buffered' = <<>>
  /\ place' = Ended /\ stopped' = {}
  /\ UNCHANGED <<userVars, crash, wrote, userInfoLocked, faulted>>

\* A fault in the handler; what is in the buffer is lost.
FaultInReport ==
  /\ place \in DOMAIN Order /\ ~ faulted
  /\ faulted' = TRUE
  /\ UNCHANGED <<userVars, crash, place, wrote, userInfoLocked, buffered, sections, stopped>>

\* The rest is kscrashreport_writeRecrashReport().
WriterEnded == faulted /\ UNCHANGED writerVars

-----------------------------------------------------------------------------
WriterNext ==
  \/ \E t \in Setters : CallUser(t) \/ Lock(t) \/ FreeInfo(t) \/ SetInfo(t) \/ CopyInfo(t) \/ Unlock(t)
  \/ \E t \in Threads : BeginReport(t)
  \/ WriteSection
  \/ EndSection
  \/ Resume
  \/ LockUser
  \/ WriteUser
  \/ UserCallback
  \/ EndReport
  \/ FaultInReport
  \/ WriterEnded

WriterSpec == WriterInit /\ [][WriterNext]_writerVars

-----------------------------------------------------------------------------
Inside == {t \in Setters : setting[t] \in {"locked", "freed", "set", "copy"}}

\* Neither the handler nor the getter takes up a string that was freed, and no
\* two are inside the lock of the user's JSON, although a handler that cannot
\* get it goes on and ks_spinlock_unlock() does not ask whose it is.
UserInfoSound ==
  /\ \A s, t \in Inside : s = t
  /\ lock = Handler => Inside = {} /\ info \in alive \cup {NoString}
  /\ \A t \in Inside : setting[t] = "copy" => info \in alive \cup {NoString}

\* The sections that the handler has passed.
Passed ==
  {p \in DOMAIN Order : /\ p < place /\ Order[p] \notin {"resume", "end"}
                        /\ Order[p] = "images" => crash.images
                        /\ Order[p] = "callback" => crash.callback}

\* The last section waits for the end, and an empty object for the user in the
\* buffer for the callback.
Waiting ==
  {p \in DOMAIN Order : \/ Order[p] = "debug" /\ place # Ended
                        \/ Order[p] = "user" /\ \E i \in DOMAIN buffered : buffered[i] = [section |-> p, holds |-> {}]}

\* Wherever the handler faults, the file holds every section that it has passed,
\* once and in their order; all that may be lost is an empty one for the user.
EarlierSectionsKept ==
  /\ {sections[i].section : i \in DOMAIN sections} = Passed \ Waiting
  /\ \A i, j \in DOMAIN sections : i < j => sections[i].section < sections[j].section

\* However many threads there are, the thread the exception is on is recorded
\* once, as the crashed one, and no other is.
CrashedThreadOnce ==
  \A i \in DOMAIN sections : Order[sections[i].section] = "threads" =>
    \E e \in sections[i].holds :
      /\ e.crashed /\ e.thread = crash.thread
      /\ \A d \in sections[i].holds : d.crashed => d = e

\* Wherever the handler faults, every section before the one it was writing is
\* in the file; the crashed thread is there once.  Nobody takes up a user's JSON
\* that was freed, and no two are inside its spin lock, although a handler goes
\* on without it when a suspended thread has it.
SectionsKept == EarlierSectionsKept /\ CrashedThreadOnce /\ UserInfoSound
=============================================================================
