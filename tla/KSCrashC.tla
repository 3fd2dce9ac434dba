------------------------------- MODULE KSCrashC -------------------------------
(***************************************************************************)
(* onExceptionEvent() of KSCrashC.c, which writes the report of an         *)
(* exception, and kscrashreport_writeRecrashReport() of KSCrashReportC.c,  *)
(* which writes that of a fault in an exception handler.  Handlers of      *)
(* exceptions that are not fatal run at the same time and share            *)
(* g_lastCrashReportFilePath.                                              *)
(*                                                                         *)
(* A path is the ID in its name; a file is the set of reports whose        *)
(* contents it holds.                                                      *)
(***************************************************************************)
EXTENDS Naturals

CONSTANTS
  Threads,
  MaxReports    \* model bound: reports ever begun

ASSUME EventAssumption == MaxReports \in Nat

IDs     == 1 .. MaxReports
NoPath  == 0          \* the empty g_lastCrashReportFilePath
Recrash == 0          \* the contents of a recrash report

VARIABLES
  next,      \* the next report ID
  lastPath,  \* g_lastCrashReportFilePath
  disk,      \* the contents of each path; {}: there is no such file
  old,       \* the contents of the renamed file, tempPath
  complete,  \* files that have been written to the end
  pc,        \* where each handler is
  id,        \* its reportID, which crashReportFilePath is made of
  result,    \* result->path
  fatal,     \* handlers of fatal exceptions
  suspended, \* threads that a handler has suspended
  faulted,   \* a handler has faulted
  before,    \* history: the reports on disk when it did
  ended      \* the process has ended

reportFiles == <<disk, old, complete>>
handler     == <<pc, id, result, fatal>>
process     == <<suspended, faulted, before, ended>>
eventVars   == <<next, lastPath, reportFiles, handler, process>>

Early     == {"called", "declined", "elsewhere", "taking", "naming"}
Late      == {"opening", "writing", "resumed", "written", "told"}
Recrashed == {"recrash", "reopen", "merge", "close"}

Contents == UNION {disk[p] : p \in IDs}

EventTypeOK ==
  /\ next \in 1 .. MaxReports + 1
  /\ lastPath \in IDs \cup {NoPath}
  /\ disk \in [IDs -> SUBSET (IDs \cup {Recrash})]
  /\ old \subseteq IDs \cup {Recrash}
  /\ complete \subseteq IDs
  /\ pc \in [Threads -> Early \cup Late \cup Recrashed \cup {"idle", "closed"}]
  /\ id \in [Threads -> IDs \cup {NoPath}]
  /\ \A t \in Threads : pc[t] \in Late \cup {"naming"} => id[t] \in IDs
  /\ result \in [Threads -> IDs \cup {NoPath}]
  /\ fatal \subseteq Threads
  /\ suspended \subseteq Threads
  /\ before \subseteq IDs
  /\ faulted \in BOOLEAN /\ ended \in BOOLEAN

EventInit ==
  /\ next = 1
  /\ lastPath = NoPath
  /\ disk = [p \in IDs |-> {}] /\ old = {} /\ complete = {}
  /\ pc = [t \in Threads |-> "idle"]
  /\ id = [t \in Threads |-> NoPath]
  /\ result = [t \in Threads |-> NoPath]
  /\ fatal = {} /\ suspended = {} /\ before = {}
  /\ faulted = FALSE /\ ended = FALSE

-----------------------------------------------------------------------------
CanRun(t) == ~ended /\ t \notin suspended
At(t, from) == CanRun(t) /\ pc[t] = from
GoesTo(t, to) == pc' = [pc EXCEPT ![t] = to]

\* handleException(): the exception of a thread, with or without all threads
\* being recorded.  No exception is handled beside a fatal one.
Begin(t) ==
  /\ At(t, "idle")
  /\ fatal = {} /\ next <= MaxReports
  /\ GoesTo(t, "called")
  /\ fatal' \in {{}, {t}}
  /\ suspended' \in {suspended, Threads \ {t}}
  /\ id' = [id EXCEPT ![t] = NoPath]
  /\ result' = [result EXCEPT ![t] = NoPath]
  /\ UNCHANGED <<next, lastPath, reportFiles, faulted, before, ended>>

\* The willWriteReport callback may decline the report; one that has a
\* reportPath is written elsewhere, and neither the path nor the result is set.
WillWrite(t) ==
  /\ At(t, "called")
  /\ \E to \in {"taking", "declined", "elsewhere"} : GoesTo(t, to)
  /\ UNCHANGED <<next, lastPath, reportFiles, id, result, fatal, process>>

\* kscrs_getNextCrashReport()
TakeID(t) ==
  /\ At(t, "taking")
  /\ next <= MaxReports
  /\ id' = [id EXCEPT ![t] = next]
  /\ next' = next + 1
  /\ GoesTo(t, "naming")
  /\ UNCHANGED <<lastPath, reportFiles, result, fatal, process>>

StorePath(t) ==
  /\ At(t, "naming")
  /\ lastPath' = id[t]
  /\ GoesTo(t, "opening")
  /\ UNCHANGED <<next, reportFiles, id, result, fatal, process>>

\* kscrashreport_writeStandardReport() opens crashReportFilePath, which must
\* not exist, or returns; ...
Open(t) ==
  /\ At(t, "opening")
  /\ IF disk[id[t]] = {}
     THEN disk' = [disk EXCEPT ![id[t]] = {id[t]}] /\ GoesTo(t, "writing")
     ELSE UNCHANGED disk /\ GoesTo(t, "written")
  /\ UNCHANGED <<next, lastPath, old, complete, id, result, fatal, process>>

\* ... it may resume the other threads once they are recorded, and goes on ...
Resume(t) ==
  /\ At(t, "writing")
  /\ suspended' \in {suspended, {}}
  /\ GoesTo(t, "resumed")
  /\ UNCHANGED <<next, lastPath, reportFiles, id, result, fatal, faulted, before, ended>>

\* ... to the end.
Close(t) ==
  /\ At(t, "resumed")
  /\ complete' = complete \cup {id[t]}
  /\ GoesTo(t, "written")
  /\ UNCHANGED <<next, lastPath, disk, old, id, result, fatal, process>>

SetResult(t) ==
  /\ At(t, "written")
  /\ result' = [result EXCEPT ![t] = lastPath]
  /\ GoesTo(t, "told")
  /\ UNCHANGED <<next, lastPath, reportFiles, id, fatal, process>>

\* The didWriteReport callback has been called; handleException() resumes what
\* is suspended, and a fatal exception ends the process.
Returns(t) ==
  /\ \E from \in {"told", "declined", "elsewhere"} : At(t, from)
  /\ GoesTo(t, "idle")
  /\ suspended' = {}
  /\ ended' = (t \in fatal)
  /\ UNCHANGED <<next, lastPath, reportFiles, id, result, fatal, faulted, before>>

-----------------------------------------------------------------------------
(***************************************************************************)
(* A fault in a handler, on its own thread                                 *)
(***************************************************************************)
Fault(t) ==
  /\ CanRun(t) /\ pc[t] \in Early \cup Late
  /\ ~faulted /\ faulted' = TRUE
  /\ before' = Contents
  /\ fatal' = fatal \cup {t}
  /\ GoesTo(t, "recrash")
  /\ UNCHANGED <<next, lastPath, reportFiles, id, result, suspended, ended>>

\* kscrashreport_writeRecrashReport(): rename(path, tempPath)
RecrashRename(t) ==
  /\ At(t, "recrash")
  /\ IF lastPath = NoPath THEN UNCHANGED <<disk, old>>
     ELSE old' = disk[lastPath] /\ disk' = [disk EXCEPT ![lastPath] = {}]
  /\ GoesTo(t, "reopen")
  /\ UNCHANGED <<next, lastPath, complete, id, result, fatal, process>>

\* The empty path and one that exists cannot be opened.
RecrashOpen(t) ==
  /\ At(t, "reopen")
  /\ IF lastPath = NoPath \/ disk[lastPath] # {}
     THEN ended' = TRUE /\ GoesTo(t, "closed") /\ UNCHANGED <<disk, complete>>
     ELSE /\ disk' = [disk EXCEPT ![lastPath] = {Recrash}]
          /\ complete' = complete \ {lastPath}
          /\ GoesTo(t, "merge")
          /\ UNCHANGED ended
  /\ UNCHANGED <<next, lastPath, old, id, result, fatal, suspended, faulted, before>>

\* Mutant of RecrashMerge: the old file is removed without being merged.
RecrashMergeNone(t) ==
  /\ At(t, "merge")
  /\ old' = {}
  /\ GoesTo(t, "close")
  /\ UNCHANGED <<next, lastPath, disk, complete, id, result, fatal, process>>

\* writeRecrash() copies the old report into the new one; then it is removed.
RecrashMerge(t) ==
  /\ At(t, "merge")
  /\ disk' = [disk EXCEPT ![lastPath] = @ \cup old]
  /\ old' = {}
  /\ GoesTo(t, "close")
  /\ UNCHANGED <<next, lastPath, complete, id, result, fatal, process>>

RecrashClose(t) ==
  /\ At(t, "close")
  /\ complete' = complete \cup {lastPath}
  /\ ended' = TRUE
  /\ GoesTo(t, "closed")
  /\ UNCHANGED <<next, lastPath, disk, old, id, result, fatal, suspended, faulted, before>>

\* A fault in that ends the process at once.
CrashLoop(t) ==
  /\ CanRun(t) /\ pc[t] \in Recrashed
  /\ ended' = TRUE
  /\ UNCHANGED <<next, lastPath, reportFiles, handler, suspended, faulted, before>>

-----------------------------------------------------------------------------
Done == (ended \/ next > MaxReports) /\ UNCHANGED eventVars

EventNext ==
  \/ \E t \in Threads :
       \/ Begin(t) \/ WillWrite(t) \/ TakeID(t) \/ StorePath(t) \/ Open(t)
       \/ Resume(t) \/ Close(t) \/ SetResult(t) \/ Returns(t)
       \/ Fault(t) \/ RecrashRename(t) \/ RecrashOpen(t) \/ RecrashMerge(t)
       \/ RecrashClose(t) \/ CrashLoop(t)
  \/ Done

EventSpec == EventInit /\ [][EventNext]_eventVars

-----------------------------------------------------------------------------
(***************************************************************************)
(* Properties                                                              *)
(***************************************************************************)

\* When the didWriteReport callback gets a report ID, the report with that
\* ID is on disk, complete and not mixed with another handler's, whatever
\* other handlers do.
ReportBehindID ==
  \A t \in Threads : pc[t] = "told" /\ id[t] # NoPath /\ ~faulted
    => id[t] \in complete /\ disk[id[t]] = {id[t]}

\* "it will attempt to recover as much information from the original crash as
\* possible": from the fault on, at every step of writing the recrash report
\* and in spite of a second fault, no report that was on disk is lost, be it
\* the interrupted one or another.
WrittenSurvives == before \subseteq old \cup Contents

\* A recrash report that has been written to the end, over the path of the
\* handler that faulted, is one file with both crashes, and nothing is left of
\* the renamed file.
RecrashMerged ==
  \A t \in Threads : pc[t] = "closed" /\ lastPath = id[t] /\ id[t] # NoPath =>
    /\ old = {} /\ lastPath \in complete
    /\ {Recrash} \cup ({id[t]} \cap before) \subseteq disk[lastPath]

\* When the didWriteReport callback of onExceptionEvent() gets a report ID, the
\* report with that ID is on disk, complete and not mixed with another one.
\* From a handler's fault on, at every step of kscrashreport_writeRecrashReport()
\* and in spite of a second fault, no report that was on disk is lost; once
\* that has returned, both crashes are in one file and nothing is left of the
\* renamed one.
ReportsKept == ReportBehindID /\ WrittenSurvives /\ RecrashMerged
=============================================================================
