---------------------------- MODULE KSHangMonitor ----------------------------
(***************************************************************************)
(* KSHangMonitor of KSCrashMonitor_Watchdog.m.  The main thread's run loop *)
(* observer starts a timer when the loop wakes up and ends the hang when   *)
(* the loop is about to wait; the timer fires on the watchdog thread,      *)
(* which claims the hang slot, has a report of a fatal watchdog timeout    *)
(* written, and keeps it up to date, so that it is on disk should the      *)
(* system kill the process.  _lock is held for the length of one action.   *)
(*                                                                         *)
(* Time is abstracted: a ping that finds the threshold exceeded may come   *)
(* whenever the timer is scheduled; one that does not has no effect.       *)
(***************************************************************************)
EXTENDS Naturals

CONSTANTS
  ReportsHangs,  \* _reportsHangs: are recovered hangs reported?
  MaxHangs       \* model bound: hangs in one behaviour

ASSUME HangAssumption == ReportsHangs \in BOOLEAN /\ MaxHangs \in Nat

Hangs  == 1 .. MaxHangs
NoHang == 0

VARIABLES
  mainLoop,  \* "running", "ending" (in _endOwnedHang), "ended" or "waiting"
  timer,     \* is _watchdogTimer scheduled?
  hang,      \* _hang: the hang being tracked, or NoHang
  populated, \* hangs whose path and decodedReport are set
  files,     \* what is on disk for each hang: "none", "fatal" or "hang"
  owned,     \* the hang the main thread has taken out of the slot
  watchdog,  \* where the watchdog thread is
  mine,      \* the hang the watchdog thread is working on
  enabled,   \* g_watchdog is set
  count      \* hangs so far

main == <<mainLoop, timer, owned>>
dog  == <<watchdog, mine>>
vars == <<main, dog, hang, populated, files, enabled, count>>

TypeOK ==
  /\ mainLoop \in {"running", "ending", "ended", "waiting"}
  /\ timer \in BOOLEAN
  /\ hang \in Hangs \cup {NoHang}
  /\ populated \in SUBSET Hangs
  /\ files \in [Hangs -> {"none", "fatal", "hang"}]
  /\ owned \in Hangs \cup {NoHang}
  /\ watchdog \in {"idle", "detected", "claimed", "recording", "recorded",
                   "started", "updating", "writing", "updated", "dealloc",
                   "exited"}
  /\ mine \in Hangs \cup {NoHang}
  /\ enabled \in BOOLEAN
  /\ count \in 0 .. MaxHangs

\* initWithRunLoop: runs on the main thread and schedules the first pings.
Init ==
  /\ mainLoop = "running"
  /\ timer = TRUE
  /\ hang = NoHang
  /\ populated = {}
  /\ files = [h \in Hangs |-> "none"]
  /\ owned = NoHang
  /\ watchdog = "idle"
  /\ mine = NoHang
  /\ enabled = TRUE
  /\ count = 0

-----------------------------------------------------------------------------
(***************************************************************************)
(* The main thread                                                         *)
(***************************************************************************)

\* The run loop observer and the timer hold weak references; a ping that is
\* under way keeps the monitor alive after g_watchdog is cleared.
ObjectAlive == enabled \/ watchdog \notin {"idle", "dealloc", "exited"}

\* Mutant of BeforeWaiting: the hang is read, not moved out of the slot.
BeforeWaitingCopies ==
  /\ ObjectAlive
  /\ mainLoop = "running"
  /\ timer' = FALSE
  /\ owned' = hang
  /\ mainLoop' = IF hang = NoHang THEN "waiting" ELSE "ending"
  /\ UNCHANGED <<dog, hang, populated, files, enabled, count>>

\* _handleActivity:kCFRunLoopBeforeWaiting
BeforeWaiting ==
  /\ ObjectAlive
  /\ mainLoop = "running"
  /\ timer' = FALSE
  /\ owned' = hang
  /\ hang' = NoHang
  /\ mainLoop' = IF hang = NoHang THEN "waiting" ELSE "ending"
  /\ UNCHANGED <<dog, populated, files, enabled, count>>

\* _endOwnedHang: of a hang that has a report: make it a report of a hang, or
\* delete it.
EndOwnedHang ==
  /\ mainLoop = "ending"
  /\ files' = IF owned \in populated
              THEN [files EXCEPT ![owned] = IF ReportsHangs THEN "hang" ELSE "none"]
              ELSE files
  /\ mainLoop' = "ended"
  /\ UNCHANGED <<dog, timer, owned, hang, populated, enabled, count>>

\* The observers have been told; the run loop waits.
HangEnded ==
  /\ mainLoop = "ended"
  /\ mainLoop' = "waiting"
  /\ owned' = NoHang
  /\ UNCHANGED <<dog, timer, hang, populated, files, enabled, count>>

\* _handleActivity:kCFRunLoopAfterWaiting
AfterWaiting ==
  /\ ObjectAlive
  /\ mainLoop = "waiting"
  /\ mainLoop' = "running"
  /\ timer' = TRUE
  /\ UNCHANGED <<dog, owned, hang, populated, files, enabled, count>>

-----------------------------------------------------------------------------
(***************************************************************************)
(* The watchdog thread                                                     *)
(***************************************************************************)

\* _handlePingWithStartTime: finds the threshold exceeded.  What follows
\* happens even if the main thread invalidates the timer now.
Ping ==
  /\ enabled /\ timer
  /\ watchdog = "idle"
  /\ count < MaxHangs
  /\ watchdog' = "detected"
  /\ UNCHANGED <<main, mine, hang, populated, files, enabled, count>>

\* Claim the slot for a new hang, or extend the one that is there.
Claim ==
  /\ watchdog = "detected"
  /\ hang = NoHang
  /\ count' = count + 1
  /\ hang' = count + 1
  /\ watchdog' = "claimed"
  /\ UNCHANGED <<main, mine, populated, files, enabled>>

Extend ==
  /\ watchdog = "detected"
  /\ hang # NoHang
  /\ watchdog' = "updating"
  /\ UNCHANGED <<main, mine, hang, populated, files, enabled, count>>

\* _populateReportForCurrentHang: takes a reference, or finds the hang over.
PopulateBegins ==
  /\ watchdog = "claimed"
  /\ mine' = hang
  /\ watchdog' = IF hang = NoHang THEN "updated" ELSE "recording"
  /\ UNCHANGED <<main, hang, populated, files, enabled, count>>

\* notify() and handleWithResult(): the main thread is suspended while the
\* report is written, so this is one step.  No report may come of it.
Record ==
  /\ watchdog = "recording"
  /\ files' \in {files, [files EXCEPT ![mine] = "fatal"]}
  /\ watchdog' = "recorded"
  /\ UNCHANGED <<main, mine, hang, populated, enabled, count>>

\* Mutant of Attach: the report goes to whatever is in the slot by now.
AttachToSlot ==
  /\ watchdog = "recorded"
  /\ populated' = IF files[mine] # "none" THEN populated \cup {hang} ELSE populated
  /\ watchdog' = "started"
  /\ UNCHANGED <<main, mine, hang, files, enabled, count>>

\* Attach the report to the hang if it is still the same one; DecodeReport()
\* reads it back.
Attach ==
  /\ watchdog = "recorded"
  /\ populated' = IF hang = mine /\ files[mine] # "none"
                  THEN populated \cup {mine} ELSE populated
  /\ watchdog' = "started"
  /\ UNCHANGED <<main, mine, hang, files, enabled, count>>

\* _writeUpdatedReport: takes a copy of the report under the lock ...
UpdateBegins ==
  /\ watchdog = "updating"
  /\ mine' = hang
  /\ watchdog' = IF hang \in populated THEN "writing" ELSE "updated"
  /\ UNCHANGED <<main, hang, populated, files, enabled, count>>

\* ... and writes it back outside the lock, if it can.
WriteUpdated ==
  /\ watchdog = "writing"
  /\ files' \in {files, [files EXCEPT ![mine] = "fatal"]}
  /\ watchdog' = "updated"
  /\ UNCHANGED <<main, mine, hang, populated, enabled, count>>

\* The observers have been told and the ping is over.  If g_watchdog was
\* cleared meanwhile, the ping held the last reference: dealloc runs here.
PingEnds ==
  /\ watchdog \in {"started", "updated"}
  /\ mine' = NoHang
  /\ watchdog' = IF enabled THEN "idle" ELSE "dealloc"
  /\ timer' = (timer /\ enabled)
  /\ UNCHANGED <<mainLoop, owned, hang, populated, files, enabled, count>>

\* setEnabled(false), on some other thread: if no ping is under way, dealloc
\* stops the watchdog's run loop and waits for the thread to exit.
Disable ==
  /\ enabled
  /\ enabled' = FALSE
  /\ IF watchdog = "idle"
     THEN watchdog' = "exited" /\ timer' = FALSE
     ELSE UNCHANGED <<watchdog, timer>>
  /\ UNCHANGED <<mainLoop, owned, mine, hang, populated, files, count>>

-----------------------------------------------------------------------------
Watchdog == Ping \/ Claim \/ Extend \/ PopulateBegins \/ Record \/ Attach
            \/ UpdateBegins \/ WriteUpdated \/ PingEnds

\* Nothing more happens once the monitor is gone.
Stopped ==
  /\ ~ObjectAlive
  /\ UNCHANGED vars

Next == BeforeWaiting \/ EndOwnedHang \/ HangEnded \/ AfterWaiting \/ Watchdog
        \/ Disable \/ Stopped

Spec == Init /\ [][Next]_vars

-----------------------------------------------------------------------------
(***************************************************************************)
(* Properties                                                              *)
(***************************************************************************)

\* "if the app is terminated due to the hang, the report is on disk": from the
\* moment a hang has its report attached until the main thread takes the hang
\* out of the slot, no interleaving of updates and endings removes the file.
TerminationIsReported == hang \in populated => files[hang] = "fatal"

\* "If the hang recovers, we have two options: 1- report as a non-fatal hang.
\* 2- delete the report": when neither thread is busy and no hang is tracked,
\* no report of a fatal watchdog timeout is left on disk.
RecoveredHangNotFatal ==
  mainLoop = "waiting" /\ watchdog = "idle" /\ hang = NoHang
    => \A h \in Hangs : files[h] # "fatal"
=============================================================================
