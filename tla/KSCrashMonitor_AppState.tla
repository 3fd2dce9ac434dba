----------------------- MODULE KSCrashMonitor_AppState -----------------------
(***************************************************************************)
(* The durations, launches and sessions since the last crash:              *)
(* KSCrashMonitor_AppState.c, with the notifications that KSCrashC.c keeps *)
(* back until it is installed.  The state lives in g_state; what must      *)
(* outlast the process is saved to CrashState.json, field after field.     *)
(*                                                                         *)
(* The file is the sequence of the values that a reader gets from it before*)
(* it meets an error; the version, the same for all, is left out.  Time is *)
(* counted in ticks.                                                       *)
(***************************************************************************)
EXTENDS Integers, Sequences

CONSTANTS
  MaxTime,      \* model bound: ticks in all
  MaxLaunches,  \* model bound
  MaxSessions,  \* model bound: times the application comes to the foreground
  MaxEvents     \* model bound: events that are not fatal

\* What the bounds are.
AppStateAssumption == {MaxTime, MaxLaunches, MaxSessions, MaxEvents} \subseteq Nat

ASSUME StateHolds == AppStateAssumption

Times         == 0 .. MaxTime
Sessions      == 0 .. MaxLaunches + MaxSessions
Notifications == {"active", "resign", "background", "foreground", "terminate"}
None          == "none"

\* KSCrash_AppState
AppState == [activeSinceCrash : Times, backgroundSinceCrash : Times,
             launches : 0 .. MaxLaunches, sessions : Sessions, sessionsSinceLaunch : Sessions,
             activeSinceLaunch : Times, backgroundSinceLaunch : Times,
             crashedLast : BOOLEAN, crashedThis : BOOLEAN, transition : Times,
             isActive : BOOLEAN, inForeground : BOOLEAN]

VARIABLES
  now,       \* the time
  phase,     \* how far the process has come; "down" when there is none
  g,         \* g_state
  saving,    \* the field that the main thread saves next, or 0
  file,      \* CrashState.json
  last,      \* g_lastApplicationState
  app,       \* history: the state the application really is in
  truth,     \* history: how long it has been so, since launch and since the crash
  replayed,  \* history: how much of the installation was counted with it
  launched,  \* history: launches since the last crash
  met,       \* history: launches and resumes, since launch and since the crash
  missed,    \* history: resumes not counted: too early, or not saved when it was killed
  unsaved,   \* history: resumes since the last save
  ended,     \* history: how the last launch that was enabled ended
  torn,      \* history: a save was cut short, or another came between its fields
  resumes, events  \* history: for the bounds

counts    == <<resumes, events>>
spans     == <<met, missed, unsaved>>
history   == <<truth, replayed, launched, spans, ended, torn, counts>>
stateVars == <<now, phase, g, saving, file, last, app, history>>

Enabled    == {"enabled", "installed", "hung", "resumed"}
Phases     == Enabled \cup {"down", "loaded", "initialized", "hanging", "crashing", "disabled"}
Quantities == {"activeSinceLaunch", "backgroundSinceLaunch", "activeSinceCrash", "backgroundSinceCrash"}
Endings    == {None, "kill", "hang", "recovered", "crash", "saved crash", "torn crash"}

StateTypeOK ==
  /\ now \in Times
  /\ phase \in Phases
  /\ g \in AppState
  /\ saving \in 0 .. 5
  /\ Len(file) <= 5
  /\ last \in Notifications \cup {None}
  /\ app \in {"launching", "active", "inactive", "background"}
  /\ {truth, replayed} \subseteq [Quantities -> Times]
  /\ launched \in 0 .. MaxLaunches
  /\ met \in [{"launch", "crash"} -> Sessions]
  /\ missed \in [{"launch", "crash", "killed"} -> Sessions]
  /\ unsaved \in 0 .. MaxSessions
  /\ ended \in Endings
  /\ torn \in BOOLEAN

\* memset(&g_state, 0, sizeof(g_state)), and the time
Cleared == [activeSinceCrash |-> 0, backgroundSinceCrash |-> 0, launches |-> 0, sessions |-> 0,
            sessionsSinceLaunch |-> 0, activeSinceLaunch |-> 0, backgroundSinceLaunch |-> 0,
            crashedLast |-> FALSE, crashedThis |-> FALSE, transition |-> now,
            isActive |-> FALSE, inForeground |-> FALSE]

StateInit ==
  /\ now = 0 /\ phase = "down"
  /\ g = Cleared
  /\ saving = 0 /\ file = <<>>
  /\ last = None /\ app = "launching"
  /\ truth = [q \in Quantities |-> 0] /\ replayed = truth
  /\ met = [launch |-> 0, crash |-> 0] /\ missed = [launch |-> 0, crash |-> 0, killed |-> 0] /\ unsaved = 0
  /\ launched = 0 /\ ended = None /\ torn = FALSE
  /\ resumes = 0 /\ events = 0

-----------------------------------------------------------------------------
(***************************************************************************)
(* The file                                                                *)
(***************************************************************************)

\* The fields in the order of saveState(): crashedThisLaunch is saved as
\* crashedLastLaunch.
Fields(s) == <<s.crashedThis, s.activeSinceCrash, s.backgroundSinceCrash, s.launches, s.sessions>>

\* loadState(): the fields up to the first error; the others stay zero.
Loaded(s, f) ==
  LET Field(k, default) == IF k <= Len(f) THEN f[k] ELSE default
  IN  [s EXCEPT !.crashedLast = Field(1, FALSE),
                !.activeSinceCrash = Field(2, 0), !.backgroundSinceCrash = Field(3, 0),
                !.launches = Field(4, 0), !.sessions = Field(5, 0)]

\* The main thread writes one field at its own offset.  If the crash handler
\* has saved the file meanwhile, the field replaces the handler's or, if a field
\* before it was of another length, no longer fits.
Written(f, k, value) ==
  CASE k = Len(f) + 1 -> {Append(f, value)}
    [] k <= Len(f)    -> {[f EXCEPT ![k] = value]} \cup (IF k > 1 THEN {SubSeq(f, 1, k - 1)} ELSE {})
    [] OTHER          -> {f}

-----------------------------------------------------------------------------
(***************************************************************************)
(* Launching                                                               *)
(***************************************************************************)

\* kscrashstate_notifyObjCLoad(), in a new process
NotifyObjCLoad ==
  /\ phase = "down" /\ launched < MaxLaunches
  /\ phase' = "loaded"
  /\ g' = [Cleared EXCEPT !.isActive = TRUE]
  /\ saving' = 0 /\ last' = None /\ app' = "launching"
  /\ met' = [met EXCEPT !.launch = 0] /\ missed' = [missed EXCEPT !.launch = 0]
  /\ UNCHANGED <<now, file, truth, replayed, launched, unsaved, ended, torn, counts>>

\* kscrashstate_initialize()
InitializeState ==
  /\ phase = "loaded"
  /\ phase' = "initialized"
  /\ g' = Loaded(Cleared, file)
  /\ UNCHANGED <<now, saving, file, last, app, history>>

\* Mutant of Reset: the durations are kept.
ResetCounters(s) ==
  LET r == IF s.crashedLast THEN [s EXCEPT !.launches = 0, !.sessions = 0] ELSE s
  IN  [r EXCEPT !.activeSinceLaunch = 0, !.backgroundSinceLaunch = 0, !.crashedThis = FALSE,
                !.sessionsSinceLaunch = 1, !.launches = @ + 1, !.sessions = @ + 1, !.inForeground = TRUE]

\* kscrashstate_reset()
Reset(s) ==
  LET r == IF s.crashedLast
           THEN [s EXCEPT !.activeSinceCrash = 0, !.backgroundSinceCrash = 0,
                          !.launches = 0, !.sessions = 0]
           ELSE s
  IN  [r EXCEPT !.activeSinceLaunch = 0, !.backgroundSinceLaunch = 0, !.crashedThis = FALSE,
                !.sessionsSinceLaunch = 1, !.launches = @ + 1, !.sessions = @ + 1, !.inForeground = TRUE]

\* What is noted as a crash: a hang too, and even when it is over; see Hang.
Noted == ended \in Endings \ {None, "kill"}

\* setEnabled(true): resets the state and begins to save it.
SetEnabled ==
  /\ phase = "initialized"
  /\ phase' = "enabled"
  /\ g' = Reset(g)
  /\ saving' = 1 /\ file' = <<>>
  /\ LET Carried(n)   == IF Noted THEN 0 ELSE n
         Restarted(f) == [q \in Quantities |-> IF q \in {"activeSinceLaunch", "backgroundSinceLaunch"}
                                               THEN 0 ELSE Carried(f[q])]
     IN  /\ truth' = Restarted(truth) /\ replayed' = Restarted(replayed)
         /\ launched' = Carried(launched) + 1
         /\ met' = [launch |-> met.launch + 1, crash |-> Carried(met.crash) + met.launch + 1]
         /\ missed' = [missed EXCEPT !.crash = Carried(@) + missed.launch, !.killed = Carried(@)]
  /\ unsaved' = 0
  /\ ended' = "kill"
  /\ UNCHANGED <<now, last, app, torn, counts>>

-----------------------------------------------------------------------------
(***************************************************************************)
(* Notifications                                                           *)
(***************************************************************************)

\* updateAppState()
UpdateAppState(s) ==
  LET duration == now - s.transition
  IN  CASE s.isActive -> [s EXCEPT !.transition = now, !.activeSinceLaunch = @ + duration,
                                   !.activeSinceCrash = @ + duration]
        [] ~s.isActive /\ ~s.inForeground ->
             [s EXCEPT !.transition = now, !.backgroundSinceLaunch = @ + duration,
                       !.backgroundSinceCrash = @ + duration]
        [] OTHER -> [s EXCEPT !.transition = now]

\* kscrashstate_notifyAppActive(true)
AppActive(s) == [s EXCEPT !.isActive = TRUE, !.transition = now]

\* kscrashstate_notifyAppActive(false)
AppResign(s) ==
  [s EXCEPT !.isActive = FALSE, !.activeSinceLaunch = @ + (now - s.transition),
            !.activeSinceCrash = @ + (now - s.transition)]

\* Mutant of AppForeground: only the sessions of this launch are counted.
ForegroundUncounted(s) ==
  [s EXCEPT !.inForeground = TRUE, !.backgroundSinceLaunch = @ + (now - s.transition),
            !.backgroundSinceCrash = @ + (now - s.transition), !.sessionsSinceLaunch = @ + 1]

\* kscrashstate_notifyAppInForeground(true)
AppForeground(s) ==
  [s EXCEPT !.inForeground = TRUE, !.backgroundSinceLaunch = @ + (now - s.transition),
            !.backgroundSinceCrash = @ + (now - s.transition),
            !.sessions = @ + 1, !.sessionsSinceLaunch = @ + 1]

\* Mutant of AppBackground: the sessions are counted where they end, too.
BackgroundCounted(s) == [s EXCEPT !.inForeground = FALSE, !.transition = now, !.sessions = @ + 1]

\* kscrashstate_notifyAppInForeground(false), before it saves
AppBackground(s) == [s EXCEPT !.inForeground = FALSE, !.transition = now]

\* What a notification does to the state; two of them save it.
Notified(n, s) ==
  CASE n = "active"     -> AppActive(s)
    [] n = "resign"     -> AppResign(s)
    [] n = "foreground" -> AppForeground(s)
    [] n = "background" -> AppBackground(s)
    [] n = "terminate"  -> UpdateAppState(s)
    [] OTHER            -> s

\* History: the sessions that a notification begins.
Resumption(n) == IF n = "foreground" THEN 1 ELSE 0

NotifyApp(n) ==
  /\ g' = Notified(n, g)
  /\ IF n \in {"background", "terminate"}
     THEN saving' = 1 /\ file' = <<>> /\ unsaved' = 0
     ELSE UNCHANGED <<saving, file>> /\ unsaved' = unsaved + Resumption(n)

\* The main thread runs unless it hangs or a handler has suspended it, and again
\* once it is resumed after the crash of another thread.
MainIsFree == saving = 0 /\ phase \in {"loaded", "installed", "resumed"}

\* The application's life cycle, as UIKit tells of it.
From(n) == CASE n = "active"     -> {"launching", "inactive"}
             [] n = "resign"     -> {"active"}
             [] n = "background" -> {"inactive"}
             [] n = "foreground" -> {"background"}
             [] n = "terminate"  -> {"inactive", "background"}

To(n) == CASE n = "active"     -> "active"
           [] n = "background" -> "background"
           [] n = "terminate"  -> app
           [] OTHER            -> "inactive"

\* kscrash_notifyAppActive() and the others: before the installation, only the
\* last notification is kept.
AppNotification(n) ==
  /\ MainIsFree
  /\ app \in From(n) /\ last # "terminate"
  /\ app' = To(n)
  /\ last' = n
  /\ IF phase = "loaded"
     THEN /\ missed' = [missed EXCEPT !.launch = @ + Resumption(last)]
          /\ met' = [met EXCEPT !.launch = @ + Resumption(n)]
          /\ UNCHANGED <<g, saving, file, unsaved>>
     ELSE /\ NotifyApp(n)
          /\ met' = [met EXCEPT !.launch = @ + Resumption(n), !.crash = @ + Resumption(n)]
          /\ UNCHANGED missed
  /\ resumes' = resumes + Resumption(n) /\ resumes' <= MaxSessions
  /\ UNCHANGED <<now, phase, truth, replayed, launched, ended, torn, events>>

\* notifyOfBeforeInstallationState(), on the main thread too.  A "resign" is taken
\* for the end of a time in which the application was active, a "foreground" for
\* the end of one in the background.
Installed ==
  /\ phase = "enabled" /\ saving = 0
  /\ phase' = "installed"
  /\ NotifyApp(last)
  /\ replayed' = [q \in Quantities |->
                    IF \/ last = "resign" /\ q \in {"activeSinceLaunch", "activeSinceCrash"}
                       \/ last = "foreground" /\ q \in {"backgroundSinceLaunch", "backgroundSinceCrash"}
                    THEN replayed[q] + (now - g.transition) ELSE replayed[q]]
  /\ UNCHANGED <<now, last, app, truth, launched, met, missed, ended, torn, counts>>

\* saveState() goes on with the next field, also beside the end of a process
\* that has crashed.
SaveField ==
  /\ saving # 0
  /\ phase \in {"enabled", "installed", "resumed", "disabled"}
  /\ file' \in Written(file, saving, Fields(g)[saving])
  /\ saving' = (saving + 1) % 6
  /\ UNCHANGED <<now, phase, g, last, app, history>>

-----------------------------------------------------------------------------
(***************************************************************************)
(* Events, crashes and the end                                             *)
(***************************************************************************)

\* addContextualInfoToEvent() of an event that leaves no mark
Event ==
  /\ phase \in {"enabled", "installed", "hung"} /\ events < MaxEvents
  /\ events' = events + 1
  /\ g' = UpdateAppState(g)
  /\ UNCHANGED <<now, phase, saving, file, last, app, truth, replayed, launched, spans, ended, torn, resumes>>

\* The main thread hangs, and this is reported.  It is not user reported, so
\* onExceptionEvent() notes a crash: it begins to save the state ...
Hang ==
  /\ phase = "installed" /\ events < MaxEvents
  /\ phase' = "hanging"
  /\ events' = events + 1
  /\ g' = [UpdateAppState(g) EXCEPT !.crashedThis = TRUE]
  /\ file' = <<>>
  /\ ended' = "hang"
  /\ torn' = (torn \/ saving # 0)
  /\ UNCHANGED <<now, saving, last, app, truth, replayed, launched, spans, resumes>>

\* ... and ends; the report is written, and the other threads are resumed.
HangSave ==
  /\ phase = "hanging"
  /\ phase' = "hung"
  /\ file' = Fields(g) /\ unsaved' = 0
  /\ UNCHANGED <<now, g, saving, last, app, truth, replayed, launched, met, missed, ended, torn, counts>>

\* The main thread goes on.
HangEnds ==
  /\ phase = "hung"
  /\ phase' = "installed"
  /\ ended' = "recovered"
  /\ UNCHANGED <<now, g, saving, file, last, app, truth, replayed, launched, spans, torn, counts>>

\* A fatal event, on the main thread or beside it: kscrashstate_notifyAppCrash()
\* begins to save ...
Crash ==
  /\ phase \in {"enabled", "installed", "hung"}
  /\ phase' = "crashing"
  /\ g' = [UpdateAppState(g) EXCEPT !.crashedThis = TRUE]
  /\ file' = <<>>
  /\ ended' = "crash"
  /\ torn' = (torn \/ saving # 0)
  /\ UNCHANGED <<now, saving, last, app, truth, replayed, launched, spans, counts>>

\* ... and ends; the report is written, and the other threads are resumed.
CrashSave ==
  /\ phase = "crashing"
  /\ phase' = "resumed"
  /\ file' = Fields(g) /\ unsaved' = 0
  /\ ended' = "saved crash"
  /\ UNCHANGED <<now, g, saving, last, app, truth, replayed, launched, met, missed, torn, counts>>

\* kscm_disableAllMonitors()
DisableState ==
  /\ phase = "resumed"
  /\ phase' = "disabled"
  /\ UNCHANGED <<now, g, saving, file, last, app, history>>

\* A handler is saving the state.
Saving == phase \in {"hanging", "crashing"}

\* History: a session that was kept back for the end of the installation
Kept == IF phase = "enabled" THEN Resumption(last) ELSE 0

\* The process is killed, or ends after a crash, and its memory is gone; a save
\* may be cut short.
End ==
  /\ phase # "down"
  /\ phase' = "down"
  /\ file' \in IF Saving THEN {SubSeq(Fields(g), 1, k) : k \in 0 .. 4} ELSE {file}
  /\ torn' = (torn \/ Saving \/ saving # 0)
  /\ ended' = IF ended = "saved crash" /\ saving # 0 THEN "torn crash" ELSE ended
  /\ missed' = [missed EXCEPT !.crash = @ + Kept, !.killed = @ + unsaved]
  /\ unsaved' = 0
  /\ g' = Cleared /\ saving' = 0 /\ last' = None /\ app' = "launching"
  /\ UNCHANGED <<now, truth, replayed, launched, met, counts>>

\* Time passes; the application is in a state once it is installed.
ClockTick ==
  /\ now < MaxTime
  /\ now' = now + 1
  /\ truth' = [q \in Quantities |->
                 IF /\ phase \in {"installed", "hanging", "hung"}
                    /\ \/ app = "active" /\ q \in {"activeSinceLaunch", "activeSinceCrash"}
                       \/ app = "background" /\ q \in {"backgroundSinceLaunch", "backgroundSinceCrash"}
                 THEN truth[q] + 1 ELSE truth[q]]
  /\ UNCHANGED <<phase, g, saving, file, last, app, replayed, launched, spans, ended, torn, counts>>

Done == phase = "down" /\ launched = MaxLaunches /\ now = MaxTime /\ UNCHANGED stateVars

StateNext ==
  \/ NotifyObjCLoad \/ InitializeState \/ SetEnabled \/ Installed
  \/ (\E n \in Notifications : AppNotification(n)) \/ SaveField
  \/ Event \/ Hang \/ HangSave \/ HangEnds \/ Crash \/ CrashSave \/ DisableState \/ End \/ ClockTick \/ Done

StateSpec == StateInit /\ [][StateNext]_stateVars

-----------------------------------------------------------------------------
(***************************************************************************)
(* Properties                                                              *)
(***************************************************************************)

\* "Total active time elapsed since launch", "Total time backgrounded elapsed
\* since launch": what has been added up, with the time of the present state,
\* is the time the application really was active or in the background since the
\* installation, whatever events came between, and what of the installation a
\* notification that was kept until its end is replayed for.
DurationsExact ==
  phase \in {"installed", "hung"} /\ last # "terminate" =>
    /\ g.activeSinceLaunch + (IF g.isActive THEN now - g.transition ELSE 0)
         = truth["activeSinceLaunch"] + replayed["activeSinceLaunch"]
    /\ g.backgroundSinceLaunch
         + (IF ~g.isActive /\ ~g.inForeground THEN now - g.transition ELSE 0)
         = truth["backgroundSinceLaunch"] + replayed["backgroundSinceLaunch"]

\* "Number of app launches since the last crash": it is exact as long as every
\* save could be made in one piece, however the processes ended.
LaunchesExact == phase \in {"installed", "hung"} /\ ~torn => g.launches = launched

\* "Number of sessions (launch, resume from suspend)": none is counted twice, and
\* none is missed but those that another notification followed before the
\* installation and those after the last save of a process.
SessionsExact ==
  phase \in {"installed", "hung"} =>
    /\ g.sessionsSinceLaunch + missed.launch = met.launch
    /\ ~torn => g.sessions + missed.crash + missed.killed = met.crash

\* However launches end and saves are cut short, no time, no launch and no
\* session from before the last crash that was noted is counted as since it.
NothingFromBeforeCrash ==
  phase \in {"installed", "hung"} =>
    /\ g.activeSinceCrash <= truth["activeSinceCrash"] + replayed["activeSinceCrash"]
    /\ g.backgroundSinceCrash <= truth["backgroundSinceCrash"] + replayed["backgroundSinceCrash"]
    /\ g.launches <= launched
    /\ g.sessions <= met.crash

\* A launch that ends without a fatal event and without a hang is not taken for
\* a crash by the next one.
NoneInvented == phase = "initialized" /\ g.crashedLast => Noted

\* A crash that the state was saved for is known at the next launch, whatever
\* the main thread did after it was resumed, unless the process ended in the
\* middle of a save of the main thread.
CrashRemembered == phase = "initialized" /\ ended = "saved crash" => g.crashedLast

\* Durations, launches and sessions are counted exactly: what is added that was
\* not spent and what is missed is said of each (updateAppState, the
\* notifications, kscrashstate_reset, saveState, loadState).
CountsExact == DurationsExact /\ LaunchesExact /\ SessionsExact

\* The next launch knows of a crash that could be saved, takes only a fatal event
\* or a hang for one, and counts nothing from before it as since it
\* (saveState, loadState, kscrashstate_reset).
CrashKnown == NoneInvented /\ CrashRemembered /\ NothingFromBeforeCrash

\* "If true, the application crashed on the previous launch."
\* (KSCrashMonitor_AppState.h:67)
NoFalseCrash ==
  phase = "initialized" /\ g.crashedLast => ended \in {"crash", "saved crash", "torn crash", "hang"}
=============================================================================
