------------------------ MODULE KSCrashMonitor_Memory ------------------------
(***************************************************************************)
(* Detection of out-of-memory terminations: KSCrashMonitor_Memory.m, with  *)
(* the two trackers it observes (KSCrashAppMemoryTracker.m and             *)
(* KSCrashAppStateTracker.m).  A session keeps its latest memory data in a *)
(* mapped file, memory.bin, and leaves a report in case it is terminated,  *)
(* the breadcrumb; the next session reads the data and, if it tells of an  *)
(* OOM, turns the breadcrumb into a report.                                *)
(*                                                                         *)
(* Memory is measured in units of which kKSCrashFootprintMinChange is a    *)
(* multiple; the limit is fixed, so that the level is a function of the    *)
(* footprint.  Of the levels and pressures only "critical or worse" counts.*)
(***************************************************************************)
EXTENDS Naturals

CONSTANTS
  MaxSessions,     \* model bound: launches
  MaxFootprint,    \* the memory limit
  Critical,        \* the least footprint whose level is critical
  MinChange,       \* kKSCrashFootprintMinChange
  UIApplication,   \* KSCRASH_HAS_UIAPPLICATION
  ExitAnywhere     \* may another thread than the main one call exit()?

\* What the bounds are; no memory at all is not critical.
MemoryAssumption ==
  /\ {MaxSessions, MaxFootprint, MinChange} \subseteq Nat
  /\ Critical \in Nat \ {0}
  /\ {UIApplication, ExitAnywhere} \subseteq BOOLEAN

ASSUME MemoryHolds == MemoryAssumption

Sessions   == 1 .. MaxSessions
Footprints == 0 .. MaxFootprint
States     == {"startup", "active", "background", "exiting"}
Notifiers  == {"main", "other"}  \* threads on which the app's state changes
None       == "none"

\* KSCrash_Memory; "of" is the session that wrote it.  Data without the magic
\* number, and a file that does not exist, is read as no data at all.
Memory   == [of : 0 .. MaxSessions, fatal : BOOLEAN, critical : BOOLEAN, state : States]
NoMemory == [of |-> 0, fatal |-> FALSE, critical |-> FALSE, state |-> "startup"]

VARIABLES
  phase,      \* how far the session has come; "down" between sessions
  session,    \* the number of the session
  mapped,     \* g_memory # NULL
  file,       \* what is in memory.bin
  previous,   \* g_previousSessionMemory
  breadcrumb, \* the breadcrumb report is on disk
  footprint,  \* the footprint at the last heartbeat
  noted,      \* _footprint of the memory tracker
  pressure,   \* is the memory pressure critical?
  state,      \* _transitionState of the state tracker
  telling,    \* the state each notifying thread is telling the observer
  exiting,    \* the thread that is in exit(), or None
  ending,     \* history: whether each session ended with exit()
  disturbed,  \* history: sessions in which the state changed beside exit()
  due,        \* history: sessions whose end must be reported as an OOM
  reports     \* how many OOM reports there are of each session

disk    == <<file, breadcrumb>>
app     == <<footprint, noted, pressure, state, telling, exiting>>
history == <<ending, disturbed, due, reports>>
vars    == <<phase, session, mapped, disk, previous, app, history>>

Launched == {"enabled", "reported", "checked", "running"}
Up       == Launched \cup {"initialized", "mapped", "fatal", "disabled"}

TypeOK ==
  /\ phase \in Up \cup {"down"}
  /\ session \in 0 .. MaxSessions
  /\ mapped \in BOOLEAN
  /\ file \in Memory
  /\ previous \in Memory
  /\ breadcrumb \in BOOLEAN
  /\ footprint \in Footprints /\ noted \in Footprints
  /\ pressure \in BOOLEAN
  /\ state \in States
  /\ telling \in [Notifiers -> States \cup {None}]
  /\ exiting \in Notifiers \cup {None}
  /\ ending \in [Sessions -> {None, "exit", "other"}]
  /\ disturbed \in SUBSET Sessions /\ due \in SUBSET Sessions
  /\ reports \in [Sessions -> 0 .. MaxSessions]

Init ==
  /\ phase = "down" /\ session = 0
  /\ mapped = FALSE
  /\ file = NoMemory /\ breadcrumb = FALSE
  /\ previous = NoMemory
  /\ footprint = 0 /\ noted = 0 /\ pressure = FALSE
  /\ state = "startup"
  /\ telling = [n \in Notifiers |-> None]
  /\ exiting = None
  /\ ending = [s \in Sessions |-> None]
  /\ disturbed = {} /\ due = {}
  /\ reports = [s \in Sessions |-> 0]

-----------------------------------------------------------------------------
\* Mutant of Perceptible: only the background is taken for out of sight.
PerceptibleExiting(s) == s # "background"

\* ksapp_transitionStateIsUserPerceptible()
Perceptible(s) == s \in {"startup", "active"}

\* ksmemory_previous_session_was_terminated_due_to_memory(), of an OOM that
\* the user may have seen
WasOOM(m) == ~m.fatal /\ m.critical /\ Perceptible(m.state)

\* _ks_memory_update_from_app_memory(): the whole structure is replaced.
AppMemory(f) == [of |-> session, fatal |-> FALSE,
                 critical |-> f >= Critical \/ pressure, state |-> state]

\* _ks_memory_update() of one field; data that has no magic stays invalid.
SetField(field, value) ==
  file' = IF mapped /\ file # NoMemory THEN [file EXCEPT ![field] = value] ELSE file

-----------------------------------------------------------------------------
(***************************************************************************)
(* Launching                                                               *)
(***************************************************************************)

\* A new process: its trackers start anew.
Launch ==
  /\ phase = "down" /\ session < MaxSessions
  /\ session' = session + 1
  /\ mapped' = FALSE
  /\ footprint' = 0 /\ noted' = 0 /\ pressure' = FALSE
  /\ state' \in IF UIApplication THEN {"startup", "background"} ELSE {"active"}
  /\ telling' = [n \in Notifiers |-> None]
  /\ exiting' = None

\* ksmemory_initialize(): reads the file and removes it.
Initialize ==
  /\ Launch
  /\ phase' = "initialized"
  /\ previous' = file
  /\ file' = NoMemory
  /\ UNCHANGED <<breadcrumb, history>>

\* setEnabled(true), ksmemory_map(): the new file is filled with zeros.  If it
\* cannot be opened, or mapped, the monitor is enabled nevertheless.
Map ==
  /\ phase = "initialized"
  /\ phase' = "mapped"
  /\ \/ mapped' = TRUE /\ file' = NoMemory
     \/ mapped' = FALSE /\ file' \in {file, NoMemory}
  /\ UNCHANGED <<session, previous, breadcrumb, app, history>>

\* The first data, if there is any; then the state is observed.
MapUpdate ==
  /\ phase = "mapped"
  /\ phase' = "enabled"
  /\ file' \in {file} \cup (IF mapped THEN {AppMemory(footprint)} ELSE {})
  /\ UNCHANGED <<session, mapped, previous, breadcrumb, app, history>>

\* kscm_memory_check_for_oom_in_previous_session(): the breadcrumb, if it can be
\* read, becomes a report; ...
Check ==
  /\ phase = "enabled"
  /\ phase' = "reported"
  /\ reports' = IF WasOOM(previous) /\ breadcrumb
                THEN [reports EXCEPT ![previous.of] = @ + 1] ELSE reports
  /\ UNCHANGED <<session, mapped, disk, previous, app, ending, disturbed, due>>

\* ... then it is removed.
RemoveBreadcrumb ==
  /\ phase = "reported"
  /\ phase' = "checked"
  /\ breadcrumb' = FALSE
  /\ UNCHANGED <<session, mapped, file, previous, app, history>>

\* Mutant of WriteBreadcrumb: written before the old one is removed.
WriteBreadcrumbFirst ==
  /\ phase = "checked"
  /\ phase' = "running"
  /\ breadcrumb' = FALSE
  /\ SetField("fatal", FALSE)
  /\ UNCHANGED <<session, mapped, previous, app, history>>

\* ksmemory_write_possible_oom(): an event that is not fatal.
WriteBreadcrumb ==
  /\ phase = "checked"
  /\ phase' = "running"
  /\ breadcrumb' = TRUE
  /\ SetField("fatal", FALSE)
  /\ UNCHANGED <<session, mapped, previous, app, history>>

-----------------------------------------------------------------------------
(***************************************************************************)
(* What the monitor observes                                               *)
(***************************************************************************)
Observing == phase \in Launched \cup {"mapped", "fatal"}

\* KSABS_DIFF(f, noted) > kKSCrashFootprintMinChange: the macro has no
\* parentheses, and ?: binds less tightly than >.
FootprintChanged(f) == IF f > noted THEN f - noted # 0 ELSE noted - f > MinChange

\* _heartbeat, on a queue of its own.  What the heartbeats before the monitor
\* observes have noted is what MapUpdate saves.
Heartbeat ==
  /\ Observing
  /\ \E f \in Footprints :
       /\ footprint' = f
       /\ IF FootprintChanged(f)
          THEN noted' = f /\ file' = (IF mapped THEN AppMemory(f) ELSE file)
          ELSE UNCHANGED <<noted, file>>
  /\ UNCHANGED <<phase, session, mapped, previous, breadcrumb,
                 pressure, state, telling, exiting, history>>

\* _memoryPressureChanged: the observer saves the data only when the footprint
\* has changed.
PressureChanged ==
  /\ phase \in Up
  /\ pressure' = ~pressure
  /\ UNCHANGED <<phase, session, mapped, disk, previous,
                 footprint, noted, state, telling, exiting, history>>

\* _setTransitionState: under the lock
SetTransitionState(n, s) ==
  /\ state' = s
  /\ telling' = [telling EXCEPT ![n] = IF state # s /\ Observing THEN s ELSE None]

\* A notification of the application's life cycle, on the main thread
Transition ==
  /\ UIApplication /\ phase \in Up
  /\ telling["main"] = None /\ exiting # "main"
  /\ \E s \in {"active", "background"} : SetTransitionState("main", s)
  /\ disturbed' = IF exiting = None THEN disturbed ELSE disturbed \cup {session}
  /\ UNCHANGED <<phase, session, mapped, disk, previous,
                 footprint, noted, pressure, exiting, ending, due, reports>>

\* Mutant of Tell: the observers are told although nothing has changed.
TellAlways(n) ==
  /\ phase \in Up
  /\ SetField("state", telling[n])
  /\ telling' = [telling EXCEPT ![n] = None]
  /\ UNCHANGED <<phase, session, mapped, previous, breadcrumb,
                 footprint, noted, pressure, state, exiting, history>>

\* The observer: mem->state = transitionState, after the tracker's lock
Tell(n) ==
  /\ phase \in Up /\ telling[n] # None
  /\ SetField("state", telling[n])
  /\ telling' = [telling EXCEPT ![n] = None]
  /\ UNCHANGED <<phase, session, mapped, previous, breadcrumb,
                 footprint, noted, pressure, state, exiting, history>>

\* addContextualInfoToEvent(), of an event that is not fatal
NonFatalEvent ==
  /\ phase \in Launched \cup {"fatal"}
  /\ SetField("fatal", FALSE)
  /\ UNCHANGED <<phase, session, mapped, previous, breadcrumb, app, history>>

-----------------------------------------------------------------------------
(***************************************************************************)
(* The ways a session ends                                                 *)
(***************************************************************************)
Ends(how) ==
  /\ phase' = "down"
  /\ ending' = [ending EXCEPT ![session] = how]
  /\ UNCHANGED <<session, mapped, disk, previous, app, disturbed, reports>>

\* A fatal event: the data is marked, ...
FatalEvent ==
  /\ phase \in Launched /\ exiting = None
  /\ phase' = "fatal"
  /\ SetField("fatal", TRUE)
  /\ UNCHANGED <<session, mapped, previous, breadcrumb, app, history>>

\* ... the other threads are resumed, all monitors are disabled (setEnabled(false)), ...
Disable ==
  /\ phase = "fatal"
  /\ phase' = "disabled"
  /\ mapped' = FALSE
  /\ UNCHANGED <<session, previous, disk, app, history>>

\* ... and the process ends.
FatalEnd == phase = "disabled" /\ Ends("other") /\ UNCHANGED due

\* exit(): the atexit handler, _exitCalled, does nothing unless notifications are
\* registered.  A state that another thread is still telling disturbs it.
Exit ==
  /\ phase \in Launched /\ exiting = None
  /\ \E n \in IF ExitAnywhere THEN Notifiers ELSE {"main"} :
       /\ telling[n] = None
       /\ exiting' = n
       /\ IF UIApplication THEN SetTransitionState(n, "exiting")
          ELSE UNCHANGED <<state, telling>>
       /\ disturbed' = IF \E m \in Notifiers \ {n} : telling[m] # None
                        THEN disturbed \cup {session} ELSE disturbed
  /\ UNCHANGED <<phase, session, mapped, disk, previous, footprint, noted, pressure,
                 ending, due, reports>>

ExitEnd ==
  /\ phase \in Up /\ exiting # None /\ telling[exiting] = None
  /\ Ends("exit") /\ UNCHANGED due

\* The system kills the process because of its memory.  This must be reported
\* if the user can see it and the session had been launched; a footprint that
\* is critical by MinChange or less need not have been noted, nor a pressure that
\* has become critical since the footprint last changed.
Kill ==
  /\ phase \in Up
  /\ footprint >= Critical \/ pressure
  /\ Ends("other")
  /\ due' = IF phase = "running" /\ mapped /\ Perceptible(state)
               /\ footprint >= Critical + MinChange
               /\ exiting = None /\ telling["main"] = None
            THEN due \cup {session} ELSE due

\* The process is killed for some other reason.
OtherKill == phase \in Up /\ Ends("other") /\ UNCHANGED due

-----------------------------------------------------------------------------
Done == phase = "down" /\ session = MaxSessions /\ UNCHANGED vars

Next ==
  \/ Initialize \/ Map \/ MapUpdate \/ Check \/ RemoveBreadcrumb \/ WriteBreadcrumb
  \/ Heartbeat \/ PressureChanged \/ Transition \/ (\E n \in Notifiers : Tell(n))
  \/ NonFatalEvent \/ FatalEvent \/ Disable \/ FatalEnd
  \/ Exit \/ ExitEnd \/ Kill \/ OtherKill \/ Done

Spec == Init /\ [][Next]_vars

-----------------------------------------------------------------------------
(***************************************************************************)
(* Properties                                                              *)
(***************************************************************************)

\* "unlinks the file to remove any trace of it": however launches are cut
\* short, the end of a session is reported at most once.
ReportedOnce == \A s \in Sessions : reports[s] <= 1

\* "Monitor memory to detect OOMs at startup": a session that is killed for its
\* footprint, in the user's sight and after its launch, is reported by the next
\* session that gets as far as looking for it.
OOMReported ==
  \A s \in due : session = s + 1 /\ phase \in {"checked", "running"} => reports[s] = 1

\* _exitCalled, where notifications are registered: a session that ended with
\* exit(), on whichever thread, is not reported as an OOM, unless the application's
\* state changed on another thread after exit() was called or was still being
\* told to the monitor then.
ExitNotOOM ==
  UIApplication => \A s \in Sessions \ disturbed : ending[s] = "exit" => reports[s] = 0

\* A session that ended for lack of memory is reported by a later one
\* (notifyPostSystemEnable of the memory monitor), no session is reported twice,
\* and one that called exit() is not (the exit callback, which sets the state
\* that ksmemory_read() finds), unless a change of the state crosses the exit.
OOMExact == OOMReported /\ ReportedOnce /\ ExitNotOOM
=============================================================================
