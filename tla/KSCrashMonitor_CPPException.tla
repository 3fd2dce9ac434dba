---------------------- MODULE KSCrashMonitor_CPPException ----------------------
(***************************************************************************)
(* KSCrashMonitor_CPPException.cpp: the stack trace that is taken when an  *)
(* exception is thrown, and reported if nobody catches it.                 *)
(*                                                                         *)
(* Throwing calls __cxa_throw(), which is this monitor's own if the        *)
(* program is linked that way, or reaches the monitor when the images have *)
(* been rebound (KSCxaThrowSwapper).  Rethrowing calls neither.  The flag  *)
(* that allows taking a trace, and the trace, are thread-local.            *)
(***************************************************************************)
EXTENDS Integers, Sequences, SequencesExt

CONSTANTS
  CppThreads,
  Exceptions,         \* each is thrown once at most
  NSChoices,          \* sets of exceptions that may be NSExceptions
  Nothing             \* no trace, no exception

Unset == "unset"   \* a zeroed cursor
Empty == "empty"   \* a cursor that ends at once
Here  == "here"    \* a trace of the place of the rethrow

ASSUME CppAssumption ==
  Nothing \notin CppThreads \cup Exceptions /\ Exceptions \cap {Unset, Empty, Here} = {}

VARIABLES
  objc,                 \* the NSExceptions among the exceptions
  overriding,           \* the program calls the monitor's __cxa_throw()
  cppEnabled, cppState, swapEnabled,
  rebound,              \* ksct_swap() has returned
  capture, stackCursor, \* by thread: g_captureNextStackTrace and g_stackCursor
  flying,               \* by thread: exceptions thrown and not caught, the innermost last
  thrown, caught,       \* exceptions that have been thrown, and caught and kept
  terminating,          \* the threads that are inside the handler
  report,               \* what is reported: thread, exception and trace
  cppEnded,
  callers, enabler,     \* history: threads that have set the monitor, and the last that has enabled it
  latest,               \* history, by thread: the exception thrown last
  covered, rethrown     \* history: exceptions thrown when a trace was to be taken; and rethrown

cppProgram == <<overriding, objc>>
switches   == <<cppEnabled, cppState>>
swap       == <<swapEnabled, rebound>>
traces     == <<capture, stackCursor>>
flight     == <<flying, thrown, caught>>
outcome    == <<terminating, report, cppEnded>>
setters    == <<callers, enabler>>
throws     == <<latest, covered, rethrown>>
cppVars    == <<cppProgram, switches, swap, traces, flight, outcome, setters, throws>>

Traces == Exceptions \cup {Unset, Empty, Here}

CppTypeOK ==
  /\ overriding \in BOOLEAN /\ cppEnabled \in BOOLEAN /\ swapEnabled \in BOOLEAN
  /\ rebound \in BOOLEAN /\ cppEnded \in BOOLEAN
  /\ cppState \in {"NotInstalled", "Installed"}
  /\ capture \in [CppThreads -> BOOLEAN] /\ stackCursor \in [CppThreads -> Traces]
  /\ flying \in [CppThreads -> Seq(Exceptions)]
  /\ thrown \subseteq Exceptions /\ caught \subseteq Exceptions
  /\ covered \subseteq Exceptions /\ rethrown \subseteq Exceptions
  /\ terminating \subseteq CppThreads
  /\ report = Nothing \/ report \in [thread : CppThreads, exception : Exceptions, trace : Traces]
  /\ callers \subseteq CppThreads /\ enabler \in CppThreads \cup {Nothing}
  /\ latest \in [CppThreads -> Exceptions \cup {Nothing}]

CppInit ==
  /\ overriding \in BOOLEAN /\ objc \in NSChoices
  /\ cppEnabled = FALSE /\ cppState = "NotInstalled" /\ swapEnabled = FALSE /\ rebound = FALSE
  /\ capture = [t \in CppThreads |-> FALSE] /\ stackCursor = [t \in CppThreads |-> Unset]
  /\ flying = [t \in CppThreads |-> <<>>] /\ thrown = {} /\ caught = {}
  /\ terminating = {} /\ report = Nothing /\ cppEnded = FALSE
  /\ callers = {} /\ enabler = Nothing /\ latest = [t \in CppThreads |-> Nothing]
  /\ covered = {} /\ rethrown = {}

cppIsEnabled  == cppEnabled /\ cppState = "Installed"
Unhindered(t) == ~ cppEnded /\ t \notin terminating

-----------------------------------------------------------------------------
\* Only the thread that calls may take traces from now on.  The first time,
\* install() makes its cursor an empty one and sets the terminate handler.
cppSetEnabled(t, e) ==
  /\ Unhindered(t) /\ cppEnabled # e
  /\ cppEnabled' = e
  /\ IF e /\ cppState = "NotInstalled"
     THEN cppState' = "Installed" /\ stackCursor' = [stackCursor EXCEPT ![t] = Empty]
     ELSE UNCHANGED <<cppState, stackCursor>>
  /\ capture' = [capture EXCEPT ![t] = cppEnabled' /\ cppState' = "Installed"]
  /\ callers' = callers \cup {t}
  /\ enabler' = IF e THEN t ELSE Nothing
  /\ UNCHANGED <<cppProgram, swap, flight, outcome, throws>>

\* kscm_enableSwapCxaThrow(): the flag, and later the images
enableSwap ==
  /\ ~ cppEnded /\ ~ swapEnabled
  /\ swapEnabled' = TRUE
  /\ UNCHANGED <<cppProgram, switches, rebound, traces, flight, outcome, setters, throws>>

SwapImages ==
  /\ ~ cppEnded /\ swapEnabled /\ ~ rebound
  /\ rebound' = TRUE
  /\ UNCHANGED <<cppProgram, switches, swapEnabled, traces, flight, outcome, setters, throws>>

-----------------------------------------------------------------------------
\* Mutant of captureStackTrace: a trace that is there is kept.
captureStackTraceOnce(t, e) ==
  stackCursor' = IF e \notin objc /\ capture[t] /\ stackCursor[t] \in {Unset, Empty}
                 THEN [stackCursor EXCEPT ![t] = e] ELSE stackCursor

captureStackTrace(t, e) ==
  stackCursor' = IF e \notin objc /\ capture[t] THEN [stackCursor EXCEPT ![t] = e] ELSE stackCursor

\* The monitor's __cxa_throw() leaves the trace to the other way as soon as that
\* has been asked for.
ThrowException(t, e) ==
  LET reached == (overriding /\ ~ swapEnabled) \/ rebound IN
  /\ Unhindered(t) /\ e \notin thrown
  /\ IF reached THEN captureStackTrace(t, e) ELSE UNCHANGED stackCursor
  /\ flying' = [flying EXCEPT ![t] = Append(@, e)]
  /\ thrown' = thrown \cup {e}
  /\ latest' = [latest EXCEPT ![t] = e]
  /\ covered' = IF reached /\ enabler = t THEN covered \cup {e} ELSE covered
  /\ UNCHANGED <<cppProgram, switches, swap, capture, caught, outcome, setters, rethrown>>

\* The innermost exception is caught, and may be kept (std::exception_ptr).
Catch(t) ==
  /\ Unhindered(t) /\ flying[t] # <<>>
  /\ caught' = caught \cup {Last(flying[t])}
  /\ flying' = [flying EXCEPT ![t] = Front(@)]
  /\ UNCHANGED <<cppProgram, switches, swap, traces, thrown, outcome, setters, throws>>

\* std::rethrow_exception(), on whichever thread, or throw; (once, to bound it)
Rethrow(t, e) ==
  /\ Unhindered(t) /\ e \in caught \ rethrown
  /\ caught' = caught \ {e}
  /\ flying' = [flying EXCEPT ![t] = Append(@, e)]
  /\ rethrown' = rethrown \cup {e}
  /\ UNCHANGED <<cppProgram, switches, swap, traces, thrown, outcome, setters, latest, covered>>

\* CPPExceptionTerminate(): nobody catches the innermost exception.  The
\* original handler ends the process if this one does not report it: it is an
\* NSException, or the monitor is not enabled.  While another thread reports, this
\* one sleeps in notify(), and goes on if the process has not ended by then.
\* Without an exception (std::terminate() was called) there is no type, and
\* asking for its name is a fault.
Terminate(t) ==
  /\ Unhindered(t) /\ cppState = "Installed"
  /\ IF flying[t] # <<>> /\ Last(flying[t]) \notin objc /\ cppIsEnabled
     THEN terminating' = terminating \cup {t} /\ capture' = [capture EXCEPT ![t] = FALSE] /\ UNCHANGED cppEnded
     ELSE cppEnded' = TRUE /\ UNCHANGED <<terminating, capture>>
  /\ UNCHANGED <<cppProgram, switches, swap, stackCursor, flight, report, setters, throws>>

\* After the exception's description has been found: a cursor that was never
\* set becomes a trace of this thread, whose stack is still that of the throw.
ReportException(t) ==
  LET e == Last(flying[t]) IN
  /\ ~ cppEnded /\ t \in terminating
  /\ capture' = [capture EXCEPT ![t] = cppIsEnabled]
  /\ stackCursor' = [stackCursor EXCEPT ![t] = IF @ # Unset THEN @ ELSE IF e \in rethrown THEN Here ELSE e]
  /\ report' = [thread |-> t, exception |-> e, trace |-> stackCursor'[t]]
  /\ cppEnded' = TRUE
  /\ UNCHANGED <<cppProgram, switches, swap, flight, terminating, setters, throws>>

CppEnded == cppEnded /\ UNCHANGED cppVars

CppNext ==
  \/ \E t \in CppThreads, e \in BOOLEAN : cppSetEnabled(t, e)
  \/ enableSwap \/ SwapImages
  \/ \E t \in CppThreads, e \in Exceptions : ThrowException(t, e) \/ Rethrow(t, e)
  \/ \E t \in CppThreads : Catch(t) \/ Terminate(t) \/ ReportException(t)
  \/ CppEnded

CppSpec == CppInit /\ [][CppNext]_cppVars

-----------------------------------------------------------------------------
\* The trace that is reported with an exception is that of its throw, and not
\* of another exception on the same or another thread, if this was the last
\* throw of the thread and either the thread had enabled the monitor and its
\* throw reached it, or the thread has never set the monitor and the exception
\* comes straight from its throw.
TraceExact ==
  \/ report = Nothing
  \/ LET e == report.exception IN
     latest[report.thread] = e /\ (e \in covered \/ (report.thread \notin callers /\ e \notin rethrown)) =>
       report.trace = e
=============================================================================
