------------------------- MODULE KSCrashMonitor_Signal -------------------------
(***************************************************************************)
(* KSCrashMonitor_Signal.c: how the handlers of the fatal signals are      *)
(* replaced, and put back by the first handler that runs; signals come at  *)
(* any time, on any thread, also inside install() and uninstall().         *)
(*                                                                         *)
(* A signal is blocked on its thread while its handler runs there, and     *)
(* other signals are not (sa_mask is empty).  What the handler raises at   *)
(* its end is delivered when it returns, before what it had interrupted    *)
(* goes on.  Recording the report is KSCrashMonitor's business.            *)
(***************************************************************************)
EXTENDS Integers, Sequences, SequencesExt

CONSTANTS
  Installer, Others,   \* the thread that installs the handlers, and the others
  Count,               \* kssignal_numFatalSignals()
  Ignored,             \* signals that were ignored before install()
  MaxSignals           \* bound: signals that are sent

ASSUME SignalAssumption == Count \in Nat /\ MaxSignals \in Nat

Signals == 1 .. Count
Receivers == {Installer} \cup Others

VARIABLES
  enabled, state,      \* isEnabled and installedState
  action, previous,    \* handlers in place, and previousSignalHandlers
  stack,               \* the alternate stack: none, live, or freed
  install,             \* where install() is
  frames,              \* by thread: the handlers that run, the innermost last
  sent, ended,         \* signals so far; the process has ended
  interrupted,         \* history: a handler has run before install() had returned
  nested,              \* history: a signal has come on a thread that was inside uninstall()
  crowded              \* history: two handlers have run at the same time

signalVars == <<enabled, state, action, previous, stack, install, frames, sent, ended, interrupted, nested, crowded>>

Frames == [signal : Signals, at : {"check", "report", "uninstall", "restore", "free", "raise"},
           i : 1 .. Count + 1, again : BOOLEAN]

SignalTypeOK ==
  /\ {enabled, ended, interrupted, nested, crowded} \subseteq BOOLEAN
  /\ state \in {"NotInstalled", "Installed", "Uninstalled", "FailedInstall"}
  /\ action \in [Signals -> {"original", "ours", "garbage"}]
  /\ previous \in [Signals -> {"original", "garbage"}]
  /\ stack \in {"none", "live", "freed"}
  /\ install \in [at : {"idle", "stack", "handlers", "undo"}, i : 0 .. Count + 1]
  /\ frames \in [Receivers -> Seq(Frames)]
  /\ sent \in 0 .. MaxSignals

SignalInit ==
  /\ enabled = FALSE /\ state = "NotInstalled"
  /\ action = [s \in Signals |-> "original"]
  /\ previous = [s \in Signals |-> "garbage"]      \* comes from malloc()
  /\ stack = "none"
  /\ install = [at |-> "idle", i |-> 1]
  /\ frames = [t \in Receivers |-> <<>>]
  /\ sent = 0 /\ ended = FALSE /\ interrupted = FALSE /\ nested = FALSE /\ crowded = FALSE

-----------------------------------------------------------------------------
(***************************************************************************)
(* The system                                                              *)
(***************************************************************************)
Frame(s, again) == [signal |-> s, at |-> "check", i |-> 1, again |-> again]
Running(t)      == frames[t] # <<>>
Top(t)          == frames[t][Len(frames[t])]

\* Signal s on thread t, whose handlers are fs: the handler that is in place is
\* called.  The original one ignores the signal or ends the process; what
\* malloc() had left does anything.
Deliver(s, t, fs, again) ==
  CASE action[s] = "ours" ->
         /\ frames' = [frames EXCEPT ![t] = Append(fs, Frame(s, again))]
         /\ interrupted' = (interrupted \/ install.at # "idle")
         /\ crowded' = (crowded \/ fs # <<>> \/ \E u \in Receivers \ {t} : Running(u))
         /\ UNCHANGED ended
    [] action[s] = "original" /\ s \in Ignored ->
         frames' = [frames EXCEPT ![t] = fs] /\ UNCHANGED <<ended, interrupted, crowded>>
    [] OTHER ->
         frames' = [frames EXCEPT ![t] = fs] /\ ended' = TRUE /\ UNCHANGED <<interrupted, crowded>>

Uninstalling(f) == f.at \in {"restore", "free"}

\* A thread faults, or someone sends it a signal.
Send(s, t) ==
  /\ ~ ended /\ sent < MaxSignals
  /\ \A j \in DOMAIN frames[t] : frames[t][j].signal # s
  /\ sent' = sent + 1
  /\ nested' = (nested \/ (Running(t) /\ Uninstalling(Top(t))))
  /\ Deliver(s, t, frames[t], FALSE)
  /\ UNCHANGED <<enabled, state, action, previous, stack, install>>

-----------------------------------------------------------------------------
(***************************************************************************)
(* setEnabled() and install()                                              *)
(***************************************************************************)
\* install() goes on when no handler runs on its thread.
Installing == ~ ended /\ ~ Running(Installer)

\* The compare-and-exchange of isEnabled, then that of installedState
setEnabled(e) ==
  /\ Installing /\ install.at = "idle"
  /\ enabled' = e
  /\ IF e /\ ~ enabled /\ state = "NotInstalled"
     THEN state' = "Installed" /\ install' = [at |-> "stack", i |-> 1]
     ELSE UNCHANGED <<state, install>>
  /\ UNCHANGED <<action, previous, stack, frames, sent, ended, interrupted, nested, crowded>>

InstallFails == state' = "FailedInstall" /\ install' = [install EXCEPT !.at = "idle"]

SetStack ==
  /\ Installing /\ install.at = "stack"
  /\ \/ stack' = "live" /\ install' = [install EXCEPT !.at = "handlers"] /\ UNCHANGED state
     \/ InstallFails /\ UNCHANGED stack
  /\ UNCHANGED <<enabled, action, previous, frames, sent, ended, interrupted, nested, crowded>>

\* sigaction(), one signal at a time; the handler it replaces is stored.
SetHandler ==
  /\ Installing /\ install.at = "handlers" /\ install.i <= Count
  /\ \/ /\ action' = [action EXCEPT ![install.i] = "ours"]
        /\ previous' = [previous EXCEPT ![install.i] = action[install.i]]
        /\ install' = [install EXCEPT !.i = @ + 1]
     \/ /\ install' = [at |-> "undo", i |-> install.i - 1]
        /\ UNCHANGED <<action, previous>>
  /\ UNCHANGED <<enabled, state, stack, frames, sent, ended, interrupted, nested, crowded>>

\* "Try to reverse the damage"
UndoHandler ==
  /\ Installing /\ install.at = "undo"
  /\ IF install.i = 0 THEN InstallFails /\ UNCHANGED action
     ELSE /\ action' = [action EXCEPT ![install.i] = previous[install.i]]
          /\ install' = [install EXCEPT !.i = @ - 1]
          /\ UNCHANGED state
  /\ UNCHANGED <<enabled, previous, stack, frames, sent, ended, interrupted, nested, crowded>>

InstallReturns ==
  /\ Installing /\ install.at = "handlers" /\ install.i = Count + 1
  /\ install' = [install EXCEPT !.at = "idle"]
  /\ UNCHANGED <<enabled, state, action, previous, stack, frames, sent, ended, interrupted, nested, crowded>>

-----------------------------------------------------------------------------
(***************************************************************************)
(* handleSignal() and uninstall()                                          *)
(***************************************************************************)
SetTop(t, f)  == frames' = [frames EXCEPT ![t] = Append(Front(@), f)]
Moves(t, to)  == SetTop(t, [Top(t) EXCEPT !.at = to])

isEnabled(t) ==
  /\ Top(t).at = "check"
  /\ Moves(t, IF enabled /\ state = "Installed" THEN "report" ELSE "uninstall")
  /\ UNCHANGED <<state, action, stack, ended, interrupted, crowded>>

\* notify() and handle(); or notify() says that this must end at once.
Report(t) ==
  /\ Top(t).at = "report"
  /\ Moves(t, "uninstall")
  /\ UNCHANGED <<state, action, stack, ended, interrupted, crowded>>

\* Only one of several handlers restores what there was before.
Uninstall(t) ==
  /\ Top(t).at = "uninstall"
  /\ IF state = "Installed" THEN state' = "Uninstalled" /\ Moves(t, "restore")
     ELSE Moves(t, "raise") /\ UNCHANGED state
  /\ UNCHANGED <<action, stack, ended, interrupted, crowded>>

\* Mutant of Restore: one signal too few.
RestoreShort(t) ==
  LET f == Top(t) IN
  /\ f.at = "restore"
  /\ IF f.i < Count
     THEN /\ action' = [action EXCEPT ![f.i] = previous[f.i]]
          /\ SetTop(t, [f EXCEPT !.i = @ + 1])
     ELSE Moves(t, "free") /\ UNCHANGED action
  /\ UNCHANGED <<state, stack, ended, interrupted, crowded>>

Restore(t) ==
  LET f == Top(t) IN
  /\ f.at = "restore"
  /\ IF f.i <= Count
     THEN /\ action' = [action EXCEPT ![f.i] = previous[f.i]]
          /\ SetTop(t, [f EXCEPT !.i = @ + 1])
     ELSE Moves(t, "free") /\ UNCHANGED action
  /\ UNCHANGED <<state, stack, ended, interrupted, crowded>>

\* The alternate stack of the installing thread is freed, by whichever thread.
Free(t) ==
  /\ Top(t).at = "free"
  /\ stack' = "freed"
  /\ Moves(t, "raise")
  /\ UNCHANGED <<state, action, ended, interrupted, crowded>>

\* raise(): the signal comes again as soon as the handler has returned.
RaiseAgain(t) ==
  /\ Top(t).at = "raise"
  /\ Deliver(Top(t).signal, t, Front(frames[t]), TRUE)
  /\ UNCHANGED <<state, action, stack>>

handleSignal(t) ==
  /\ ~ ended /\ Running(t)
  /\ isEnabled(t) \/ Report(t) \/ Uninstall(t) \/ Restore(t) \/ Free(t) \/ RaiseAgain(t)
  /\ UNCHANGED <<enabled, previous, install, sent, nested>>

\* The process has ended.
Ended == ended /\ UNCHANGED signalVars

SignalNext ==
  \/ \E s \in Signals, t \in Receivers : Send(s, t)
  \/ \E e \in BOOLEAN : setEnabled(e)
  \/ SetStack \/ SetHandler \/ UndoHandler \/ InstallReturns
  \/ \E t \in Receivers : handleSignal(t)
  \/ Ended

SignalSpec == SignalInit /\ [][SignalNext]_signalVars

-----------------------------------------------------------------------------
\* "Restore the default signal handlers ... re-raise the signal and let the
\* default handlers deal with it": when no handler runs, ours are either in
\* place, all of them, or none is and the original ones are back; a handler
\* that is called again by what it has raised finds another thread that still
\* restores the handlers, so that it does not call itself forever; and a lone
\* handler does not report from a stack that has been freed.  Except if a
\* signal has come before install() had returned, which puts back handlers
\* that were never stored, or on a thread that was inside uninstall().
SignalsRestored ==
  ~ interrupted /\ ~ nested =>
    /\ install.at = "idle" /\ (\A t \in Receivers : ~ Running(t)) =>
         \A s \in Signals : action[s] = IF state = "Installed" THEN "ours" ELSE "original"
    /\ \A t \in Receivers : Running(t) /\ Top(t).again /\ action[Top(t).signal] = "ours" =>
         \E u \in Receivers \ {t} : Running(u) /\ Top(u).at = "restore" /\ Top(u).i <= Top(t).signal
    /\ Running(Installer) /\ Top(Installer).at \in {"check", "report"} /\ stack = "freed" => crowded
=============================================================================
