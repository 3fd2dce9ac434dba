--------------------- MODULE KSCrashMonitor_MachException ---------------------
(***************************************************************************)
(* The two handler threads of KSCrashMonitor_MachException.c, the ports    *)
(* they are called through, and how those are handed on: from the primary  *)
(* handler to the secondary one and to whoever was there before.           *)
(*                                                                         *)
(* The task has one port for all the exceptions that are of interest.      *)
(* Contexts are numbered as in the code: 0 are the original handlers, 1    *)
(* and 2 the secondary and the primary handler.  The kernel is external: a *)
(* fault sends a message to the task's port and waits for the reply; after *)
(* KERN_SUCCESS the thread faults again, after KERN_FAILURE, or when there *)
(* is nobody behind the port, the process ends.                            *)
(***************************************************************************)
EXTENDS Integers, FiniteSets

CONSTANTS
  Faulters,  \* the application's threads that fault
  NoOne

Handlers == {1, 2}
System   == 0
NoPorts  == -1    \* a restore point with nothing in it

ASSUME MachAssumption == Faulters \cap Handlers = {} /\ NoOne \notin Faulters \cup Handlers

VARIABLES
  chained,                \* the original ports are valid: there is a debugger, or another reporter
  machEnabled, machState, \* isEnabled and installedState
  port,                   \* the port of the task
  live,                   \* the ports of ours that exist
  restore, current,       \* the restore points, and currentRestorePoint
  at, request,            \* where a handler thread is, and the thread whose fault it deals with
  handling,               \* isHandlingException
  queue,                  \* threads that wait for an answer, by port
  machInstall,            \* where install() is: a step, and the context
  faults,                 \* threads that have ever faulted
  machEnded,              \* the process has ended
  told, reported,         \* history: faults that reached the original handlers, and those that were
                          \* reported, or that came when this monitor was not there or not enabled
  broken,                 \* history: a call of the kernel has failed, or a port was destroyed at which someone waited
  early                   \* history: a thread faulted into the secondary handler before the primary one was in place

switching == <<chained, machEnabled, machState>>
handlers  == <<at, request, handling>>
ports     == <<port, live, restore, current>>
machVars  == <<switching, ports, handlers, queue, machInstall, faults, machEnded, told, reported, broken, early>>

HandlerSteps == {"none", "waiting", "received", "next", "handle", "handled", "finish", "original", "reply",
                 "dealloc", "gone", "faulted"}
Faulting == Faulters \cup Handlers

MachTypeOK ==
  /\ chained \in BOOLEAN /\ machEnabled \in BOOLEAN /\ machEnded \in BOOLEAN
  /\ broken \in BOOLEAN /\ early \in BOOLEAN
  /\ machState \in {"NotInstalled", "Installed", "Uninstalled", "FailedInstall"}
  /\ port \in {System} \cup Handlers /\ live \subseteq Handlers
  /\ restore \in [{System} \cup Handlers -> {NoPorts, System} \cup Handlers]
  /\ current \in {System} \cup Handlers
  /\ at \in [Handlers -> HandlerSteps]
  /\ request \in [Handlers -> Faulting \cup {NoOne}]
  /\ handling \subseteq Handlers
  /\ queue \in [Handlers -> SUBSET Faulting]
  /\ faults \subseteq Faulting /\ told \subseteq Faulting /\ reported \subseteq Faulting

MachInit ==
  /\ chained \in BOOLEAN
  /\ machEnabled = FALSE /\ machState = "NotInstalled"
  /\ port = System /\ live = {}
  /\ restore = [h \in {System} \cup Handlers |-> NoPorts] /\ current = System
  /\ at = [h \in Handlers |-> "none"] /\ request = [h \in Handlers |-> NoOne] /\ handling = {}
  /\ queue = [h \in Handlers |-> {}]
  /\ machInstall = [step |-> "idle", index |-> 1]
  /\ faults = {} /\ machEnded = FALSE /\ told = {} /\ reported = {} /\ broken = FALSE /\ early = FALSE

-----------------------------------------------------------------------------
(***************************************************************************)
(* The kernel                                                              *)
(***************************************************************************)
\* The thread's fault goes to the port of the task.
Delivered(t) ==
  IF port = System THEN
    IF chained THEN told' = told \cup {t} /\ UNCHANGED <<queue, machEnded>>
    ELSE machEnded' = TRUE /\ UNCHANGED <<queue, told>>
  ELSE IF port \in live THEN queue' = [queue EXCEPT ![port] = @ \cup {t}] /\ UNCHANGED <<machEnded, told>>
  ELSE machEnded' = TRUE /\ UNCHANGED <<queue, told>>

\* A thread of the application faults, once.
Fault(t) ==
  /\ ~ machEnded /\ t \notin faults
  /\ faults' = faults \cup {t}
  /\ Delivered(t)
  /\ early' = (early \/ (port = 1 /\ machInstall.step # "idle"))
  /\ reported' = IF port = System THEN reported \cup {t} ELSE reported
  /\ UNCHANGED <<switching, ports, handlers, machInstall, broken>>

-----------------------------------------------------------------------------
(***************************************************************************)
(* setEnabled() and install()                                              *)
(***************************************************************************)
MachInstallStep(s) == machInstall' = [machInstall EXCEPT !.step = s]

\* The compare-and-exchange of both states; what follows is done once.
machSetEnabled(e) ==
  /\ ~ machEnded /\ machInstall.step = "idle"
  /\ machEnabled' = e
  /\ IF e /\ ~ machEnabled /\ machState = "NotInstalled"
     THEN machState' = "Installed" /\ MachInstallStep("save") ELSE UNCHANGED <<machState, machInstall>>
  /\ UNCHANGED <<chained, ports, handlers, queue, faults, machEnded, told, reported, broken, early>>

\* deallocExceptionHandler(): the context is cleared and the port destroyed.
\* Those who wait at it are not answered, and that ends the process.
deallocExceptionHandler(h) ==
  /\ restore' = [restore EXCEPT ![h] = NoPorts]
  /\ live' = live \ {h}
  /\ machEnded' = (queue[h] # {})
  /\ broken' = (broken \/ queue[h] # {})

\* saveExceptionPortsRestorePoint() of the original handlers
SaveOriginal ==
  /\ ~ machEnded /\ machInstall.step = "save"
  /\ \/ restore' = [restore EXCEPT ![System] = port] /\ MachInstallStep("start") /\ UNCHANGED <<machState, broken>>
     \/ machState' = "FailedInstall" /\ MachInstallStep("idle") /\ broken' = TRUE /\ UNCHANGED restore
  /\ UNCHANGED <<chained, machEnabled, port, live, current, handlers, queue, faults, machEnded, told, reported, early>>

\* startNewExceptionHandler(): a port, which then is the task's, and is saved
\* as the restore point of this context; or a failure at any of the steps.
AllocatePort ==
  /\ ~ machEnded /\ machInstall.step = "start"
  /\ LET h == machInstall.index IN live' = live \cup {h} /\ restore' = [restore EXCEPT ![h] = NoPorts]
  /\ MachInstallStep("set")
  /\ UNCHANGED <<switching, port, current, handlers, queue, faults, machEnded, told, reported, broken, early>>

SetPort ==
  /\ ~ machEnded /\ machInstall.step = "set"
  /\ port' = machInstall.index
  /\ MachInstallStep("savePort")
  /\ UNCHANGED <<switching, live, restore, current, handlers, queue, faults, machEnded, told, reported, broken, early>>

SavePort ==
  /\ ~ machEnded /\ machInstall.step = "savePort"
  /\ restore' = [restore EXCEPT ![machInstall.index] = port]
  /\ MachInstallStep("thread")
  /\ UNCHANGED <<switching, port, live, current, handlers, queue, faults, machEnded, told, reported, broken, early>>

\* pthread_create(); the secondary handler first, then the primary one.
StartThread ==
  /\ ~ machEnded /\ machInstall.step = "thread"
  /\ at' = [at EXCEPT ![machInstall.index] = "waiting"]
  /\ IF machInstall.index = 1 THEN machInstall' = [step |-> "start", index |-> 2] ELSE MachInstallStep("idle")
  /\ UNCHANGED <<switching, ports, request, handling, queue, faults, machEnded, told, reported, broken, early>>

\* onFailure: nothing is put back.
StartFails ==
  /\ ~ machEnded /\ machInstall.step \in {"start", "set", "savePort", "thread"}
  /\ machState' = "FailedInstall"
  /\ restore' = [restore EXCEPT ![machInstall.index] = NoPorts]
  /\ live' = live \ {machInstall.index}
  /\ machEnded' = (queue[machInstall.index] # {})
  /\ broken' = TRUE
  /\ MachInstallStep("idle")
  /\ UNCHANGED <<chained, machEnabled, port, current, handlers, queue, faults, told, reported, early>>

-----------------------------------------------------------------------------
(***************************************************************************)
(* exceptionHandlerThreadMain()                                            *)
(***************************************************************************)
Becomes(h, s) == at' = [at EXCEPT ![h] = s]

\* waitForException()
Receive(h) ==
  /\ at[h] = "waiting"
  /\ \E t \in queue[h] : request' = [request EXCEPT ![h] = t] /\ queue' = [queue EXCEPT ![h] = @ \ {t}]
  /\ Becomes(h, "received")
  /\ UNCHANGED <<machState, ports, handling, machEnded, told, reported, broken>>

CheckEnabled(h) ==
  /\ at[h] = "received"
  /\ IF machEnabled /\ machState = "Installed" THEN Becomes(h, "next") /\ UNCHANGED reported
     ELSE Becomes(h, "finish") /\ reported' = reported \cup {request[h]}
  /\ UNCHANGED <<machState, ports, request, handling, queue, machEnded, told, broken>>

\* restoreExceptionPorts(): a restore point with nothing in it changes nothing.
restoreExceptionPorts(j) ==
  /\ current' = j
  /\ port' = IF restore[j] = NoPorts THEN port ELSE restore[j]
  /\ UNCHANGED <<live, restore>>

\* Mutant of RestoreNext: the ports of this level, not of the next one.
RestoreNextOwn(h) ==
  /\ at[h] = "next"
  /\ restoreExceptionPorts(h)
  /\ Becomes(h, "handle")
  /\ UNCHANGED <<machState, request, handling, queue, machEnded, told, reported, broken>>

\* restoreNextLevelExceptionPorts(), "in case we crash while handling this"
RestoreNext(h) ==
  /\ at[h] = "next"
  /\ \/ restoreExceptionPorts(h - 1) /\ Becomes(h, "handle") /\ UNCHANGED broken
     \/ current' = h - 1 /\ Becomes(h, "finish") /\ broken' = TRUE /\ UNCHANGED <<port, live, restore>>
  /\ UNCHANGED <<machState, request, handling, queue, machEnded, told, reported>>

\* handleException(): the report is written, or writing it faults.
HandleRequest(h) ==
  /\ at[h] = "handle"
  /\ handling' = handling \cup {h}
  /\ \/ /\ reported' = reported \cup {request[h]}
        /\ Becomes(h, "handled") /\ UNCHANGED <<queue, machEnded, told>>
     \/ /\ Becomes(h, "faulted") /\ Delivered(h) /\ UNCHANGED reported
  /\ UNCHANGED <<machState, ports, request, broken>>

Handled(h) ==
  /\ at[h] = "handled"
  /\ handling' = handling \ {h}
  /\ Becomes(h, "finish")
  /\ UNCHANGED <<machState, ports, request, queue, machEnded, told, reported, broken>>

Finish(h) ==
  /\ at[h] = "finish"
  /\ machState' = "Uninstalled"
  /\ Becomes(h, "original")
  /\ UNCHANGED <<ports, request, handling, queue, machEnded, told, reported, broken>>

\* restoreOriginalExceptionPorts(), whose result nobody looks at
RestoreOriginal(h) ==
  /\ at[h] = "original"
  /\ \/ restoreExceptionPorts(System) /\ UNCHANGED broken
     \/ current' = System /\ broken' = TRUE /\ UNCHANGED <<port, live, restore>>
  /\ Becomes(h, "reply")
  /\ UNCHANGED <<machState, request, handling, queue, machEnded, told, reported>>

\* canCurrentPortsHandleException()
canCurrentPortsHandle ==
  CASE restore[current] = NoPorts  -> FALSE
    [] restore[current] = System -> chained
    [] OTHER                     -> TRUE

\* sendExceptionReply(): the thread faults again, into the task's port as it is
\* now, or the process ends.
Reply(h) ==
  /\ at[h] = "reply"
  /\ IF canCurrentPortsHandle THEN Delivered(request[h]) ELSE machEnded' = TRUE /\ UNCHANGED <<queue, told>>
  /\ request' = [request EXCEPT ![h] = NoOne]
  /\ Becomes(h, "dealloc")
  /\ UNCHANGED <<machState, ports, handling, reported, broken>>

DeallocHandler(h) ==
  /\ at[h] = "dealloc"
  /\ Becomes(h, "gone")
  /\ IF h \in handling THEN UNCHANGED <<restore, live, machEnded, broken>> ELSE deallocExceptionHandler(h)
  /\ UNCHANGED <<machState, port, current, request, handling, queue, told, reported>>

Handler(h) ==
  /\ ~ machEnded
  /\ \/ Receive(h) \/ CheckEnabled(h) \/ RestoreNext(h) \/ HandleRequest(h) \/ Handled(h)
     \/ Finish(h) \/ RestoreOriginal(h) \/ Reply(h) \/ DeallocHandler(h)
  /\ UNCHANGED <<chained, machEnabled, machInstall, faults, early>>

\* The process has ended.
MachEnded == machEnded /\ UNCHANGED machVars

MachNext ==
  \/ \E t \in Faulters : Fault(t)
  \/ \E e \in BOOLEAN : machSetEnabled(e)
  \/ SaveOriginal \/ AllocatePort \/ SetPort \/ SavePort \/ StartThread \/ StartFails
  \/ \E h \in Handlers : Handler(h)
  \/ MachEnded

MachSpec == MachInit /\ [][MachNext]_machVars

-----------------------------------------------------------------------------
Waits(t, h) == t \in queue[h] \/ (t = request[h] /\ at[h] # "faulted")

\* Nobody waits for an answer that will not come: behind a port where somebody
\* waits, there is a handler thread, or one is about to be started; and a
\* handler that has faulted never waits for itself, nor two for each other,
\* unless a fault had come while install() was between its two handlers: the
\* primary one then hands the task back to a secondary one that is busy.
NobodyHangs ==
  ~ machEnded =>
    /\ \A h \in Handlers : queue[h] # {} =>
         \/ at[h] \notin {"none", "gone"}
         \/ at[h] = "none" /\ machInstall.index = h /\ machInstall.step # "idle"
    /\ ~ early => \A h \in Handlers : at[h] = "faulted" => ~ Waits(h, h)
    /\ ~ early => ~ (Waits(1, 2) /\ Waits(2, 1))

\* "In order to chain to other Mach exception handlers": if there are others,
\* no fault ends the process before they are told, unless the kernel has
\* refused something or a second thread was waiting at a port that is given
\* up (or in the case that NobodyHangs leaves out); and they are told of a
\* fault after it has been reported, unless it came when this monitor was not
\* in place, or not enabled.
ChainKept ==
  /\ chained /\ machEnded => broken \/ early
  /\ (told \cap Faulters) \ reported # {} => broken

\* Mach exceptions: nobody waits for an answer that does not come, and whoever
\* was there before is told, after the report.
MachSound == NobodyHangs /\ ChainKept
=============================================================================
