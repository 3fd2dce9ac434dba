-------------------------- MODULE MCKSCrashMonitor --------------------------
(***************************************************************************)
(* Threads at the same time, in the exception dispatcher and in the list   *)
(* of monitors, and the application state through launches and crashes.    *)
(* These share no state here, so each behaviour is one of one of them.  The*)
(* threads are model values that the configurations supply.                *)
(***************************************************************************)
EXTENDS KSCrashMonitor, KSCrashMonitorRegistry, KSCrashMonitor_AppState, TLC

CONSTANT Units   \* the components whose behaviours are of interest

VARIABLE unit    \* the component whose behaviour this is

ASSUME RegistryHolds == RegistryAssumption

-----------------------------------------------------------------------------
MCInit == unit \in Units /\ Init /\ ListInit /\ StateInit

MCNext ==
  \/ unit = "dispatcher" /\ Next /\ UNCHANGED <<unit, listVars, stateVars>>
  \/ unit = "registry" /\ ListNext /\ UNCHANGED <<unit, vars, stateVars>>
  \/ unit = "app state" /\ StateNext /\ UNCHANGED <<unit, vars, listVars>>

MCSpec == MCInit /\ [][MCNext]_<<unit, vars, listVars, stateVars>>

\* Every variable of the dispatcher and of the application state has its type; the
\* list's is part of RegistrySound.
UnitsTypeOK == TypeOK /\ StateTypeOK

\* Application threads but the main one are interchangeable.
Symmetry == Permutations(AppThreads \ {MainThread})
=============================================================================
