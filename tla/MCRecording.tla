----------------------------- MODULE MCRecording -----------------------------
(***************************************************************************)
(* What the monitors put in place of the system's own, and take back:      *)
(* handlers of mach exceptions and of signals, __cxa_throw, dealloc; and   *)
(* handlers that crash.  They share no state here, so each behaviour is a  *)
(* behaviour of one of them.                                               *)
(***************************************************************************)
EXTENDS KSCrashMonitor, KSCrashMonitor_Signal, KSCxaThrowSwapper, KSCrashMonitor_MachException,
        KSCrashMonitor_CPPException, KSCrashMonitor_Zombie, TLC

VARIABLE unit    \* the component whose behaviour this is

\* Addresses that share a slot
hash == [a \in Addresses |-> 1]

-----------------------------------------------------------------------------
Units == {"recrash", "swap", "mach", "signal", "cpp", "zombie"}

MCInit ==
  /\ unit \in Units
  /\ Init /\ SwapInit /\ MachInit /\ SignalInit /\ CppInit /\ ZombieInit
  /\ unit = "mach" \/ chained = FALSE
  /\ unit = "cpp" \/ (overriding = FALSE /\ objc = {})

MCNext ==
  /\ UNCHANGED unit
  /\ \/ unit = "recrash" /\ Next /\ UNCHANGED <<swapVars, machVars, signalVars, cppVars, zombieVars>>
     \/ unit = "swap" /\ SwapNext /\ UNCHANGED <<vars, machVars, signalVars, cppVars, zombieVars>>
     \/ unit = "mach" /\ MachNext /\ UNCHANGED <<vars, swapVars, signalVars, cppVars, zombieVars>>
     \/ unit = "signal" /\ SignalNext /\ UNCHANGED <<vars, swapVars, machVars, cppVars, zombieVars>>
     \/ unit = "cpp" /\ CppNext /\ UNCHANGED <<vars, swapVars, machVars, signalVars, zombieVars>>
     \/ unit = "zombie" /\ ZombieNext /\ UNCHANGED <<vars, swapVars, machVars, signalVars, cppVars>>

MCSpec == MCInit /\ [][MCNext]_<<unit, vars, swapVars, machVars, signalVars, cppVars, zombieVars>>

\* The two mach handlers are interchangeable, the two threads that throw, and the
\* two that deallocate.  Each behaviour has to do with one of these pairs, so all
\* are exchanged at once.
Pairs    == {MachThreads, CppThreads, Deallocators}
Symmetry ==
  {f \in Permutations(UNION Pairs) : \E exchanged \in BOOLEAN :
     \A pair \in Pairs : \A t \in pair : (f[t] # t) = exchanged /\ f[t] \in pair}

-----------------------------------------------------------------------------
\* Every variable of every component has its type.
UnitsTypeOK ==
  CASE unit = "recrash"   -> TypeOK
    [] unit = "swap"      -> SwapTypeOK
    [] unit = "mach"      -> MachTypeOK
    [] unit = "signal"    -> SignalTypeOK
    [] unit = "cpp"       -> CppTypeOK
    [] unit = "zombie"    -> ZombieTypeOK
=============================================================================
