------------------------------ MODULE MCReport ------------------------------
(***************************************************************************)
(* How reports come about: the hang monitor, the files of a report, and    *)
(* the lookup of the addresses in it.  They share no state, so each        *)
(* behaviour is one of one of them.                                        *)
(***************************************************************************)
EXTENDS KSHangMonitor, KSCrashC, KSDynamicLinker, TLC

CONSTANTS
  t1, t2,   \* threads that handle exceptions
  c1, c2,   \* callers of the linker
  x, y, z   \* images

VARIABLE
  unit      \* the component whose behaviour this is

-----------------------------------------------------------------------------
(***************************************************************************)
(* As in the shared cache of dyld, a segment of y is between two of x, and  *)
(* they share their last one, which is not kept.  One of y has no content. *)
(* z has too many segments and cannot be linked.                           *)
(***************************************************************************)
Range(start, end, content) == [start |-> start, end |-> end, content |-> content]
Entry(value, stab)         == [value |-> value, stab |-> stab]

ImageSegments == x :> <<Range(1, 3, TRUE), Range(5, 6, TRUE), Range(12, 15, TRUE)>>
              @@ y :> <<Range(3, 5, TRUE), Range(8, 9, FALSE), Range(10, 11, TRUE), Range(12, 15, TRUE)>>
              @@ z :> <<Range(9, 10, FALSE), Range(6, 7, TRUE), Range(7, 8, TRUE), Range(8, 9, TRUE)>>

ImageSymbols  == x :> <<Entry(1, FALSE), Entry(0, FALSE), Entry(5, TRUE)>>
              @@ y :> <<Entry(3, FALSE), Entry(4, FALSE), Entry(4, FALSE)>>
              @@ z :> <<>>

\* The two callers do the same.
CallerSymmetry == Permutations({c1, c2})

-----------------------------------------------------------------------------
MCInit ==
  /\ unit \in {"hang", "event", "linker"}
  /\ Init
  /\ EventInit
  /\ LinkerInit

MCNext ==
  \/ unit = "hang" /\ Next /\ UNCHANGED <<unit, eventVars, linkerVars>>
  \/ unit = "event" /\ EventNext /\ UNCHANGED <<unit, vars, linkerVars>>
  \/ unit = "linker" /\ LinkerNext /\ UNCHANGED <<unit, vars, eventVars>>

MCSpec == MCInit /\ [][MCNext]_<<unit, vars, eventVars, linkerVars>>

-----------------------------------------------------------------------------
\* Every variable of every component has its type.
UnitsTypeOK ==
  CASE unit = "hang"   -> TypeOK
    [] unit = "event"  -> EventTypeOK
    [] unit = "linker" -> LinkerTypeOK
=============================================================================
