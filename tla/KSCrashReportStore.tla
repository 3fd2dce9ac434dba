-------------------------- MODULE KSCrashReportStore --------------------------
(***************************************************************************)
(* The report store: KSCrashReportStoreC.c and KSCrashReportStore.m.       *)
(*                                                                         *)
(* An ID is g_nextUniqueIDHigh + g_nextUniqueIDLow, that is, a time in     *)
(* seconds shifted left by 23 plus a counter; here <<second, counter>>,    *)
(* ordered lexicographically.  The counter stays far below 2^23.  A report *)
(* is the number in the order in which reports are made.  g_mutex covers   *)
(* one action; kscrs_getNextCrashReport() and the report writer take no    *)
(* lock.                                                                   *)
(***************************************************************************)
EXTENDS Naturals, FiniteSets, FiniteSetsExt

CONSTANTS
  MaxReportCount,  \* config->maxReportCount
  MaxReports,      \* model bound: reports ever made
  MaxSecs,         \* model bound: seconds
  ClockBack,       \* may the clock be set back?
  SameSecond,      \* may the store be initialised twice in one second?
  Policy           \* reportCleanupPolicy

ASSUME StoreAssumption ==
  /\ {MaxReportCount, MaxReports} \subseteq Nat /\ MaxSecs \in Nat \ {0}
  /\ {ClockBack, SameSecond} \subseteq BOOLEAN
  /\ Policy \in {"never", "onSuccess", "always"}

VARIABLES
  sec,      \* the wall clock
  next,     \* the next ID
  disk,     \* the reports directory: the report each existing file holds
  whole,    \* reports that have been written to the end
  made,     \* how many reports have been made
  writer,   \* the report writer: "idle", "opening" or "writing"
  path,     \* the ID of the report being written
  report,   \* the report being written
  lost,     \* history: reports whose file could not be opened
  sender,   \* sendAllReportsWithCompletion: "idle", "counted", "listed", "sending"
  count,    \* reportCount in allReports
  ids,      \* reportIDs in allReports, those that are not garbage
  sending   \* the reports given to the sink

writing == <<writer, path, report, lost>>
send    == <<sender, count, ids, sending>>
vars    == <<sec, next, disk, whole, made, writing, send>>

Clock   == 1 .. MaxSecs
Reports == 1 .. MaxReports
IDs     == Clock \X (0 .. MaxReports)
NoID    == <<0, 0>>

Files == DOMAIN disk
OnDisk == {disk[f] : f \in Files}

\* compareInt64
Before(f, g) == f[1] < g[1] \/ (f[1] = g[1] /\ f[2] < g[2])

TypeOK ==
  /\ sec \in Clock
  /\ next \in IDs
  /\ Files \subseteq IDs /\ OnDisk \subseteq Reports
  /\ whole \subseteq Reports
  /\ made \in 0 .. MaxReports
  /\ writer \in {"idle", "opening", "writing"}
  /\ path \in IDs \cup {NoID} /\ report \in 0 .. MaxReports
  /\ lost \subseteq Reports
  /\ sender \in {"idle", "counted", "listed", "sending"}
  /\ count \in 0 .. MaxReports
  /\ ids \subseteq IDs
  /\ sending \subseteq Reports

Init ==
  /\ sec = 1
  /\ next = <<1, 0>>
  /\ disk = [f \in {} |-> 0]
  /\ whole = {}
  /\ made = 0
  /\ writer = "idle" /\ path = NoID /\ report = 0 /\ lost = {}
  /\ sender = "idle" /\ count = 0 /\ ids = {} /\ sending = {}

-----------------------------------------------------------------------------
Without(fs) == [f \in Files \ fs |-> disk[f]]
With(f, r)  == [g \in Files \cup {f} |-> IF g = f THEN r ELSE disk[g]]

\* The index of an ID in the array once qsort() has sorted it, and the first n.
Rank(fs, f)     == Cardinality({g \in fs : Before(g, f)})
Smallest(fs, n) == {f \in fs : Rank(fs, f) < n}

\* Mutant of Pruned: the array is taken from its wrong end.
PrunedNewest ==
  IF MaxReportCount > 0 /\ Cardinality(Files) > MaxReportCount
  THEN Files \ Smallest(Files, MaxReportCount) ELSE {}

\* pruneReports(): the files it deletes.
Pruned ==
  IF MaxReportCount > 0 /\ Cardinality(Files) > MaxReportCount
  THEN Smallest(Files, Cardinality(Files) - MaxReportCount) ELSE {}

\* initializeIDs()
BaseID == <<sec, 0>>

\* kscrs_initialize(): for every KSCrashReportStore that is made, too.
Initialize ==
  /\ SameSecond \/ next[1] # sec
  /\ disk' = Without(Pruned)
  /\ next' = BaseID
  /\ UNCHANGED <<sec, whole, made, writing, send>>

\* The process dies, at any point, and is launched again; kscrash_install()
\* initialises the store.
Relaunch ==
  /\ SameSecond \/ next[1] # sec
  /\ disk' = Without(Pruned)
  /\ next' = BaseID
  /\ writer' = "idle" /\ path' = NoID /\ report' = 0
  /\ sender' = "idle" /\ count' = 0 /\ ids' = {} /\ sending' = {}
  /\ UNCHANGED <<sec, whole, made, lost>>

Tick ==
  /\ sec' \in {sec + 1} \cup (IF ClockBack THEN {sec - 1} ELSE {})
  /\ sec' \in Clock
  /\ UNCHANGED <<next, disk, whole, made, writing, send>>

-----------------------------------------------------------------------------
(***************************************************************************)
(* Making reports                                                          *)
(***************************************************************************)

\* Mutant of NextID: the counter is advanced twice.
NextIDTwice == next' = <<next[1], next[2] + 2>>

\* getNextUniqueID()
NextID == next' = <<next[1], next[2] + 1>>

\* Mutant of WriteBegins: takes the ID that was handed out last.
WriteBeginsReuses ==
  /\ writer = "idle"
  /\ made < MaxReports
  /\ made' = made + 1 /\ report' = made + 1
  /\ path' = <<next[1], Max({next[2], 1}) - 1>>
  /\ NextID
  /\ writer' = "opening"
  /\ UNCHANGED <<sec, disk, whole, lost, send>>

\* kscrs_getNextCrashReport(), of an exception.
WriteBegins ==
  /\ writer = "idle"
  /\ made < MaxReports
  /\ made' = made + 1 /\ report' = made + 1
  /\ path' = next
  /\ NextID
  /\ writer' = "opening"
  /\ UNCHANGED <<sec, disk, whole, lost, send>>

\* ksfu_openBufferedWriter(): O_CREAT | O_EXCL
WriteOpens ==
  /\ writer = "opening"
  /\ IF path \in Files
     THEN lost' = lost \cup {report} /\ writer' = "idle" /\ UNCHANGED disk
     ELSE disk' = With(path, report) /\ writer' = "writing" /\ UNCHANGED lost
  /\ UNCHANGED <<sec, next, whole, made, path, report, send>>

WriteEnds ==
  /\ writer = "writing"
  /\ whole' = whole \cup ({disk[f] : f \in Files \cap {path}})
  /\ writer' = "idle"
  /\ UNCHANGED <<sec, next, disk, made, path, report, lost, send>>

\* kscrs_addUserReport(): opens without O_EXCL, if it can, and writes the
\* report as far as it can.
AddUserReport ==
  /\ made < MaxReports
  /\ made' = made + 1
  /\ NextID
  /\ \/ UNCHANGED <<disk, whole>>
     \/ /\ disk' = With(next, made + 1)
        /\ whole' \in {whole, whole \cup {made + 1}}
  /\ UNCHANGED <<sec, writing, send>>

-----------------------------------------------------------------------------
(***************************************************************************)
(* Sending and deleting them                                               *)
(***************************************************************************)

\* allReports: kscrs_getReportCount()
CountReports ==
  /\ sender = "idle"
  /\ count' = Cardinality(Files)
  /\ sender' = IF Files = {} THEN "sending" ELSE "counted"
  /\ UNCHANGED <<sec, next, disk, whole, made, writing, ids, sending>>

\* kscrs_getReportIDs(): at most count files, in directory order; then qsort
\* sorts count entries.  If fewer were found, the rest is uninitialised and
\* may sort before the largest IDs, which the caller then does not see.
ListReports ==
  /\ sender = "counted"
  /\ \E found \in SUBSET Files :
       /\ Cardinality(found) = Min({count, Cardinality(Files)})
       /\ \E garbage \in 0 .. Min({count - Cardinality(found), Cardinality(found)}) :
            ids' = Smallest(found, Cardinality(found) - garbage)
  /\ sender' = "listed"
  /\ UNCHANGED <<sec, next, disk, whole, made, writing, count, sending>>

\* reportForID of each: a file may be gone, and one that is not whole may not
\* be readable.
ReadReports ==
  /\ sender = "listed"
  /\ LET there == {disk[f] : f \in Files \cap ids}
     IN \E read \in SUBSET there : there \cap whole \subseteq read /\ sending' = read
  /\ sender' = "sending"
  /\ UNCHANGED <<sec, next, disk, whole, made, writing, count, ids>>

\* The sink calls onCompletion, with or without an error.
SendCompletes ==
  /\ sender = "sending"
  /\ \E error \in BOOLEAN :
       disk' = IF Policy = "always" \/ (Policy = "onSuccess" /\ ~error)
               THEN Without(Files) ELSE disk
  /\ sender' = "idle" /\ count' = 0 /\ ids' = {} /\ sending' = {}
  /\ UNCHANGED <<sec, next, whole, made, writing>>

\* kscrs_deleteReportWithID() and kscrs_deleteAllReports()
DeleteReport ==
  /\ \E f \in Files : disk' = Without({f})
  /\ UNCHANGED <<sec, next, whole, made, writing, send>>

DeleteAllReports ==
  /\ disk' = Without(Files)
  /\ UNCHANGED <<sec, next, whole, made, writing, send>>

Sender == CountReports \/ ListReports \/ ReadReports \/ SendCompletes

Next == Initialize \/ Relaunch \/ Tick \/ WriteBegins \/ WriteOpens \/ WriteEnds
        \/ AddUserReport \/ Sender \/ DeleteReport \/ DeleteAllReports

Spec == Init /\ [][Next]_vars

-----------------------------------------------------------------------------
(***************************************************************************)
(* Properties                                                              *)
(***************************************************************************)

\* getNextUniqueID(): no two reports get the same ID as long as the clock goes
\* forward and the store is initialised once in a second, so that no report
\* is lost because its file exists.
NoReportLost == lost = {}

\* For the same reason no report takes the place of another one on disk,
\* neither an exception's nor a user's.
NoReportReplaced == [][\A f \in Files \cap DOMAIN disk' : disk'[f] = disk[f]]_vars

\* "the oldest reports will be deleted to make room for new ones": when
\* the store is initialised, what is deleted is older than all that is kept,
\* and as much is kept as is allowed.
InitializeStep == next' # next /\ made' = made
OldestDeleted ==
  [][InitializeStep =>
       /\ \A f \in Files \ DOMAIN disk', e \in DOMAIN disk' : disk[f] < disk'[e]
       /\ DOMAIN disk' # Files => Cardinality(DOMAIN disk') = MaxReportCount]_vars

\* Both: what is on disk is neither replaced, nor deleted before what is older.
StoreKeepsReports == NoReportReplaced /\ OldestDeleted
=============================================================================
