---------------------------- MODULE FilesProofs -----------------------------
(***************************************************************************)
(* Proofs about what is kept on disk from one launch to the next: the      *)
(* reports, and the state of the application; and about what a report has  *)
(* been given when its writer faults, and the contents of memory in it.    *)
(***************************************************************************)
EXTENDS KSCrashReportStore, KSCrashMonitor_AppState, KSCrashReportC, KSMemoryContents,
        FiniteSetTheorems, SequenceTheorems, TLAPS

-----------------------------------------------------------------------------
(***************************************************************************)
(* The report store.                                                       *)
(* For any number of reports, seconds and reports that are kept: as long   *)
(* as the clock goes forward and the store is initialised once in a        *)
(* second, no report is lost or replaced, and pruning deletes the oldest.  *)
(***************************************************************************)

\* What getNextUniqueID() relies on.
ClockForward == ~ClockBack /\ ~SameSecond

\* Reports are numbered as they are made, and each is in one file at most.
Numbered ==
  /\ next[2] <= made
  /\ \A f \in Files : disk[f] <= made
  /\ \A f, e \in Files : disk[f] = disk[e] => f = e
  /\ writer = "opening" => report \in 1 .. made /\ report \notin OnDisk /\ path \in IDs

\* An ID that has been handed out is before the next one, whoever has it.
Handed ==
  /\ next[1] <= sec
  /\ \A f \in Files : Before(f, next)
  /\ writer = "opening" => Before(path, next) /\ path \notin Files

\* The order of the IDs is that of the reports, the one that has not yet been
\* opened included.
Ordered ==
  /\ \A f, e \in Files : Before(f, e) => disk[f] < disk[e]
  /\ writer = "opening" =>
       \A f \in Files : /\ Before(f, path) => disk[f] < report
                        /\ Before(path, f) => report < disk[f]

StoreInv == TypeOK /\ Numbered /\ Handed /\ Ordered /\ NoReportLost

-----------------------------------------------------------------------------
(***************************************************************************)
(* IDs and their order                                                     *)
(***************************************************************************)

\* compareInt64() is a strict total order.
LEMMA BeforeOrder ==
  /\ \A f \in IDs : ~Before(f, f)
  /\ \A f, e, h \in IDs : Before(f, e) /\ Before(e, h) => Before(f, h)
  /\ \A f, e \in IDs : f = e \/ Before(f, e) \/ Before(e, f)
  BY StoreAssumption DEF Before, IDs, Clock

\* There are finitely many IDs.
LEMMA FilesFinite == ASSUME NEW fs \in SUBSET IDs PROVE IsFiniteSet(fs)
<1>1. IsFiniteSet(Clock) /\ IsFiniteSet(0 .. MaxReports)
  BY FS_Interval, StoreAssumption DEF Clock
<1>2. IsFiniteSet(IDs)
  BY <1>1, FS_Product DEF IDs
<1>3. QED  BY <1>2, FS_Subset

\* The first n numbers.
LEMMA FirstNumbers ==
  ASSUME NEW n \in Nat PROVE IsFiniteSet(0 .. n - 1) /\ Cardinality(0 .. n - 1) = n
<1>1. n - 1 \in Int /\ 0 \in Int
  OBVIOUS
<1>2. IsFiniteSet(0 .. n - 1)
      /\ Cardinality(0 .. n - 1) = IF 0 > n - 1 THEN 0 ELSE (n - 1) - 0 + 1
  BY <1>1, FS_Interval
<1>3. QED  BY <1>2

\* The rank of an ID counts those before it: it grows with the ID.
LEMMA RankGrows ==
  ASSUME NEW fs \in SUBSET IDs, NEW f \in fs, NEW e \in fs
  PROVE  /\ Rank(fs, f) \in 0 .. Cardinality(fs) - 1
         /\ Before(f, e) => Rank(fs, f) < Rank(fs, e)
<1> DEFINE Below(h) == {k \in fs : Before(k, h)}
<1>1. ASSUME NEW S \in SUBSET fs, NEW T \in SUBSET S, NEW h \in S, h \notin T
      PROVE  /\ Cardinality(T) < Cardinality(S)
             /\ Cardinality(T) \in Nat /\ Cardinality(S) \in Nat
  <2>1. IsFiniteSet(S) /\ IsFiniteSet(T)
    BY FilesFinite
  <2>2. Cardinality(T) <= Cardinality(S) /\ Cardinality(S) # Cardinality(T)
    BY <1>1, <2>1, FS_Subset
  <2>3. Cardinality(T) \in Nat /\ Cardinality(S) \in Nat
    BY <2>1, FS_CardinalityType
  <2>4. QED  BY <2>2, <2>3
<1>2. f \notin Below(f) /\ Below(f) \in SUBSET fs
  BY BeforeOrder
<1>3. Rank(fs, f) \in 0 .. Cardinality(fs) - 1
  <2>1. /\ Cardinality(Below(f)) < Cardinality(fs)
        /\ Cardinality(Below(f)) \in Nat /\ Cardinality(fs) \in Nat
    <3> HIDE DEF Below
    <3> QED  BY <1>1, <1>2
  <2>2. QED  BY <2>1 DEF Rank
<1>4. ASSUME Before(f, e) PROVE Rank(fs, f) < Rank(fs, e)
  <2>1. Below(f) \in SUBSET Below(e) /\ f \in Below(e) /\ Below(e) \in SUBSET fs
    BY <1>4, BeforeOrder
  <2>2. Cardinality(Below(f)) < Cardinality(Below(e))
    <3> HIDE DEF Below
    <3> QED  BY <1>1, <1>2, <2>1
  <2>3. QED  BY <2>2 DEF Rank
<1>5. QED  BY <1>3, <1>4

\* Smallest() yields as many IDs as are asked for, each before all others.
LEMMA SmallestExact ==
  ASSUME NEW fs \in SUBSET IDs, NEW n \in 0 .. Cardinality(fs)
  PROVE  /\ Cardinality(Smallest(fs, n)) = n
         /\ \A f \in Smallest(fs, n), e \in fs \ Smallest(fs, n) : Before(f, e)
<1> DEFINE c == Cardinality(fs)
           ranks == [f \in fs |-> Rank(fs, f)]
<1>1. IsFiniteSet(fs) /\ c \in Nat
  BY FilesFinite, FS_CardinalityType
<1>2. \A f \in fs : Rank(fs, f) \in 0 .. c - 1
  BY RankGrows
<1>3. \A f, e \in fs : f # e => Rank(fs, f) # Rank(fs, e)
  <2> SUFFICES ASSUME NEW f \in fs, NEW e \in fs, f # e PROVE Rank(fs, f) # Rank(fs, e)
    OBVIOUS
  <2>1. Before(f, e) \/ Before(e, f)
    BY BeforeOrder
  <2>2. Rank(fs, f) \in Int /\ Rank(fs, e) \in Int
    BY <1>1, <1>2
  <2>3. Before(f, e) => Rank(fs, f) < Rank(fs, e)
    BY RankGrows
  <2>4. Before(e, f) => Rank(fs, e) < Rank(fs, f)
    BY RankGrows
  <2>5. QED  BY <2>1, <2>2, <2>3, <2>4
<1>4. ranks \in Injection(fs, 0 .. c - 1)
  BY <1>2, <1>3 DEF Injection, IsInjective
<1>5. IsFiniteSet(0 .. c - 1) /\ Cardinality(0 .. c - 1) = c
  BY <1>1, FirstNumbers
<1>6. ranks \in Surjection(fs, 0 .. c - 1)
  <2> HIDE DEF ranks
  <2> QED  BY <1>4, <1>5, FS_Injection
<1>7. Cardinality(Smallest(fs, n)) = n
  <2> DEFINE low == Smallest(fs, n)
             lowRanks == [f \in low |-> Rank(fs, f)]
  <2>1. low \subseteq fs
    BY DEF Smallest
  <2>2. lowRanks \in Injection(low, 0 .. n - 1)
    <3>1. \A f \in low : Rank(fs, f) \in 0 .. n - 1
      BY <1>1, <1>2 DEF Smallest
    <3>2. QED  BY <1>3, <2>1, <3>1 DEF Injection, IsInjective
  <2>3. lowRanks \in Surjection(low, 0 .. n - 1)
    <3> SUFFICES ASSUME NEW r \in 0 .. n - 1 PROVE \E f \in low : lowRanks[f] = r
      BY <2>2 DEF Surjection, Injection
    <3>1. r \in 0 .. c - 1
      BY <1>1
    <3>2. PICK f \in fs : ranks[f] = r
      BY <1>6, <3>1 DEF Surjection
    <3>3. f \in low /\ Rank(fs, f) = r
      BY <1>1, <3>2 DEF Smallest
    <3>4. QED  BY <3>3
  <2>4. IsFiniteSet(0 .. n - 1) /\ Cardinality(0 .. n - 1) = n
    BY <1>1, FirstNumbers
  <2>5. QED
    <3> HIDE DEF lowRanks, low
    <3>1. IsFiniteSet(low) /\ Cardinality(low) = Cardinality(0 .. n - 1)
      BY <2>2, <2>3, <2>4, FS_Injection
    <3>2. Cardinality(low) = n
      BY <2>4, <3>1
    <3>3. QED  BY <3>2 DEF low
<1>8. ASSUME NEW f \in Smallest(fs, n), NEW e \in fs \ Smallest(fs, n) PROVE Before(f, e)
  <2>1. f \in fs /\ e \in fs /\ Rank(fs, f) < n /\ ~(Rank(fs, e) < n)
    BY DEF Smallest
  <2>2. Rank(fs, f) \in Int /\ Rank(fs, e) \in Int
    BY <1>1, <1>2, <2>1
  <2>3. Before(e, f) => Rank(fs, e) < Rank(fs, f)
    BY <2>1, RankGrows
  <2>4. f # e /\ ~Before(e, f)
    BY <1>1, <2>1, <2>2, <2>3
  <2>5. QED  BY <2>1, <2>4, BeforeOrder
<1>9. QED  BY <1>7, <1>8

-----------------------------------------------------------------------------
(***************************************************************************)
(* Types and numbers                                                       *)
(***************************************************************************)
NumberInv == TypeOK /\ Numbered

\* There are no more files than reports.
LEMMA CountType == NumberInv => Cardinality(Files) \in 0 .. MaxReports
<1> SUFFICES ASSUME NumberInv PROVE Cardinality(Files) \in 0 .. MaxReports
  OBVIOUS
<1> DEFINE holds == [f \in Files |-> disk[f]]
<1>1. holds \in Injection(Files, Reports)
  BY DEF NumberInv, TypeOK, Numbered, OnDisk, Injection, IsInjective
<1>2. IsFiniteSet(Reports) /\ Cardinality(Reports) = MaxReports
  BY StoreAssumption, FS_Interval DEF Reports
<1>3. IsFiniteSet(Files) /\ Cardinality(Files) <= MaxReports
  <2> HIDE DEF holds
  <2> QED  BY <1>1, <1>2, FS_Injection
<1>4. Cardinality(Files) \in Nat
  BY <1>3, FS_CardinalityType
<1>5. QED  BY <1>3, <1>4, StoreAssumption

\* Nothing has been made.
LEMMA InitStoreInv == Init => StoreInv
<1> SUFFICES ASSUME Init PROVE StoreInv
  OBVIOUS
<1> USE StoreAssumption DEF Init
<1>1. Files = {} /\ OnDisk = {}
  BY DEF Files, OnDisk
<1>2. TypeOK
  BY <1>1 DEF TypeOK, Clock, IDs, NoID, Reports
<1>3. Numbered /\ Handed /\ Ordered /\ NoReportLost
  BY <1>1 DEF Numbered, Handed, Ordered, NoReportLost
<1>4. QED  BY <1>2, <1>3 DEF StoreInv

\* What deleting files and adding one do to the directory.
LEMMA WithoutFiles ==
  ASSUME NEW fs, disk' = Without(fs)
  PROVE  /\ Files' = Files \ fs /\ OnDisk' \subseteq OnDisk
         /\ \A f \in Files' : disk'[f] = disk[f]
  BY DEF Without, Files, OnDisk

LEMMA WithFile ==
  ASSUME NEW f, NEW r, disk' = With(f, r)
  PROVE  /\ Files' = Files \cup {f} /\ OnDisk' \subseteq OnDisk \cup {r}
         /\ disk'[f] = r /\ \A e \in Files \ {f} : disk'[e] = disk[e]
  BY DEF With, Files, OnDisk

\* The steps that only delete files, if they touch the directory at all.
Deletes == \/ UNCHANGED disk
           \/ \E fs : disk' = Without(fs)

LEMMA DeletesFiles ==
  ASSUME Deletes
  PROVE  /\ Files' \subseteq Files /\ OnDisk' \subseteq OnDisk
         /\ \A f \in Files' : disk'[f] = disk[f]
<1>1. CASE UNCHANGED disk
  BY <1>1 DEF Files, OnDisk
<1>2. ASSUME NEW fs, disk' = Without(fs)
      PROVE  /\ Files' \subseteq Files /\ OnDisk' \subseteq OnDisk
             /\ \A f \in Files' : disk'[f] = disk[f]
  BY <1>2, WithoutFiles
<1>3. QED  BY <1>1, <1>2 DEF Deletes

\* getNextUniqueID() for a new report stays within the bound on reports.
LEMMA NextIDType ==
  ASSUME NumberInv, NextID, made < MaxReports
  PROVE  /\ next' \in IDs /\ next'[1] = next[1] /\ next'[2] = next[2] + 1
         /\ next'[2] <= made + 1 /\ Before(next, next')
  BY StoreAssumption DEF NumberInv, TypeOK, Numbered, NextID, IDs, Clock, Before

\* Every step keeps the types and the numbers.
LEMMA NextNumberInv == ASSUME NumberInv, [Next]_vars PROVE NumberInv'
<1> USE StoreAssumption
<1>1. ASSUME Deletes, UNCHANGED <<made, writing>>,
             next' \in IDs, next'[2] <= made, TypeOK'
      PROVE  NumberInv'
  <2>1. Files' \subseteq Files /\ OnDisk' \subseteq OnDisk /\ \A f \in Files' : disk'[f] = disk[f]
    BY <1>1, DeletesFiles
  <2>2. Numbered'
    BY <1>1, <2>1 DEF NumberInv, Numbered, writing
  <2>3. QED  BY <1>1, <2>2 DEF NumberInv
<1>2. ASSUME Deletes PROVE Files' \subseteq IDs /\ OnDisk' \subseteq Reports
  BY <1>2, DeletesFiles DEF NumberInv, TypeOK
<1>3. BaseID \in IDs /\ BaseID[2] <= made /\ next \in IDs /\ next[2] <= made
  BY DEF NumberInv, TypeOK, Numbered, BaseID, IDs, Clock
<1>4. CASE Initialize
  <2>1. Deletes /\ next' = BaseID /\ UNCHANGED <<sec, whole, made, writing, send>>
    BY <1>4 DEF Initialize, Deletes
  <2>2. TypeOK'
    BY <1>2, <1>3, <2>1 DEF NumberInv, TypeOK, writing, send
  <2>3. QED  BY <1>1, <1>3, <2>1, <2>2
<1>5. CASE Relaunch
  <2>1. /\ Deletes /\ next' = BaseID /\ UNCHANGED <<sec, whole, made, lost>>
        /\ writer' = "idle" /\ path' = NoID /\ report' = 0
        /\ sender' = "idle" /\ count' = 0 /\ ids' = {} /\ sending' = {}
    BY <1>5 DEF Relaunch, Deletes
  <2>2. TypeOK'
    BY <1>2, <1>3, <2>1 DEF NumberInv, TypeOK
  <2>3. Files' \subseteq Files /\ OnDisk' \subseteq OnDisk /\ \A f \in Files' : disk'[f] = disk[f]
    BY <2>1, DeletesFiles
  <2>4. Numbered'
    BY <1>3, <2>1, <2>3 DEF NumberInv, Numbered
  <2>5. QED  BY <2>2, <2>4 DEF NumberInv
<1>6. CASE Tick
  <2>1. Deletes /\ UNCHANGED <<next, disk, whole, made, writing, send>> /\ sec' \in Clock
    BY <1>6 DEF Tick, Deletes
  <2>2. TypeOK'
    BY <1>2, <2>1 DEF NumberInv, TypeOK, writing, send
  <2>3. QED  BY <1>1, <1>3, <2>1, <2>2
<1>7. CASE WriteBegins
  <2>1. UNCHANGED <<sec, disk, whole, lost, send>> /\ UNCHANGED <<Files, OnDisk>>
    BY <1>7 DEF WriteBegins, Files, OnDisk
  <2>2. next' \in IDs /\ next'[2] <= made + 1
    BY <1>7, NextIDType DEF WriteBegins
  <2>3. /\ made' = made + 1 /\ report' = made + 1 /\ made < MaxReports /\ path' = next
        /\ writer' = "opening"
    BY <1>7 DEF WriteBegins
  <2>4. TypeOK'
    BY <2>1, <2>2, <2>3 DEF NumberInv, TypeOK, send
  <2>5. \A f \in Files : disk[f] \in Nat /\ disk[f] <= made
    BY DEF NumberInv, TypeOK, Numbered, OnDisk, Reports
  <2>6. report' \notin OnDisk' /\ report' \in 1 .. made'
    BY <2>1, <2>3, <2>5 DEF NumberInv, TypeOK, OnDisk
  <2>7. Numbered'
    BY <1>3, <2>1, <2>2, <2>3, <2>5, <2>6 DEF NumberInv, TypeOK, Numbered
  <2>8. QED  BY <2>4, <2>7 DEF NumberInv
<1>8. CASE WriteOpens
  <2>1. UNCHANGED <<sec, next, whole, made, path, report, send>> /\ writer = "opening"
        /\ writer' \in {"idle", "writing"}
    BY <1>8 DEF WriteOpens
  <2>2. report \in Reports /\ report \in 1 .. made /\ report \notin OnDisk /\ path \in IDs
    BY <2>1 DEF NumberInv, TypeOK, Numbered, Reports
  <2>3. CASE path \in Files
    <3>1. UNCHANGED <<disk, Files, OnDisk>> /\ lost' = lost \cup {report}
      BY <1>8, <2>3 DEF WriteOpens, Files, OnDisk
    <3>2. TypeOK'
      BY <2>1, <2>2, <3>1 DEF NumberInv, TypeOK, send
    <3>3. Numbered'
      BY <2>1, <3>1 DEF NumberInv, Numbered
    <3>4. QED  BY <3>2, <3>3 DEF NumberInv
  <2>4. CASE path \notin Files
    <3>1. /\ Files' = Files \cup {path} /\ OnDisk' \subseteq OnDisk \cup {report}
          /\ disk'[path] = report /\ \A e \in Files : disk'[e] = disk[e]
          /\ lost' = lost
      BY <1>8, <2>4, WithFile DEF WriteOpens
    <3>2. TypeOK'
      BY <2>1, <2>2, <3>1 DEF NumberInv, TypeOK, send
    <3>3. \A f \in Files : disk[f] # report
      BY <2>2 DEF OnDisk
    <3>4. Numbered'
      BY <2>1, <2>2, <3>1, <3>3 DEF NumberInv, TypeOK, Numbered
    <3>5. QED  BY <3>2, <3>4 DEF NumberInv
  <2>5. QED  BY <2>3, <2>4
<1>9. CASE WriteEnds
  <2>1. /\ UNCHANGED <<sec, next, disk, made, path, report, lost, send>> /\ UNCHANGED <<Files, OnDisk>>
        /\ writer' = "idle"
    BY <1>9 DEF WriteEnds, Files, OnDisk
  <2>2. whole' \subseteq Reports
    BY <1>9 DEF WriteEnds, NumberInv, TypeOK, OnDisk
  <2>3. TypeOK'
    BY <2>1, <2>2 DEF NumberInv, TypeOK, send
  <2>4. Numbered'
    BY <2>1 DEF NumberInv, Numbered
  <2>5. QED  BY <2>3, <2>4 DEF NumberInv
<1>10. CASE AddUserReport
  <2>1. UNCHANGED <<sec, writing, send>> /\ made' = made + 1 /\ made < MaxReports
    BY <1>10 DEF AddUserReport
  <2>2. next' \in IDs /\ next'[2] <= made + 1
    BY <1>10, NextIDType DEF AddUserReport
  <2>3. made + 1 \in Reports /\ whole' \subseteq Reports
    <3>1. made + 1 \in Reports
      BY <2>1 DEF NumberInv, TypeOK, Reports
    <3>2. whole' \subseteq whole \cup {made + 1}
      BY <1>10 DEF AddUserReport
    <3>3. QED  BY <3>1, <3>2 DEF NumberInv, TypeOK
  <2>4. \A f \in Files : disk[f] \in Nat /\ disk[f] <= made
    BY DEF NumberInv, TypeOK, Numbered, OnDisk, Reports
  <2>5. CASE disk' = With(next, made + 1)
    <3>1. /\ Files' = Files \cup {next} /\ OnDisk' \subseteq OnDisk \cup {made + 1}
          /\ disk'[next] = made + 1 /\ \A e \in Files \ {next} : disk'[e] = disk[e]
      BY <2>5, WithFile
    <3>2. TypeOK'
      BY <1>3, <2>1, <2>2, <2>3, <3>1 DEF NumberInv, TypeOK, writing, send
    <3>3. writer = "opening" => report \notin OnDisk'
      BY <2>1, <3>1 DEF NumberInv, TypeOK, Numbered
    <3>4. Numbered'
      BY <2>1, <2>2, <2>4, <3>1, <3>3 DEF NumberInv, TypeOK, Numbered, writing
    <3>5. QED  BY <3>2, <3>4 DEF NumberInv
  <2>6. CASE UNCHANGED disk
    <3>1. UNCHANGED <<disk, Files, OnDisk>>
      BY <2>6 DEF Files, OnDisk
    <3>2. TypeOK'
      BY <2>1, <2>2, <2>3, <3>1 DEF NumberInv, TypeOK, writing, send
    <3>3. Numbered'
      BY <2>1, <2>2, <2>4, <3>1 DEF NumberInv, TypeOK, Numbered, writing
    <3>4. QED  BY <3>2, <3>3 DEF NumberInv
  <2>7. QED  BY <1>10, <2>5, <2>6 DEF AddUserReport
<1>11. CASE CountReports
  <2>1. Deletes /\ UNCHANGED <<sec, next, whole, made, writing, ids, sending>>
    BY <1>11 DEF CountReports, Deletes
  <2>2. TypeOK'
    BY <1>2, <1>11, <2>1, CountType DEF NumberInv, TypeOK, CountReports, writing
  <2>3. QED  BY <1>1, <1>3, <2>1, <2>2
<1>12. CASE ListReports
  <2>1. Deletes /\ UNCHANGED <<sec, next, whole, made, writing, count, sending>>
        /\ sender' = "listed"
    BY <1>12 DEF ListReports, Deletes
  <2>2. ids' \subseteq IDs
    BY <1>12 DEF ListReports, Smallest, NumberInv, TypeOK
  <2>3. TypeOK'
    BY <1>2, <2>1, <2>2 DEF NumberInv, TypeOK, writing
  <2>4. QED  BY <1>1, <1>3, <2>1, <2>3
<1>13. CASE ReadReports
  <2>1. Deletes /\ UNCHANGED <<sec, next, whole, made, writing, count, ids>>
        /\ sender' = "sending"
    BY <1>13 DEF ReadReports, Deletes
  <2>2. sending' \subseteq Reports
    BY <1>13 DEF ReadReports, NumberInv, TypeOK, OnDisk
  <2>3. TypeOK'
    BY <1>2, <2>1, <2>2 DEF NumberInv, TypeOK, writing
  <2>4. QED  BY <1>1, <1>3, <2>1, <2>3
<1>14. CASE SendCompletes
  <2>1. Deletes /\ UNCHANGED <<sec, next, whole, made, writing>>
        /\ sender' = "idle" /\ count' = 0 /\ ids' = {} /\ sending' = {}
    BY <1>14 DEF SendCompletes, Deletes
  <2>2. TypeOK'
    BY <1>2, <2>1 DEF NumberInv, TypeOK, writing
  <2>3. QED  BY <1>1, <1>3, <2>1, <2>2
<1>15. CASE DeleteReport \/ DeleteAllReports \/ UNCHANGED vars
  <2>1. Deletes /\ UNCHANGED <<sec, next, whole, made, writing, send>>
    BY <1>15 DEF DeleteReport, DeleteAllReports, vars, Deletes
  <2>2. TypeOK'
    BY <1>2, <2>1 DEF NumberInv, TypeOK, writing, send
  <2>3. QED  BY <1>1, <1>3, <2>1, <2>2
<1>16. QED  BY <1>4, <1>5, <1>6, <1>7, <1>8, <1>9, <1>10, <1>11, <1>12, <1>13, <1>14, <1>15
            DEF Next, Sender

-----------------------------------------------------------------------------
(***************************************************************************)
(* The order of IDs and reports                                            *)
(***************************************************************************)
OrderInv == Handed /\ Ordered /\ NoReportLost

\* The next second begins after every ID that has been handed out.
LEMMA BaseIsLater ==
  ASSUME ClockForward, NumberInv, Handed, SameSecond \/ next[1] # sec
  PROVE  BaseID[1] <= sec /\ BaseID \in IDs /\ Before(next, BaseID)
  BY StoreAssumption DEF ClockForward, NumberInv, TypeOK, Handed, BaseID, IDs, Clock, Before

\* A step that deletes files and moves the next ID forward keeps the order.
LEMMA DeletesOrder ==
  ASSUME NumberInv, OrderInv, Deletes, next' = next \/ Before(next, next'), next' \in IDs,
         next'[1] <= sec', lost' = lost,
         writer' # "opening" \/ UNCHANGED <<writer, path, report>>
  PROVE  OrderInv'
<1>1. Files' \subseteq Files /\ \A f \in Files' : disk'[f] = disk[f]
  BY DeletesFiles
<1>2. Files \subseteq IDs /\ next \in IDs
  BY DEF NumberInv, TypeOK
<1>3. writer' = "opening" => path' \in IDs /\ path' = path /\ writer = "opening"
  BY DEF NumberInv, Numbered
<1>4. \A f \in IDs : Before(f, next) => Before(f, next')
  BY <1>2, BeforeOrder
<1>5. Handed'
  BY <1>1, <1>2, <1>3, <1>4 DEF OrderInv, Handed
<1>6. Ordered'
  BY <1>1, <1>3 DEF OrderInv, Ordered, Before
<1>7. QED  BY <1>5, <1>6 DEF OrderInv, NoReportLost

\* Every step keeps the order, if the clock goes forward.
LEMMA NextOrderInv ==
  ASSUME ClockForward, NumberInv, OrderInv, [Next]_vars
  PROVE  OrderInv'
<1> USE StoreAssumption
<1>0. /\ next[1] <= sec /\ next \in IDs /\ Files \subseteq IDs /\ sec \in Nat
      /\ \A f \in Files : disk[f] \in Nat /\ disk[f] <= made
      /\ made \in Nat
  BY DEF OrderInv, Handed, NumberInv, TypeOK, Numbered, OnDisk, Reports, Clock
<1>1. CASE Initialize \/ Relaunch
  <2>1. /\ Deletes /\ next' = BaseID /\ (SameSecond \/ next[1] # sec)
        /\ UNCHANGED <<sec, lost>>
        /\ writer' # "opening" \/ UNCHANGED <<writer, path, report>>
    BY <1>1 DEF Initialize, Relaunch, Deletes, writing
  <2>2. Before(next, next') /\ next' \in IDs /\ next'[1] <= sec
    BY <2>1, BaseIsLater DEF OrderInv
  <2>3. QED  BY <2>1, <2>2, DeletesOrder
<1>2. CASE Tick
  <2>1. Deletes /\ UNCHANGED <<next, writer, path, report, lost>> /\ sec' = sec + 1
    BY <1>2 DEF Tick, ClockForward, Deletes, writing
  <2>2. next'[1] <= sec' /\ next' \in IDs
    BY <1>0, <2>1 DEF IDs, Clock
  <2>3. QED  BY <2>1, <2>2, DeletesOrder
<1>3. CASE WriteBegins
  <2>1. /\ next' \in IDs /\ next'[1] = next[1] /\ Before(next, next')
        /\ UNCHANGED <<sec, disk, lost, Files>>
        /\ path' = next /\ report' = made + 1
    BY <1>3, NextIDType DEF WriteBegins, Files
  <2>2. \A f \in IDs : Before(f, next) => Before(f, next')
    BY <1>0, <2>1, BeforeOrder
  <2>3. \A f \in Files : Before(f, next) /\ ~Before(next, f)
    BY <1>0, BeforeOrder DEF OrderInv, Handed
  <2>4. Handed'
    BY <1>0, <2>1, <2>2, <2>3, BeforeOrder DEF Handed
  <2>5. \A f \in Files : disk[f] < made + 1
    BY <1>0
  <2>6. Ordered'
    BY <2>1, <2>3, <2>5 DEF OrderInv, Ordered, Before
  <2>7. QED  BY <2>1, <2>4, <2>6 DEF OrderInv, NoReportLost
<1>4. CASE WriteOpens
  <2>1. /\ writer = "opening" /\ path \notin Files /\ path \in IDs /\ Before(path, next)
        /\ report \in Nat
    BY <1>4 DEF WriteOpens, OrderInv, Handed, NumberInv, Numbered
  <2>2. /\ Files' = Files \cup {path}
        /\ disk'[path] = report /\ \A e \in Files : disk'[e] = disk[e]
        /\ lost' = lost /\ writer' = "writing" /\ UNCHANGED <<sec, next>>
    BY <1>4, <2>1, WithFile DEF WriteOpens
  <2>3. Handed'
    BY <2>1, <2>2 DEF OrderInv, Handed, Before
  <2>4. Ordered'
    <3> SUFFICES ASSUME NEW f \in Files \cup {path}, NEW e \in Files \cup {path}, Before(f, e)
                 PROVE  disk'[f] < disk'[e]
      BY <2>2 DEF Ordered, Before
    <3>1. ~Before(path, path)
      BY <2>1, BeforeOrder
    <3>2. QED  BY <2>1, <2>2, <3>1 DEF OrderInv, Ordered
  <2>5. QED  BY <2>2, <2>3, <2>4 DEF OrderInv, NoReportLost
<1>5. CASE AddUserReport
  <2>1. /\ next' \in IDs /\ next'[1] = next[1] /\ Before(next, next')
        /\ UNCHANGED <<sec, writer, path, report, lost>>
    BY <1>5, NextIDType DEF AddUserReport, writing
  <2>2. CASE UNCHANGED disk
    <3>1. Deletes /\ next'[1] <= sec'
      BY <1>0, <2>1, <2>2 DEF Deletes
    <3>2. QED  BY <2>1, <3>1, DeletesOrder
  <2>3. CASE disk' = With(next, made + 1)
    <3>1. next \notin Files
      BY <1>0, BeforeOrder DEF OrderInv, Handed
    <3>2. /\ Files' = Files \cup {next}
          /\ disk'[next] = made + 1 /\ \A e \in Files : disk'[e] = disk[e]
      BY <2>3, <3>1, WithFile
    <3>3. writer = "opening" => path \in IDs /\ Before(path, next) /\ report \in 1 .. made
      BY DEF OrderInv, Handed, NumberInv, Numbered
    <3>4. \A f \in IDs : Before(f, next) => Before(f, next') /\ f # next /\ ~Before(next, f)
      BY <1>0, <2>1, BeforeOrder
    <3>5. Handed'
      BY <1>0, <2>1, <3>2, <3>3, <3>4 DEF OrderInv, Handed
    <3>6. \A f, e \in Files' : Before(f, e) => disk'[f] < disk'[e]
      <4> SUFFICES ASSUME NEW f \in Files \cup {next}, NEW e \in Files \cup {next}, Before(f, e)
                   PROVE  disk'[f] < disk'[e]
        BY <3>2
      <4>1. f # next
        BY <1>0, <3>4, BeforeOrder DEF OrderInv, Handed
      <4>2. CASE e = next
        <5>1. disk[f] < made + 1
          BY <1>0, <4>1
        <5>2. QED  BY <3>2, <4>1, <4>2, <5>1
      <4>3. CASE e # next
        BY <3>2, <4>1, <4>3 DEF OrderInv, Ordered
      <4>4. QED  BY <4>2, <4>3
    <3>7. ASSUME writer = "opening", NEW f \in Files'
          PROVE  /\ Before(f, path) => disk'[f] < report
                 /\ Before(path, f) => report < disk'[f]
      <4>1. CASE f = next
        <5>1. report < made + 1 /\ ~Before(next, path)
          BY <1>0, <3>3, <3>4, <3>7
        <5>2. QED  BY <3>2, <4>1, <5>1
      <4>2. CASE f # next
        BY <3>2, <3>7, <4>2 DEF OrderInv, Ordered
      <4>3. QED  BY <4>1, <4>2
    <3>8. Ordered'
      BY <2>1, <3>6, <3>7 DEF Ordered, Before
    <3>9. QED  BY <2>1, <3>5, <3>8 DEF OrderInv, NoReportLost
  <2>4. QED  BY <1>5, <2>2, <2>3 DEF AddUserReport
<1>6. CASE WriteEnds \/ Sender \/ DeleteReport \/ DeleteAllReports \/ UNCHANGED vars
  <2>1. Deletes
    BY <1>6 DEF WriteEnds, Sender, CountReports, ListReports, ReadReports, SendCompletes,
                DeleteReport, DeleteAllReports, vars, Deletes
  <2>2. UNCHANGED <<sec, next, lost>>
        /\ (writer' # "opening" \/ UNCHANGED <<writer, path, report>>)
    BY <1>6 DEF WriteEnds, Sender, CountReports, ListReports, ReadReports, SendCompletes,
                DeleteReport, DeleteAllReports, vars, writing
  <2>3. QED  BY <1>0, <2>1, <2>2, DeletesOrder
<1>7. QED  BY <1>1, <1>2, <1>3, <1>4, <1>5, <1>6 DEF Next

-----------------------------------------------------------------------------
(***************************************************************************)
(* The theorems                                                            *)
(***************************************************************************)

\* Every step keeps the invariant.
LEMMA NextStoreInv == ASSUME ClockForward, StoreInv, [Next]_vars PROVE StoreInv'
  BY NextNumberInv, NextOrderInv DEF StoreInv, NumberInv, OrderInv

\* Whatever the clock does, every variable has its type: in particular the count
\* of files that allReports allocates for is never more than the reports made.
THEOREM StoreTypeCorrect == Spec => []TypeOK
<1>1. Init => NumberInv
  BY InitStoreInv DEF StoreInv, NumberInv
<1>2. NumberInv /\ [Next]_vars => NumberInv'
  BY NextNumberInv
<1>3. NumberInv => TypeOK
  BY DEF NumberInv
<1>4. QED  BY <1>1, <1>2, <1>3, PTL DEF Spec

\* getNextUniqueID() and ksfu_openBufferedWriter(): while the clock goes forward
\* and the store is initialised once in a second, O_EXCL never fails for a
\* report, however many reports, launches and threads there are.
THEOREM EveryReportOpens == ClockForward /\ Spec => []NoReportLost
<1>1. SUFFICES ASSUME ClockForward PROVE Spec => []NoReportLost
  OBVIOUS
<1>2. StoreInv /\ [Next]_vars => StoreInv'
  BY <1>1, NextStoreInv
<1>3. StoreInv => NoReportLost
  BY DEF StoreInv
<1>4. QED  BY <1>2, <1>3, InitStoreInv, PTL DEF Spec

\* No step puts another report in the place of one on disk.
LEMMA NextReplacesNothing ==
  ASSUME StoreInv, [Next]_vars
  PROVE  \A f \in Files \cap DOMAIN disk' : disk'[f] = disk[f]
<1>0. Files' = DOMAIN disk'
  BY DEF Files
<1>1. CASE Deletes
  BY <1>0, <1>1, DeletesFiles
<1>2. CASE WriteOpens
  BY <1>2 DEF WriteOpens, StoreInv, Handed, With, Files
<1>3. CASE AddUserReport
  <2>1. next \notin Files
    BY BeforeOrder DEF StoreInv, TypeOK, Handed
  <2>2. QED  BY <1>3, <2>1 DEF AddUserReport, With, Files
<1>4. QED
  BY <1>1, <1>2, <1>3
     DEF Next, Initialize, Relaunch, Tick, WriteBegins, WriteEnds, Sender, CountReports,
         ListReports, ReadReports, SendCompletes, DeleteReport, DeleteAllReports, vars, Deletes

\* pruneReports() deletes the oldest, and as few as it may.
LEMMA PrunedOldest ==
  ASSUME StoreInv, disk' = Without(Pruned)
  PROVE  /\ \A f \in Files \ DOMAIN disk', e \in DOMAIN disk' : disk[f] < disk'[e]
         /\ DOMAIN disk' # Files => Cardinality(DOMAIN disk') = MaxReportCount
<1> USE StoreAssumption
<1> DEFINE c == Cardinality(Files)
<1>1. /\ DOMAIN disk' = Files \ Pruned
      /\ \A f \in DOMAIN disk' : disk'[f] = disk[f]
  BY WithoutFiles DEF Files
<1>2. CASE ~(MaxReportCount > 0 /\ c > MaxReportCount)
  BY <1>1, <1>2 DEF Pruned
<1>3. CASE MaxReportCount > 0 /\ c > MaxReportCount
  <2> DEFINE n == c - MaxReportCount
  <2>1. Files \in SUBSET IDs /\ IsFiniteSet(Files) /\ c \in Nat
    BY FilesFinite, FS_CardinalityType DEF StoreInv, TypeOK
  <2>2. n \in 0 .. c /\ Pruned = Smallest(Files, n)
    BY <1>3, <2>1 DEF Pruned
  <2>3. /\ Cardinality(Pruned) = n
        /\ \A f \in Pruned, e \in Files \ Pruned : Before(f, e)
    <3> HIDE DEF n, c
    <3>1. n \in 0 .. Cardinality(Files)
      BY <2>2 DEF c
    <3>2. QED  BY <2>1, <2>2, <3>1, SmallestExact
  <2>4. \A f \in Files \ DOMAIN disk', e \in DOMAIN disk' : disk[f] < disk'[e]
    <3> SUFFICES ASSUME NEW f \in Files \ DOMAIN disk', NEW e \in DOMAIN disk'
                 PROVE  disk[f] < disk'[e]
      OBVIOUS
    <3>1. f \in Pruned /\ e \in Files \ Pruned /\ f \in Files
      BY <1>1
    <3>2. Before(f, e)
      BY <2>3, <3>1
    <3>3. disk[f] < disk[e]
      BY <3>1, <3>2 DEF StoreInv, Ordered
    <3>4. QED  BY <1>1, <3>3
  <2>5. Cardinality(Files \ Pruned) = MaxReportCount
    <3>1. Pruned \subseteq Files
      BY <2>2 DEF Smallest
    <3>2. Cardinality(Files \ Pruned) = Cardinality(Files) - Cardinality(Files \cap Pruned)
      BY <2>1, FS_Difference
    <3>3. Files \cap Pruned = Pruned
      BY <3>1
    <3>4. MaxReportCount \in Nat
      OBVIOUS
    <3>5. Cardinality(Files \ Pruned) = c - n
      BY <2>3, <3>2, <3>3
    <3>6. c - n = MaxReportCount
      <4> HIDE DEF c
      <4> QED  BY <2>1, <3>4
    <3>7. QED  BY <3>5, <3>6
  <2>6. QED  BY <1>1, <2>4, <2>5
<1>4. QED  BY <1>2, <1>3

\* Under the same conditions no report takes the place of another one on disk,
\* and pruneReports() deletes the oldest reports, down to the number that is
\* allowed and not below, for every such number.
THEOREM StoreKeeps == ClockForward /\ Spec => StoreKeepsReports
<1>1. SUFFICES ASSUME ClockForward PROVE Spec => StoreKeepsReports
  OBVIOUS
<1>2. StoreInv /\ [Next]_vars => StoreInv'
  BY <1>1, NextStoreInv
<1>3. StoreInv /\ [Next]_vars => [\A f \in Files \cap DOMAIN disk' : disk'[f] = disk[f]]_vars
  BY NextReplacesNothing
<1>4. ASSUME StoreInv, [Next]_vars, InitializeStep PROVE disk' = Without(Pruned)
  <2>1. made \in Nat
    BY <1>4, StoreAssumption DEF StoreInv, TypeOK
  <2>2. QED
    BY <1>4, <2>1 DEF InitializeStep, Next, Initialize, Relaunch, Tick, WriteBegins, WriteOpens,
          WriteEnds, AddUserReport, Sender, CountReports, ListReports, ReadReports,
          SendCompletes, DeleteReport, DeleteAllReports, vars
<1>5. StoreInv /\ [Next]_vars =>
        [InitializeStep =>
           /\ \A f \in Files \ DOMAIN disk', e \in DOMAIN disk' : disk[f] < disk'[e]
           /\ DOMAIN disk' # Files => Cardinality(DOMAIN disk') = MaxReportCount]_vars
  BY <1>4, PrunedOldest
<1>6. Spec => []StoreInv
  BY <1>2, InitStoreInv, PTL DEF Spec
<1>7. Spec => NoReportReplaced
  BY <1>3, <1>6, PTL DEF Spec, NoReportReplaced
<1>8. Spec => OldestDeleted
  BY <1>5, <1>6, PTL DEF Spec, OldestDeleted
<1>9. QED
  BY <1>7, <1>8 DEF StoreKeepsReports

-----------------------------------------------------------------------------
(***************************************************************************)
(* The state of the application.                                           *)
(* For any number of launches, sessions, events and ticks: what the state  *)
(* says of this launch is what happened, and what it says of earlier ones  *)
(* is never more than what happened since the last crash, wherever a save  *)
(* was cut short.                                                          *)
(***************************************************************************)

Values == BOOLEAN \cup Nat

\* KSCrash_AppState without the bounds of the model
GState == [activeSinceCrash : Nat, backgroundSinceCrash : Nat, launches : Nat, sessions : Nat,
           sessionsSinceLaunch : Nat,
           activeSinceLaunch : Nat, backgroundSinceLaunch : Nat,
           crashedLast : BOOLEAN, crashedThis : BOOLEAN, transition : Nat,
           isActive : BOOLEAN, inForeground : BOOLEAN]

\* The phases in which the state follows the application
Running == {"installed", "hanging", "hung"}

\* The file holds values of the types that saveState() writes.
FileShape(f) ==
  /\ f \in Seq(Values) /\ Len(f) <= 5
  /\ Len(f) >= 1 => f[1] \in BOOLEAN
  /\ \A k \in 2 .. 5 : k <= Len(f) => f[k] \in Nat

\* What loadState() makes of a file: the mark of a crash, and the other fields,
\* which are zero if the file ends before them
Mark(f)     == Len(f) >= 1 /\ f[1] = TRUE
Entry(f, k) == IF k <= Len(f) THEN f[k] ELSE 0

Shape ==
  /\ now \in Nat /\ phase \in Phases
  /\ g \in GState /\ g.transition <= now
  /\ saving \in 0 .. 5
  /\ FileShape(file)
  /\ last \in Notifications \cup {None}
  /\ app \in {"launching", "active", "inactive", "background"}
  /\ truth \in [Quantities -> Nat] /\ replayed \in [Quantities -> Nat]
  /\ launched \in Nat
  /\ ended \in Endings
  /\ torn \in BOOLEAN

\* The first field of the file says how the launch that wrote it ended, and what
\* was loaded without it is nothing at all.
Marked ==
  /\ phase \in Enabled \cup {"hanging", "crashing", "disabled"} => (g.crashedThis <=> Noted)
  /\ Len(file) >= 1 => (Mark(file) <=> Noted)
  /\ phase = "initialized" =>
       /\ g.crashedLast => Noted
       /\ Noted /\ ~g.crashedLast =>
            g.activeSinceCrash = 0 /\ g.backgroundSinceCrash = 0 /\ g.launches = 0

\* A crash whose save was complete stays in the file, whatever the main thread
\* saves after it.
Remembered ==
  /\ phase \in {"resumed", "disabled"} => ended = "saved crash"
  /\ phase = "crashing" => ended = "crash" /\ file = <<>>
  /\ phase \in {"hanging", "hung"} => ended = "hang"
  /\ phase = "hanging" => file = <<>>
  /\ phase \in {"enabled", "installed"} => ended \in {"kill", "recovered"}
  /\ ended = "saved crash" =>
       /\ phase \in {"resumed", "disabled"} => saving = 1 \/ Len(file) >= 1
       /\ phase \in {"down", "loaded", "initialized"} => Len(file) >= 1
       /\ phase = "initialized" => g.crashedLast

\* The last notification tells which state the application is in; once it is
\* installed, so do the flags.
Follows ==
  /\ last = None => app = "launching"
  /\ last = "active" => app = "active"
  /\ last \in {"resign", "foreground"} => app = "inactive"
  /\ last = "background" => app = "background"
  /\ last = "terminate" => app \in {"inactive", "background"}
  /\ phase \in {"initialized", "enabled"} => ~g.isActive
  /\ phase = "enabled" => g.inForeground
  /\ phase \in Running =>
       /\ g.isActive <=> app = "active"
       /\ app # "background" => g.inForeground
       /\ app = "background" => ~g.inForeground \/ last = "terminate"

\* The time since the last transition that has not been added yet
Active(s)     == IF s.isActive THEN now - s.transition ELSE 0
Background(s) == IF ~s.isActive /\ ~s.inForeground THEN now - s.transition ELSE 0

\* The durations, with the time that has not been added yet
Measured ==
  phase \in ({"enabled"} \cup Running) =>
    /\ g.activeSinceLaunch + Active(g) = truth["activeSinceLaunch"] + replayed["activeSinceLaunch"]
    /\ g.backgroundSinceLaunch + Background(g) <= truth["backgroundSinceLaunch"] + replayed["backgroundSinceLaunch"]
    /\ last # "terminate" => g.backgroundSinceLaunch + Background(g) = truth["backgroundSinceLaunch"] + replayed["backgroundSinceLaunch"]

\* What is counted since the last crash was since the last crash: in the state,
\* and in the file of a launch that did not crash.
Since ==
  /\ phase \in ({"enabled"} \cup Running) =>
       /\ g.activeSinceCrash + Active(g) <= truth["activeSinceCrash"] + replayed["activeSinceCrash"]
       /\ g.backgroundSinceCrash + Background(g) <= truth["backgroundSinceCrash"] + replayed["backgroundSinceCrash"]
       /\ g.launches <= launched
  /\ phase = "initialized" /\ ~Noted =>
       /\ g.activeSinceCrash <= truth["activeSinceCrash"] + replayed["activeSinceCrash"]
       /\ g.backgroundSinceCrash <= truth["backgroundSinceCrash"] + replayed["backgroundSinceCrash"]
       /\ g.launches <= launched
  /\ ~Noted =>
       /\ Entry(file, 2) <= truth["activeSinceCrash"] + replayed["activeSinceCrash"]
       /\ Entry(file, 3) <= truth["backgroundSinceCrash"] + replayed["backgroundSinceCrash"]
       /\ Entry(file, 4) <= launched

\* As long as no save was cut short, the launches are in the file, or will be.
Whole ==
  ~torn =>
    /\ phase \in {"down", "loaded", "initialized"} =>
         /\ Noted => Len(file) >= 1
         /\ ~Noted => launched = Entry(file, 4)
    /\ phase = "initialized" =>
         (Noted => g.crashedLast) /\ (~Noted => g.launches = launched)
    /\ phase \in Enabled \cup {"disabled"} =>
         /\ g.launches = launched
         /\ Len(file) = IF saving = 0 THEN 5 ELSE saving - 1
         /\ Len(file) >= 4 => Entry(file, 4) = g.launches
    /\ phase \in {"hanging", "crashing"} => saving = 0 /\ g.launches = launched

AppStateInv == Shape /\ Marked /\ Remembered /\ Follows /\ Measured /\ Since /\ Whole

-----------------------------------------------------------------------------
(***************************************************************************)
(* The file and the state                                                  *)
(***************************************************************************)

\* The fields that saveState() writes are a whole file.
LEMMA FieldsWhole ==
  ASSUME NEW s \in GState
  PROVE  /\ FileShape(Fields(s)) /\ Len(Fields(s)) = 5
         /\ Fields(s)[1] = s.crashedThis
         /\ Fields(s)[2] = s.activeSinceCrash /\ Fields(s)[3] = s.backgroundSinceCrash
         /\ Fields(s)[4] = s.launches /\ Fields(s)[5] = s.sessions
<1>1. /\ s.crashedThis \in BOOLEAN /\ s.activeSinceCrash \in Nat /\ s.backgroundSinceCrash \in Nat
      /\ s.launches \in Nat /\ s.sessions \in Nat
  BY DEF GState
<1>2. Fields(s) \in Seq(Values) /\ Len(Fields(s)) = 5
  BY <1>1 DEF Fields, Values
<1>3. /\ Fields(s)[1] = s.crashedThis
      /\ Fields(s)[2] = s.activeSinceCrash /\ Fields(s)[3] = s.backgroundSinceCrash
      /\ Fields(s)[4] = s.launches /\ Fields(s)[5] = s.sessions
  BY DEF Fields
<1>4. \A k \in 2 .. 5 : Fields(s)[k] \in Nat
  <2> SUFFICES ASSUME NEW k \in 2 .. 5 PROVE Fields(s)[k] \in Nat
    OBVIOUS
  <2>1. k = 2 \/ k = 3 \/ k = 4 \/ k = 5
    OBVIOUS
  <2> QED BY <1>1, <1>3, <2>1
<1> QED BY <1>1, <1>2, <1>3, <1>4 DEF FileShape

\* What is written to f at k is r, if s is what is saved: each field is the
\* state's or as it was, and those that there were no room for are gone.
WrittenAs(r, f, k, s) ==
  /\ FileShape(r)
  /\ \A j \in 1 .. 5 : j <= Len(r) => r[j] = Fields(s)[j] \/ (j <= Len(f) /\ r[j] = f[j])
  /\ k = 1 => Len(r) >= 1
  /\ Len(f) >= 1 => Len(r) >= 1
  /\ k = Len(f) + 1 => /\ Len(r) = k /\ r[k] = Fields(s)[k]
                       /\ \A j \in 1 .. 5 : j < k => r[j] = f[j]

\* Writing one field puts it where it belongs, or drops it with what follows.
LEMMA WrittenField ==
  ASSUME NEW f, FileShape(f), NEW s \in GState, NEW k \in 1 .. 5,
         NEW r \in Written(f, k, Fields(s)[k])
  PROVE  WrittenAs(r, f, k, s)
<1> USE DEF WrittenAs
<1> DEFINE v == Fields(s)[k]
<1>1. /\ v \in Values /\ (k = 1 => v \in BOOLEAN) /\ (k > 1 => v \in Nat)
  BY SMTT(30), FieldsWhole DEF FileShape, GState, Values
<1>2. f \in Seq(Values) /\ Len(f) \in Nat /\ Len(f) <= 5
  BY LenProperties DEF FileShape
<1>3. CASE k = Len(f) + 1
  <2>1. r = Append(f, v)
    BY <1>3 DEF Written
  <2>2. r \in Seq(Values) /\ Len(r) = k /\ r[k] = v /\ \A j \in 1 .. Len(f) : r[j] = f[j]
    BY <1>1, <1>2, <1>3, <2>1
  <2> HIDE DEF v
  <2>3. \A j \in 1 .. 5 : j <= Len(r) => (j = k /\ r[j] = v) \/ (j <= Len(f) /\ r[j] = f[j])
    BY <1>2, <1>3, <2>2
  <2> QED BY <1>1, <1>2, <1>3, <2>2, <2>3 DEF FileShape, v
<1>4. CASE k <= Len(f) /\ r = [f EXCEPT ![k] = v]
  <2>1. r \in Seq(Values) /\ Len(r) = Len(f) /\ r[k] = v /\ \A j \in 1 .. Len(f) : j # k => r[j] = f[j]
    BY <1>1, <1>2, <1>4
  <2> HIDE DEF v
  <2>2. \A j \in 1 .. 5 : j <= Len(r) => (j = k /\ r[j] = v) \/ (j <= Len(f) /\ r[j] = f[j])
    BY <1>2, <1>4, <2>1
  <2>3. FileShape(r)
    BY <1>1, <1>2, <2>1, <2>2 DEF FileShape
  <2>4. \A j \in 1 .. 5 : j <= Len(r) => r[j] = Fields(s)[j] \/ (j <= Len(f) /\ r[j] = f[j])
    BY <2>2 DEF v
  <2>5. k # Len(f) + 1 /\ Len(f) >= 1
    BY <1>2, <1>4
  <2> QED BY <2>1, <2>3, <2>4, <2>5
<1>5. CASE k <= Len(f) /\ k > 1 /\ r = SubSeq(f, 1, k - 1)
  <2>1. r \in Seq(Values) /\ Len(r) = k - 1 /\ \A j \in 1 .. k - 1 : r[j] = f[j]
    BY <1>2, <1>5
  <2>2. \A j \in 1 .. 5 : j <= Len(r) => j <= Len(f) /\ r[j] = f[j]
    BY <1>2, <1>5, <2>1
  <2> QED BY SMTT(30), <1>2, <1>5, <2>1, <2>2 DEF FileShape
<1>6. CASE k > Len(f) + 1 /\ r = f
  BY <1>2, <1>6
<1> QED
  <2>1. \/ k = Len(f) + 1
        \/ k <= Len(f) /\ k # Len(f) + 1
        \/ k > Len(f) + 1 /\ ~(k <= Len(f)) /\ k # Len(f) + 1
    BY <1>2
  <2>2. CASE k <= Len(f) /\ k # Len(f) + 1
    BY <1>4, <1>5, <2>2 DEF Written
  <2>3. CASE k > Len(f) + 1 /\ ~(k <= Len(f)) /\ k # Len(f) + 1
    BY <1>6, <2>3 DEF Written
  <2> QED BY <1>3, <2>1, <2>2, <2>3

\* A whole file says what the state says; an empty one says nothing.
LEMMA WholeFile ==
  ASSUME NEW s \in GState
  PROVE  /\ Mark(Fields(s)) <=> s.crashedThis
         /\ Entry(Fields(s), 2) = s.activeSinceCrash /\ Entry(Fields(s), 3) = s.backgroundSinceCrash
         /\ Entry(Fields(s), 4) = s.launches /\ Entry(Fields(s), 5) = s.sessions
  BY FieldsWhole DEF Mark, Entry, GState

LEMMA EmptyFile ==
  /\ FileShape(<<>>) /\ Len(<<>>) = 0 /\ ~Mark(<<>>)
  /\ \A k \in 2 .. 5 : Entry(<<>>, k) = 0
<1>1. FileShape(<<>>) /\ Len(<<>>) = 0
  BY DEF FileShape, Values
<1> QED BY <1>1 DEF Mark, Entry

\* The entries of a file are numbers.
LEMMA EntryNumber == ASSUME NEW f, FileShape(f), NEW k \in 2 .. 5 PROVE Entry(f, k) \in Nat /\ Len(f) \in Nat
  BY LenProperties DEF FileShape, Entry

\* After one field is written, each entry is the state's, or as it was, or gone.
LEMMA WrittenEntries ==
  ASSUME NEW f, FileShape(f), NEW s \in GState, NEW k \in 1 .. 5,
         NEW r \in Written(f, k, Fields(s)[k])
  PROVE  /\ FileShape(r)
         /\ Len(r) >= 1 => (Mark(r) <=> s.crashedThis) \/ (Len(f) >= 1 /\ (Mark(r) <=> Mark(f)))
         /\ \A j \in 2 .. 5 : Entry(r, j) \in {0, Entry(Fields(s), j), Entry(f, j)}
         /\ k = 1 \/ Len(f) >= 1 => Len(r) >= 1
         /\ k = Len(f) + 1 => /\ Len(r) = k
                              /\ k = 4 => Entry(r, 4) = s.launches
                              /\ k = 5 => Entry(r, 4) = Entry(f, 4) /\ Entry(r, 5) = s.sessions
<1>1. /\ FileShape(r) /\ Len(r) \in Nat /\ Len(f) \in Nat
      /\ \A j \in 1 .. 5 : j <= Len(r) => r[j] = Fields(s)[j] \/ (j <= Len(f) /\ r[j] = f[j])
      /\ k = 1 => Len(r) >= 1
      /\ Len(f) >= 1 => Len(r) >= 1
      /\ k = Len(f) + 1 => /\ Len(r) = k /\ r[k] = Fields(s)[k]
                           /\ \A j \in 1 .. 5 : j < k => r[j] = f[j]
  <2>1. WrittenAs(r, f, k, s)
    BY WrittenField
  <2>2. Len(r) \in Nat /\ Len(f) \in Nat
    BY <2>1, LenProperties DEF FileShape, WrittenAs
  <2> QED BY <2>1, <2>2 DEF WrittenAs
<1>2. /\ Fields(s)[1] = s.crashedThis /\ Fields(s)[4] = s.launches /\ Fields(s)[5] = s.sessions
      /\ Len(Fields(s)) = 5
      /\ s.crashedThis \in BOOLEAN
  BY FieldsWhole DEF GState
<1>3. Len(r) >= 1 => (Mark(r) <=> s.crashedThis) \/ (Len(f) >= 1 /\ (Mark(r) <=> Mark(f)))
  <2>1. Len(r) >= 1 => r[1] = s.crashedThis \/ (Len(f) >= 1 /\ r[1] = f[1])
    BY <1>1, <1>2
  <2> QED BY <1>2, <2>1 DEF Mark
<1>4. \A j \in 2 .. 5 : Entry(r, j) \in {0, Entry(Fields(s), j), Entry(f, j)}
  BY <1>1, <1>2 DEF Entry
<1>5. k = Len(f) + 1 /\ k = 4 => Entry(r, 4) = s.launches
  BY <1>1, <1>2 DEF Entry
<1>6. k = Len(f) + 1 /\ k = 5 => Entry(r, 4) = Entry(f, 4) /\ Entry(r, 5) = s.sessions
  BY <1>1, <1>2 DEF Entry
<1> QED BY <1>1, <1>3, <1>4, <1>5, <1>6

\* A save that is cut short leaves a file that begins with the mark.
LEMMA Prefix ==
  ASSUME NEW s \in GState, NEW k \in 0 .. 4, NEW f, f = SubSeq(Fields(s), 1, k)
  PROVE  FileShape(f) /\ (Len(f) >= 1 => (Mark(f) <=> s.crashedThis))
<1>1. /\ Fields(s) \in Seq(Values) /\ Len(Fields(s)) = 5
      /\ Fields(s)[1] = s.crashedThis /\ s.crashedThis \in BOOLEAN
      /\ \A j \in 2 .. 5 : Fields(s)[j] \in Nat
  BY FieldsWhole DEF FileShape, GState
<1>2. f \in Seq(Values) /\ Len(f) = k /\ \A j \in 1 .. k : f[j] = Fields(s)[j]
  BY SMTT(30), <1>1
<1>3. /\ Len(f) >= 1 => f[1] = s.crashedThis
      /\ \A j \in 2 .. 5 : j <= Len(f) => f[j] = Fields(s)[j]
  <2>1. k >= 1 => f[1] = Fields(s)[1]
    BY <1>2
  <2> QED BY <1>1, <1>2, <2>1
<1> QED BY <1>1, <1>2, <1>3 DEF FileShape, Mark

\* updateAppState() adds the time that has not been added yet.
LEMMA Updated ==
  ASSUME now \in Nat, NEW s \in GState, s.transition <= now, NEW u, u = UpdateAppState(s)
  PROVE  /\ u \in GState /\ u.transition = now
         /\ u.isActive = s.isActive /\ u.inForeground = s.inForeground
         /\ u.crashedThis = s.crashedThis /\ u.crashedLast = s.crashedLast
         /\ u.launches = s.launches /\ u.sessions = s.sessions
         /\ u.sessionsSinceLaunch = s.sessionsSinceLaunch
         /\ u.activeSinceLaunch = s.activeSinceLaunch + Active(s)
         /\ u.activeSinceCrash = s.activeSinceCrash + Active(s)
         /\ u.backgroundSinceLaunch = s.backgroundSinceLaunch + Background(s)
         /\ u.backgroundSinceCrash = s.backgroundSinceCrash + Background(s)
<1> DEFINE d == now - s.transition
<1>1. d \in Nat /\ s.activeSinceLaunch \in Nat /\ s.activeSinceCrash \in Nat
      /\ s.backgroundSinceLaunch \in Nat /\ s.backgroundSinceCrash \in Nat
  BY DEF GState
<1> HIDE DEF d
<1>0. /\ s.activeSinceLaunch + d \in Nat /\ s.activeSinceCrash + d \in Nat
      /\ s.backgroundSinceLaunch + d \in Nat /\ s.backgroundSinceCrash + d \in Nat
  BY <1>1
<1>2. CASE s.isActive
  <2>1. u = [s EXCEPT !.transition = now, !.activeSinceLaunch = @ + d, !.activeSinceCrash = @ + d]
    BY <1>2 DEF UpdateAppState, d
  <2>2. Active(s) = d /\ Background(s) = 0
    BY <1>2 DEF Active, Background, d
  <2>3. /\ u.transition = now /\ u.activeSinceLaunch = s.activeSinceLaunch + d
        /\ u.activeSinceCrash = s.activeSinceCrash + d
        /\ u.backgroundSinceCrash = s.backgroundSinceCrash /\ u.launches = s.launches
        /\ u.sessions = s.sessions /\ u.sessionsSinceLaunch = s.sessionsSinceLaunch
        /\ u.backgroundSinceLaunch = s.backgroundSinceLaunch
        /\ u.crashedLast = s.crashedLast /\ u.crashedThis = s.crashedThis /\ u.isActive = s.isActive
        /\ u.inForeground = s.inForeground
    BY <2>1 DEF GState
  <2>4. u \in GState
    BY <1>0, <2>1 DEF GState
  <2> QED BY <1>1, <2>2, <2>3, <2>4
<1>3. CASE ~s.isActive /\ ~s.inForeground
  <2>1. u = [s EXCEPT !.transition = now, !.backgroundSinceLaunch = @ + d, !.backgroundSinceCrash = @ + d]
    BY <1>3 DEF UpdateAppState, d
  <2>2. Background(s) = d /\ Active(s) = 0
    BY <1>3 DEF Active, Background, d
  <2>3. /\ u.transition = now /\ u.backgroundSinceLaunch = s.backgroundSinceLaunch + d
        /\ u.backgroundSinceCrash = s.backgroundSinceCrash + d
        /\ u.activeSinceCrash = s.activeSinceCrash /\ u.launches = s.launches
        /\ u.sessions = s.sessions /\ u.sessionsSinceLaunch = s.sessionsSinceLaunch
        /\ u.activeSinceLaunch = s.activeSinceLaunch
        /\ u.crashedLast = s.crashedLast /\ u.crashedThis = s.crashedThis /\ u.isActive = s.isActive
        /\ u.inForeground = s.inForeground
    BY <2>1 DEF GState
  <2>4. u \in GState
    BY <1>0, <2>1 DEF GState
  <2> QED BY <1>1, <2>2, <2>3, <2>4
<1>4. CASE ~s.isActive /\ s.inForeground
  <2>1. u = [s EXCEPT !.transition = now]
    BY <1>4 DEF UpdateAppState
  <2>2. Background(s) = 0 /\ Active(s) = 0
    BY <1>4 DEF Active, Background
  <2> QED BY <1>1, <2>1, <2>2 DEF GState
<1> QED BY <1>2, <1>3, <1>4 DEF GState

\* A notification fits the flags.
Fits(n, s) ==
  /\ n \in {"active", "background"} => ~s.isActive /\ s.inForeground
  /\ n = "resign" => s.inForeground
  /\ n = "foreground" => ~s.isActive

\* The time that a notification adds although it does not end such a state
Extra(n, s) ==
  [active     |-> IF n = "resign" /\ ~s.isActive THEN now - s.transition ELSE 0,
   background |-> IF n = "foreground" /\ s.inForeground THEN now - s.transition ELSE 0]

\* What a notification leaves as it is
LEMMA NotifiedState ==
  ASSUME now \in Nat, NEW s \in GState, s.transition <= now,
         NEW n \in Notifications \cup {None}, NEW r, r = Notified(n, s)
  PROVE  /\ r \in GState /\ r.transition <= now
         /\ r.crashedThis = s.crashedThis /\ r.launches = s.launches
         /\ r.sessions = s.sessions + Resumption(n)
         /\ r.sessionsSinceLaunch = s.sessionsSinceLaunch + Resumption(n)
         /\ r.isActive <=> (n = "active" \/ (n # "resign" /\ s.isActive))
         /\ r.inForeground <=> (n = "foreground" \/ (n # "background" /\ s.inForeground))
<1> USE DEF Resumption
<1>0. /\ s.transition \in Nat /\ now - s.transition \in Nat /\ s.sessions + 1 \in Nat
      /\ s.sessionsSinceLaunch + 1 \in Nat
      /\ s.activeSinceLaunch + (now - s.transition) \in Nat
      /\ s.activeSinceCrash + (now - s.transition) \in Nat
      /\ s.backgroundSinceLaunch + (now - s.transition) \in Nat
      /\ s.backgroundSinceCrash + (now - s.transition) \in Nat
      /\ s.isActive \in BOOLEAN /\ s.inForeground \in BOOLEAN
      /\ s.sessions \in Nat /\ s.sessionsSinceLaunch \in Nat
  BY DEF GState
<1>1. CASE n = "active"
  <2>1. r = [s EXCEPT !.isActive = TRUE, !.transition = now]
    BY <1>1 DEF Notified, AppActive
  <2>2. /\ r.isActive = TRUE /\ r.transition = now
        /\ r.activeSinceCrash = s.activeSinceCrash
        /\ r.backgroundSinceCrash = s.backgroundSinceCrash
        /\ r.launches = s.launches /\ r.sessions = s.sessions
        /\ r.sessionsSinceLaunch = s.sessionsSinceLaunch
        /\ r.activeSinceLaunch = s.activeSinceLaunch
        /\ r.backgroundSinceLaunch = s.backgroundSinceLaunch /\ r.crashedLast = s.crashedLast
        /\ r.crashedThis = s.crashedThis /\ r.inForeground = s.inForeground
    BY <2>1 DEF GState
  <2>3. r \in GState
    BY <1>0, <2>1 DEF GState
  <2> QED BY <1>0, <1>1, <2>2, <2>3
<1>2. CASE n = "resign"
  <2>1. r = AppResign(s)
    BY <1>2 DEF Notified
  <2>2. /\ r.isActive = FALSE /\ r.activeSinceLaunch = s.activeSinceLaunch + (now - s.transition)
        /\ r.activeSinceCrash = s.activeSinceCrash + (now - s.transition)
        /\ r.backgroundSinceCrash = s.backgroundSinceCrash /\ r.launches = s.launches
        /\ r.sessions = s.sessions /\ r.sessionsSinceLaunch = s.sessionsSinceLaunch
        /\ r.backgroundSinceLaunch = s.backgroundSinceLaunch
        /\ r.crashedLast = s.crashedLast /\ r.crashedThis = s.crashedThis
        /\ r.transition = s.transition /\ r.inForeground = s.inForeground
    BY <2>1 DEF GState, AppResign
  <2>3. r \in GState
    BY <1>0, <2>1 DEF GState, AppResign
  <2> QED BY <1>0, <1>2, <2>2, <2>3
<1>3. CASE n = "foreground"
  <2>1. r = AppForeground(s)
    BY <1>3 DEF Notified
  <2>2. /\ r.inForeground = TRUE
        /\ r.backgroundSinceLaunch = s.backgroundSinceLaunch + (now - s.transition)
        /\ r.backgroundSinceCrash = s.backgroundSinceCrash + (now - s.transition)
        /\ r.sessions = s.sessions + 1 /\ r.sessionsSinceLaunch = s.sessionsSinceLaunch + 1
        /\ r.activeSinceCrash = s.activeSinceCrash /\ r.launches = s.launches
        /\ r.activeSinceLaunch = s.activeSinceLaunch /\ r.crashedLast = s.crashedLast
        /\ r.crashedThis = s.crashedThis /\ r.transition = s.transition /\ r.isActive = s.isActive
    BY <2>1 DEF GState, AppForeground
  <2>3. r \in GState
    BY <1>0, <2>1 DEF GState, AppForeground
  <2> QED BY <1>0, <1>3, <2>2, <2>3
<1>4. CASE n = "background"
  <2>1. r = AppBackground(s)
    BY <1>4 DEF Notified
  <2>2. /\ r.inForeground = FALSE /\ r.transition = now
        /\ r.activeSinceCrash = s.activeSinceCrash
        /\ r.backgroundSinceCrash = s.backgroundSinceCrash
        /\ r.launches = s.launches /\ r.sessions = s.sessions
        /\ r.sessionsSinceLaunch = s.sessionsSinceLaunch
        /\ r.activeSinceLaunch = s.activeSinceLaunch
        /\ r.backgroundSinceLaunch = s.backgroundSinceLaunch /\ r.crashedLast = s.crashedLast
        /\ r.crashedThis = s.crashedThis /\ r.isActive = s.isActive
    BY <2>1 DEF GState, AppBackground
  <2>3. r \in GState
    BY <1>0, <2>1 DEF GState, AppBackground
  <2> QED BY <1>0, <1>4, <2>2, <2>3
<1>5. CASE n = "terminate"
  <2>1. r = UpdateAppState(s)
    BY <1>5 DEF Notified
  <2> QED BY <1>0, <1>5, <2>1, Updated
<1>6. CASE n = None
  <2>1. r = s
    BY <1>6 DEF Notified, None
  <2> QED BY <1>0, <1>6, <2>1 DEF None
<1> QED BY <1>1, <1>2, <1>3, <1>4, <1>5, <1>6 DEF Notifications

\* A notification that fits adds up the time that has passed, and no other, if it
\* ends the state that it should.
LEMMA NotifiedDurations ==
  ASSUME now \in Nat, NEW s \in GState, s.transition <= now,
         NEW n \in Notifications \cup {None}, Fits(n, s), NEW r, r = Notified(n, s)
  PROVE  /\ r.activeSinceLaunch + Active(r) = s.activeSinceLaunch + Active(s) + Extra(n, s).active
         /\ r.activeSinceCrash + Active(r) = s.activeSinceCrash + Active(s) + Extra(n, s).active
         /\ r.backgroundSinceLaunch + Background(r)
              = s.backgroundSinceLaunch + Background(s) + Extra(n, s).background
         /\ r.backgroundSinceCrash + Background(r)
              = s.backgroundSinceCrash + Background(s) + Extra(n, s).background
<1>0. /\ s.transition \in Nat /\ now - s.transition \in Nat
      /\ s.activeSinceLaunch \in Nat /\ s.activeSinceCrash \in Nat
      /\ s.backgroundSinceLaunch \in Nat /\ s.backgroundSinceCrash \in Nat
      /\ s.isActive \in BOOLEAN /\ s.inForeground \in BOOLEAN
  BY DEF GState
<1> USE DEF Fits, Active, Background, Extra
<1>1. CASE n = "active"
  <2>1. r = [s EXCEPT !.isActive = TRUE, !.transition = now]
    BY <1>1 DEF Notified, AppActive
  <2>2. /\ r.isActive = TRUE /\ r.transition = now
        /\ r.activeSinceCrash = s.activeSinceCrash
        /\ r.backgroundSinceCrash = s.backgroundSinceCrash
        /\ r.launches = s.launches /\ r.sessions = s.sessions
        /\ r.sessionsSinceLaunch = s.sessionsSinceLaunch
        /\ r.activeSinceLaunch = s.activeSinceLaunch
        /\ r.backgroundSinceLaunch = s.backgroundSinceLaunch /\ r.crashedLast = s.crashedLast
        /\ r.crashedThis = s.crashedThis /\ r.inForeground = s.inForeground
    BY <2>1 DEF GState
  <2> QED BY <1>0, <1>1, <2>2
<1>2. CASE n = "resign"
  <2>1. r = AppResign(s)
    BY <1>2 DEF Notified
  <2>2. /\ r.isActive = FALSE /\ r.activeSinceLaunch = s.activeSinceLaunch + (now - s.transition)
        /\ r.activeSinceCrash = s.activeSinceCrash + (now - s.transition)
        /\ r.backgroundSinceCrash = s.backgroundSinceCrash /\ r.launches = s.launches
        /\ r.sessions = s.sessions /\ r.sessionsSinceLaunch = s.sessionsSinceLaunch
        /\ r.backgroundSinceLaunch = s.backgroundSinceLaunch
        /\ r.crashedLast = s.crashedLast /\ r.crashedThis = s.crashedThis
        /\ r.transition = s.transition /\ r.inForeground = s.inForeground
    BY <2>1 DEF GState, AppResign
  <2> QED BY <1>0, <1>2, <2>2
<1>3. CASE n = "foreground"
  <2>1. r = AppForeground(s)
    BY <1>3 DEF Notified
  <2>2. /\ r.inForeground = TRUE
        /\ r.backgroundSinceLaunch = s.backgroundSinceLaunch + (now - s.transition)
        /\ r.backgroundSinceCrash = s.backgroundSinceCrash + (now - s.transition)
        /\ r.sessions = s.sessions + 1 /\ r.sessionsSinceLaunch = s.sessionsSinceLaunch + 1
        /\ r.activeSinceCrash = s.activeSinceCrash /\ r.launches = s.launches
        /\ r.activeSinceLaunch = s.activeSinceLaunch /\ r.crashedLast = s.crashedLast
        /\ r.crashedThis = s.crashedThis /\ r.transition = s.transition /\ r.isActive = s.isActive
    BY <2>1 DEF GState, AppForeground
  <2> QED BY <1>0, <1>3, <2>2
<1>4. CASE n = "background"
  <2>1. r = AppBackground(s)
    BY <1>4 DEF Notified
  <2>2. /\ r.inForeground = FALSE /\ r.transition = now
        /\ r.activeSinceCrash = s.activeSinceCrash
        /\ r.backgroundSinceCrash = s.backgroundSinceCrash
        /\ r.launches = s.launches /\ r.sessions = s.sessions
        /\ r.sessionsSinceLaunch = s.sessionsSinceLaunch
        /\ r.activeSinceLaunch = s.activeSinceLaunch
        /\ r.backgroundSinceLaunch = s.backgroundSinceLaunch /\ r.crashedLast = s.crashedLast
        /\ r.crashedThis = s.crashedThis /\ r.isActive = s.isActive
    BY <2>1 DEF GState, AppBackground
  <2> QED BY <1>0, <1>4, <2>2
<1>5. CASE n = "terminate"
  <2>1. r = UpdateAppState(s)
    BY <1>5 DEF Notified
  <2>2. /\ r.transition = now /\ r.isActive = s.isActive /\ r.inForeground = s.inForeground
        /\ r.activeSinceLaunch = s.activeSinceLaunch + Active(s)
        /\ r.activeSinceCrash = s.activeSinceCrash + Active(s)
        /\ r.backgroundSinceLaunch = s.backgroundSinceLaunch + Background(s)
        /\ r.backgroundSinceCrash = s.backgroundSinceCrash + Background(s)
    BY <2>1, Updated
  <2>3. Active(r) = 0 /\ Background(r) = 0 /\ Active(s) \in Nat /\ Background(s) \in Nat
    BY <1>0, <2>2
  <2>4. Extra(n, s).active = 0 /\ Extra(n, s).background = 0
    BY <1>5
  <2> HIDE DEF Active, Background, Extra
  <2> QED BY <1>0, <2>2, <2>3, <2>4
<1>6. CASE n = None
  <2>1. r = s
    BY <1>6 DEF Notified, None
  <2>2. Extra(n, s).active = 0 /\ Extra(n, s).background = 0 /\ Active(s) \in Nat /\ Background(s) \in Nat
    BY <1>0, <1>6 DEF None
  <2> HIDE DEF Active, Background, Extra
  <2> QED BY <1>0, <2>1, <2>2
<1> QED BY <1>1, <1>2, <1>3, <1>4, <1>5, <1>6 DEF Notifications

\* loadState(), into a state that is cleared
LEMMA LoadedFields ==
  ASSUME now \in Nat, NEW f, FileShape(f), NEW r, r = Loaded(Cleared, f)
  PROVE  /\ r \in GState /\ r.transition = now /\ ~r.isActive
         /\ r.crashedLast <=> Mark(f)
         /\ r.activeSinceCrash = Entry(f, 2)
         /\ r.backgroundSinceCrash = Entry(f, 3)
         /\ r.launches = Entry(f, 4) /\ r.sessions = Entry(f, 5)
<1>0. Len(f) \in Nat
  BY LenProperties DEF FileShape
<1> DEFINE v1 == IF 1 <= Len(f) THEN f[1] ELSE FALSE
           v(k) == IF k <= Len(f) THEN f[k] ELSE 0
<1>1. v1 \in BOOLEAN /\ \A k \in 2 .. 5 : v(k) \in Nat
  BY <1>0 DEF FileShape
<1>2. r = [activeSinceCrash |-> v(2), backgroundSinceCrash |-> v(3), launches |-> v(4), sessions |-> v(5),
           sessionsSinceLaunch |-> 0, activeSinceLaunch |-> 0, backgroundSinceLaunch |-> 0, crashedLast |-> v1, crashedThis |-> FALSE,
           transition |-> now, isActive |-> FALSE, inForeground |-> FALSE]
  BY DEF Loaded, Cleared
<1>3. r \in GState
  <2> HIDE DEF v1, v
  <2>1. v(2) \in Nat /\ v(3) \in Nat /\ v(4) \in Nat /\ v(5) \in Nat
    BY <1>1
  <2> QED BY <1>1, <1>2, <2>1 DEF GState
<1>4. /\ r.transition = now /\ r.isActive = FALSE /\ r.crashedLast = v1
      /\ r.activeSinceCrash = v(2) /\ r.backgroundSinceCrash = v(3) /\ r.launches = v(4)
      /\ r.sessions = v(5)
  BY <1>2
<1>5. v1 <=> Mark(f)
  BY <1>0, <1>1 DEF Mark
<1> QED BY <1>0, <1>3, <1>4, <1>5 DEF Entry

\* kscrashstate_reset()
LEMMA ResetState ==
  ASSUME NEW s \in GState, NEW r, r = Reset(s)
  PROVE  /\ r \in GState /\ r.transition = s.transition /\ r.isActive = s.isActive /\ r.inForeground
         /\ ~r.crashedThis /\ r.activeSinceLaunch = 0 /\ r.backgroundSinceLaunch = 0
         /\ r.sessionsSinceLaunch = 1
         /\ s.crashedLast => /\ r.activeSinceCrash = 0 /\ r.backgroundSinceCrash = 0
                             /\ r.launches = 1 /\ r.sessions = 1
         /\ ~s.crashedLast => /\ r.activeSinceCrash = s.activeSinceCrash
                              /\ r.backgroundSinceCrash = s.backgroundSinceCrash
                              /\ r.launches = s.launches + 1 /\ r.sessions = s.sessions + 1
<1> DEFINE q == IF s.crashedLast
                THEN [s EXCEPT !.activeSinceCrash = 0, !.backgroundSinceCrash = 0, !.launches = 0, !.sessions = 0]
                ELSE s
<1>1. /\ q \in GState /\ q.transition = s.transition /\ q.isActive = s.isActive
      /\ s.crashedLast => q.activeSinceCrash = 0 /\ q.backgroundSinceCrash = 0 /\ q.launches = 0 /\ q.sessions = 0
      /\ ~s.crashedLast => q = s
  BY DEF GState
<1>2. r = [q EXCEPT !.activeSinceLaunch = 0, !.backgroundSinceLaunch = 0, !.crashedThis = FALSE,
                    !.sessionsSinceLaunch = 1, !.launches = @ + 1, !.sessions = @ + 1, !.inForeground = TRUE]
  BY DEF Reset
<1> HIDE DEF q
<1>3. /\ r.transition = q.transition /\ r.isActive = q.isActive /\ r.inForeground = TRUE
      /\ r.crashedThis = FALSE /\ r.activeSinceLaunch = 0 /\ r.backgroundSinceLaunch = 0
      /\ r.activeSinceCrash = q.activeSinceCrash /\ r.backgroundSinceCrash = q.backgroundSinceCrash
      /\ r.launches = q.launches + 1 /\ r.sessions = q.sessions + 1 /\ r.sessionsSinceLaunch = 1
  BY <1>1, <1>2 DEF GState
<1>4. q.launches + 1 \in Nat /\ q.sessions + 1 \in Nat
  BY <1>1 DEF GState
<1>5. r \in GState
  <2> DEFINE p == [q EXCEPT !.activeSinceLaunch = 0, !.backgroundSinceLaunch = 0, !.crashedThis = FALSE,
                            !.sessionsSinceLaunch = 1, !.inForeground = TRUE]
  <2>1. p \in GState
    BY <1>1 DEF GState
  <2>2. r = [p EXCEPT !.launches = q.launches + 1, !.sessions = q.sessions + 1]
    BY <1>1, <1>2 DEF GState
  <2> HIDE DEF p
  <2> QED BY <1>4, <2>1, <2>2 DEF GState
<1> QED BY <1>1, <1>3, <1>5

\* kscrashstate_notifyAppCrash() adds the time, and marks the state.
LEMMA CrashNoted ==
  ASSUME now \in Nat, NEW s \in GState, s.transition <= now,
         NEW r, r = [UpdateAppState(s) EXCEPT !.crashedThis = TRUE]
  PROVE  /\ r \in GState /\ r.transition = now /\ r.crashedThis
         /\ r.isActive = s.isActive /\ r.inForeground = s.inForeground /\ r.launches = s.launches
         /\ r.sessions = s.sessions /\ r.sessionsSinceLaunch = s.sessionsSinceLaunch
         /\ r.activeSinceLaunch = s.activeSinceLaunch + Active(s)
         /\ r.activeSinceCrash = s.activeSinceCrash + Active(s)
         /\ r.backgroundSinceLaunch = s.backgroundSinceLaunch + Background(s)
         /\ r.backgroundSinceCrash = s.backgroundSinceCrash + Background(s)
<1> DEFINE u == UpdateAppState(s)
<1>1. u \in GState /\ r = [u EXCEPT !.crashedThis = TRUE]
  BY Updated
<1>2. /\ u.transition = now /\ u.isActive = s.isActive /\ u.inForeground = s.inForeground
      /\ u.launches = s.launches /\ u.sessions = s.sessions
      /\ u.sessionsSinceLaunch = s.sessionsSinceLaunch
      /\ u.activeSinceLaunch = s.activeSinceLaunch + Active(s)
      /\ u.activeSinceCrash = s.activeSinceCrash + Active(s)
      /\ u.backgroundSinceLaunch = s.backgroundSinceLaunch + Background(s)
      /\ u.backgroundSinceCrash = s.backgroundSinceCrash + Background(s)
  BY Updated
<1> HIDE DEF u
<1>3. r \in GState
  BY <1>1 DEF GState
<1>4. /\ r.crashedThis = TRUE /\ r.transition = u.transition
      /\ r.isActive = u.isActive /\ r.inForeground = u.inForeground /\ r.launches = u.launches
      /\ r.sessions = u.sessions /\ r.sessionsSinceLaunch = u.sessionsSinceLaunch
      /\ r.activeSinceLaunch = u.activeSinceLaunch /\ r.activeSinceCrash = u.activeSinceCrash
      /\ r.backgroundSinceLaunch = u.backgroundSinceLaunch
      /\ r.backgroundSinceCrash = u.backgroundSinceCrash
  BY <1>1 DEF GState
<1> QED BY <1>2, <1>3, <1>4

\* The time that has not been added yet is a number, and none once it is added.
LEMMA Pending ==
  ASSUME now \in Nat, NEW s \in GState, s.transition <= now
  PROVE  /\ Active(s) \in Nat /\ Background(s) \in Nat
         /\ s.transition = now => Active(s) = 0 /\ Background(s) = 0
  BY DEF GState, Active, Background

-----------------------------------------------------------------------------
(***************************************************************************)
(* The invariant                                                           *)
(***************************************************************************)
LEMMA AppStateInit == ASSUME StateInit PROVE AppStateInv
<1>1. g \in GState /\ g.transition = now /\ g.crashedThis = FALSE /\ now = 0
  BY DEF StateInit, Cleared, GState
<1>2. FileShape(<<>>) /\ Len(<<>>) = 0 /\ Entry(<<>>, 4) = 0 /\ file = <<>>
  BY EmptyFile DEF StateInit
<1>3. /\ truth \in [Quantities -> Nat] /\ replayed \in [Quantities -> Nat]
      /\ truth["activeSinceCrash"] = 0 /\ truth["backgroundSinceCrash"] = 0
      /\ replayed["activeSinceCrash"] = 0 /\ replayed["backgroundSinceCrash"] = 0
  BY DEF StateInit, Quantities
<1>4. now \in Nat /\ g.transition <= now
  BY <1>1
<1>5. phase \in Phases /\ saving \in 0 .. 5 /\ FileShape(file) /\ launched \in Nat
  BY <1>2 DEF StateInit, Phases
<1>6. Shape
  BY <1>1, <1>3, <1>4, <1>5 DEF StateInit, Shape, Endings, None
<1>7. Marked /\ Remembered /\ Follows /\ Measured
  BY <1>1, <1>2 DEF StateInit, Marked, Remembered, Follows, Measured, Enabled, None, Running
<1>8. Since /\ Whole
  BY <1>2, <1>3, EmptyFile DEF StateInit, Since, Whole, Enabled, None, Noted, Running, Endings
<1> QED BY <1>6, <1>7, <1>8 DEF AppStateInv

LEMMA NotifyObjCLoadKeeps == ASSUME AppStateInv, NotifyObjCLoad PROVE AppStateInv'
<1> USE DEF AppStateInv
<1>0. /\ now \in Nat /\ launched \in Nat /\ g \in GState /\ g.transition <= now
      /\ g.transition \in Nat
      /\ Len(file) \in Nat /\ saving \in 0 .. 5
      /\ truth["activeSinceCrash"] \in Nat /\ replayed["activeSinceCrash"] \in Nat
      /\ truth["backgroundSinceCrash"] \in Nat /\ replayed["backgroundSinceCrash"] \in Nat
  BY LenProperties DEF Shape, FileShape, Quantities, GState
<1>1. /\ phase = "down" /\ phase' = "loaded" /\ saving' = 0 /\ last' = None /\ app' = "launching"
      /\ UNCHANGED <<now, file, truth, replayed, launched, ended, torn>>
  BY DEF NotifyObjCLoad, history
<1>2. g' \in GState /\ g'.transition = now
  BY DEF NotifyObjCLoad, Cleared, GState, Shape
<1>3. Shape'
  <2>1. FileShape(file)'
    BY <1>0, <1>1, <1>2 DEF Shape
  <2>2. now' \in Nat /\ g' \in GState /\ g'.transition <= now'
    BY <1>0, <1>1, <1>2
  <2>3. phase' \in Phases
    BY <1>0, <1>1, <1>2 DEF Shape, Phases, Enabled
  <2>5. saving' \in 0 .. 5
    BY <1>0, <1>1, <1>2
  <2>4. /\ last' \in Notifications \cup {None} /\ truth' \in [Quantities -> Nat]
        /\ replayed' \in [Quantities -> Nat] /\ launched' \in Nat
        /\ app' \in {"launching", "active", "inactive", "background"}
        /\ ended' \in Endings /\ torn' \in BOOLEAN
    BY <1>0, <1>1, <1>2 DEF Shape, Endings, None
  <2> QED BY <2>1, <2>2, <2>3, <2>4, <2>5 DEF Shape
<1>4. Marked'
  BY <1>0, <1>1, <1>2 DEF Marked, Noted, Enabled, Endings, None
<1>5. Remembered'
  BY <1>0, <1>1, <1>2 DEF Remembered, Enabled, Phases
<1>6. Follows'
  BY <1>1, <1>2 DEF Follows, None, Running
<1>7. Measured'
  BY <1>0, <1>1, <1>2 DEF Measured, Active, Background, Running
<1>8. Since'
  BY <1>0, <1>1, <1>2 DEF Since, Noted, Active, Background, Running, Endings, None
<1>9. Whole'
  BY <1>0, <1>1, <1>2 DEF Whole, Noted, Enabled, Endings, None
<1> QED BY <1>3, <1>4, <1>5, <1>6, <1>7, <1>8, <1>9

LEMMA InitializeKeeps == ASSUME AppStateInv, InitializeState PROVE AppStateInv'
<1> USE DEF AppStateInv
<1>0. /\ now \in Nat /\ launched \in Nat /\ g \in GState /\ g.transition <= now
      /\ g.transition \in Nat
      /\ Len(file) \in Nat /\ saving \in 0 .. 5
      /\ truth["activeSinceCrash"] \in Nat /\ replayed["activeSinceCrash"] \in Nat
      /\ truth["backgroundSinceCrash"] \in Nat /\ replayed["backgroundSinceCrash"] \in Nat
  BY LenProperties DEF Shape, FileShape, Quantities, GState
<1>1. /\ phase = "loaded" /\ phase' = "initialized"
      /\ UNCHANGED <<now, saving, file, last, app, truth, replayed, launched, ended, torn>>
  BY DEF InitializeState, history
<1>2. /\ g' \in GState /\ g'.transition = now /\ ~g'.isActive
      /\ g'.crashedLast <=> Mark(file)
      /\ g'.activeSinceCrash = Entry(file, 2)
      /\ g'.backgroundSinceCrash = Entry(file, 3)
      /\ g'.launches = Entry(file, 4)
  BY LoadedFields DEF InitializeState, Shape
<1>3. /\ Mark(file) => Len(file) >= 1
      /\ Len(file) < 1 => Entry(file, 2) = 0 /\ Entry(file, 3) = 0 /\ Entry(file, 4) = 0
  BY <1>0 DEF Mark, Entry
<1>4. Noted' <=> Noted
  BY <1>1 DEF Noted, Endings, None
<1>5. Shape'
  <2>1. FileShape(file)'
    BY <1>0, <1>1, <1>2, <1>3, <1>4 DEF Shape
  <2>2. now' \in Nat /\ g' \in GState /\ g'.transition <= now'
    BY <1>0, <1>1, <1>2, <1>3, <1>4
  <2>3. phase' \in Phases
    BY <1>0, <1>1, <1>2, <1>3, <1>4 DEF Shape, Phases, Enabled
  <2>5. saving' \in 0 .. 5
    BY <1>0, <1>1, <1>2, <1>3, <1>4
  <2>4. /\ last' \in Notifications \cup {None} /\ truth' \in [Quantities -> Nat]
        /\ replayed' \in [Quantities -> Nat] /\ launched' \in Nat
        /\ app' \in {"launching", "active", "inactive", "background"}
        /\ ended' \in Endings /\ torn' \in BOOLEAN
    BY <1>0, <1>1, <1>2, <1>3, <1>4 DEF Shape, Endings, None
  <2> QED BY <2>1, <2>2, <2>3, <2>4, <2>5 DEF Shape
<1>6. Marked'
  BY <1>0, <1>1, <1>2, <1>3, <1>4 DEF Marked, Enabled
<1>7. Remembered'
  BY <1>0, <1>1, <1>2, <1>3 DEF Remembered, Marked, Noted, Endings, None
<1>8. Follows'
  BY <1>0, <1>1, <1>2, <1>3, <1>4 DEF Follows, Running
<1>9. Measured'
  BY <1>0, <1>1, <1>2, <1>3, <1>4 DEF Measured, Active, Background, Running
<1>10. Since'
  BY <1>0, <1>1, <1>2, <1>3, <1>4 DEF Since, Noted, Active, Background, Running, Endings, None
<1>11. Whole'
  BY <1>0, <1>1, <1>2, <1>3 DEF Whole, Marked, Enabled, Noted, Endings, None
<1> QED BY <1>5, <1>6, <1>7, <1>8, <1>9, <1>10, <1>11

LEMMA SetEnabledKeeps == ASSUME AppStateInv, SetEnabled PROVE AppStateInv'
<1> USE DEF AppStateInv
<1>0. /\ now \in Nat /\ launched \in Nat /\ g \in GState /\ g.transition <= now
      /\ g.transition \in Nat
      /\ Len(file) \in Nat /\ saving \in 0 .. 5
      /\ truth["activeSinceCrash"] \in Nat /\ replayed["activeSinceCrash"] \in Nat
      /\ truth["backgroundSinceCrash"] \in Nat /\ replayed["backgroundSinceCrash"] \in Nat
  BY LenProperties DEF Shape, FileShape, Quantities, GState
<1>1. /\ phase = "initialized" /\ phase' = "enabled" /\ saving' = 1 /\ file' = <<>>
      /\ UNCHANGED <<now, last, app, torn>> /\ ended' = "kill"
      /\ launched' = IF Noted THEN 1 ELSE launched + 1
  BY DEF SetEnabled, counts
<1>2. /\ truth' \in [Quantities -> Nat] /\ replayed' \in [Quantities -> Nat]
      /\ truth'["activeSinceLaunch"] + replayed'["activeSinceLaunch"] = 0
      /\ truth'["backgroundSinceLaunch"] + replayed'["backgroundSinceLaunch"] = 0
      /\ ~Noted => /\ truth'["activeSinceCrash"] + replayed'["activeSinceCrash"] = truth["activeSinceCrash"] + replayed["activeSinceCrash"]
                     /\ truth'["backgroundSinceCrash"] + replayed'["backgroundSinceCrash"] = truth["backgroundSinceCrash"] + replayed["backgroundSinceCrash"]
      /\ Noted => truth'["activeSinceCrash"] + replayed'["activeSinceCrash"] = 0 /\ truth'["backgroundSinceCrash"] + replayed'["backgroundSinceCrash"] = 0
  BY DEF SetEnabled, Shape, Quantities
<1>t. /\ truth'["activeSinceCrash"] = (IF Noted THEN 0 ELSE truth["activeSinceCrash"])
      /\ truth'["backgroundSinceCrash"] = (IF Noted THEN 0 ELSE truth["backgroundSinceCrash"])
      /\ replayed'["activeSinceCrash"] = (IF Noted THEN 0 ELSE replayed["activeSinceCrash"])
      /\ replayed'["backgroundSinceCrash"] = (IF Noted THEN 0 ELSE replayed["backgroundSinceCrash"])
  BY DEF SetEnabled, Quantities
<1>3. /\ g' \in GState /\ g'.transition = g.transition /\ g'.isActive = g.isActive
      /\ g'.inForeground
      /\ ~g'.crashedThis /\ g'.activeSinceLaunch = 0 /\ g'.backgroundSinceLaunch = 0
      /\ g.crashedLast => g'.activeSinceCrash = 0 /\ g'.backgroundSinceCrash = 0 /\ g'.launches = 1
      /\ ~g.crashedLast => /\ g'.activeSinceCrash = g.activeSinceCrash
                           /\ g'.backgroundSinceCrash = g.backgroundSinceCrash
                           /\ g'.launches = g.launches + 1
  BY ResetState DEF SetEnabled, Shape
<1>4. FileShape(<<>>) /\ Len(<<>>) = 0 /\ ~Mark(<<>>) /\ \A k \in 2 .. 5 : Entry(<<>>, k) = 0
  BY EmptyFile
<1>5. /\ ~g.isActive /\ Active(g)' = 0 /\ Background(g)' = 0
      /\ launched \in Nat /\ g.launches \in Nat /\ g'.transition \in Nat /\ now \in Nat
      /\ launched' \in Nat
  <2>1. g.isActive = FALSE /\ g.launches \in Nat /\ g.transition \in Nat
    BY <1>0, <1>1 DEF Follows, GState, Running
  <2> QED BY <1>0, <1>1, <1>3, <2>1 DEF Active, Background
<1>6. Shape'
  <2>1. FileShape(file)'
    BY <1>1, <1>4
  <2>2. now' \in Nat /\ g' \in GState /\ g'.transition <= now'
    BY <1>0, <1>1, <1>2, <1>3, <1>4, <1>5
  <2>3. phase' \in Phases
    BY <1>0, <1>1, <1>2, <1>3, <1>4, <1>5 DEF Shape, Phases, Enabled
  <2>5. saving' \in 0 .. 5
    BY <1>0, <1>1, <1>2, <1>3, <1>4, <1>5
  <2>4. /\ last' \in Notifications \cup {None} /\ truth' \in [Quantities -> Nat]
        /\ replayed' \in [Quantities -> Nat] /\ launched' \in Nat
        /\ app' \in {"launching", "active", "inactive", "background"}
        /\ ended' \in Endings /\ torn' \in BOOLEAN
    BY <1>0, <1>1, <1>2, <1>3, <1>4, <1>5 DEF Shape, Endings, None
  <2> QED BY <2>1, <2>2, <2>3, <2>4, <2>5 DEF Shape
<1>7. Marked'
  BY <1>1, <1>3, <1>4 DEF Marked, Noted, Enabled, Endings, None
<1>8. Remembered'
  BY <1>0, <1>1, <1>2, <1>3, <1>4, <1>5 DEF Remembered, Enabled, Phases
<1>9. Follows'
  BY <1>1, <1>3, <1>5 DEF Follows, Running
<1>10. Measured'
  BY <1>1, <1>2, <1>3, <1>5 DEF Measured, Running
<1>11. Since'
  <2>1. /\ g'.activeSinceCrash <= truth'["activeSinceCrash"] + replayed'["activeSinceCrash"]
        /\ g'.activeSinceCrash \in Nat
        /\ g'.backgroundSinceCrash <= truth'["backgroundSinceCrash"] + replayed'["backgroundSinceCrash"]
        /\ g'.backgroundSinceCrash \in Nat
        /\ g'.launches <= launched'
    <3>1. CASE Noted
      <4>1. g'.activeSinceCrash = 0 /\ g'.backgroundSinceCrash = 0 /\ g'.launches = 1
        <5>1. CASE g.crashedLast
          BY <1>3, <5>1
        <5>2. CASE ~g.crashedLast
          BY <1>1, <1>3, <3>1, <5>2 DEF Marked
        <5> QED BY <5>1, <5>2
      <4> QED BY <1>1, <1>t, <3>1, <4>1
    <3>2. CASE ~Noted
      <4>1. ~g.crashedLast
        BY <1>1, <3>2 DEF Marked
      <4>2. /\ g.activeSinceCrash <= truth["activeSinceCrash"] + replayed["activeSinceCrash"]
            /\ g.activeSinceCrash \in Nat
            /\ g.backgroundSinceCrash <= truth["backgroundSinceCrash"] + replayed["backgroundSinceCrash"]
            /\ g.backgroundSinceCrash \in Nat
            /\ g.launches <= launched
        BY <1>0, <1>1, <3>2 DEF Since, GState, Running
      <4>3. g'.activeSinceCrash = g.activeSinceCrash /\ g'.backgroundSinceCrash = g.backgroundSinceCrash
            /\ g'.launches = g.launches + 1 /\ launched' = launched + 1
        BY <1>1, <1>3, <3>2, <4>1
      <4> QED BY <1>0, <1>t, <1>5, <3>2, <4>2, <4>3
    <3> QED BY <3>1, <3>2
  <2>2. /\ Entry(file, 2)' = 0 /\ Entry(file, 3)' = 0 /\ Entry(file, 4)' = 0
        /\ truth'["activeSinceCrash"] \in Nat /\ replayed'["activeSinceCrash"] \in Nat
        /\ truth'["backgroundSinceCrash"] \in Nat /\ replayed'["backgroundSinceCrash"] \in Nat
    BY <1>1, <1>2, <1>4 DEF Quantities
  <2> QED BY <1>1, <1>5, <2>1, <2>2 DEF Since, Running
<1>12. Whole'
  BY <1>1, <1>3, <1>4, <1>5 DEF Whole, Marked, Enabled
<1> QED BY <1>6, <1>7, <1>8, <1>9, <1>10, <1>11, <1>12

LEMMA InstalledKeeps == ASSUME AppStateInv, Installed PROVE AppStateInv'
<1> USE DEF AppStateInv
<1>0. /\ now \in Nat /\ launched \in Nat /\ g \in GState /\ g.transition <= now
      /\ g.transition \in Nat
      /\ Len(file) \in Nat /\ saving \in 0 .. 5
      /\ truth["activeSinceCrash"] \in Nat /\ replayed["activeSinceCrash"] \in Nat
      /\ truth["backgroundSinceCrash"] \in Nat /\ replayed["backgroundSinceCrash"] \in Nat
  BY LenProperties DEF Shape, FileShape, Quantities, GState
<1>1. /\ phase = "enabled" /\ phase' = "installed" /\ saving = 0 /\ NotifyApp(last)
      /\ last \in Notifications \cup {None}
      /\ UNCHANGED <<now, last, app, truth, launched, ended, torn>>
  BY DEF Installed, history, Shape
<1>2. /\ g' \in GState /\ g'.transition <= now
      /\ g'.crashedThis = g.crashedThis /\ g'.launches = g.launches
      /\ g'.isActive <=> (last = "active" \/ (last # "resign" /\ g.isActive))
      /\ g'.inForeground <=> (last = "foreground" \/ (last # "background" /\ g.inForeground))
  BY <1>0, <1>1, NotifiedState DEF NotifyApp
<1>3. /\ FileShape(file)' /\ Len(file)' \in Nat
      /\ \/ file' = file /\ saving' = saving
         \/ /\ saving' = 1 /\ Len(file)' = 0
            /\ Entry(file, 2)' = 0 /\ Entry(file, 3)' = 0 /\ Entry(file, 4)' = 0
  <2>1. (file' = file /\ saving' = saving) \/ (file' = <<>> /\ saving' = 1)
    BY <1>1 DEF NotifyApp
  <2>2. FileShape(file)
    BY DEF Shape
  <2> QED BY <1>0, <2>1, <2>2, EmptyFile
<1>4. Noted' <=> Noted
  BY <1>1 DEF Noted, Endings, None
<1>5. ~g.isActive /\ g.inForeground
  BY <1>1 DEF Follows, Running
<1>6. /\ g'.activeSinceLaunch + Active(g)' = g.activeSinceLaunch + Active(g) + Extra(last, g).active
      /\ g'.activeSinceCrash + Active(g)' = g.activeSinceCrash + Active(g) + Extra(last, g).active
      /\ g'.backgroundSinceLaunch + Background(g)'
           = g.backgroundSinceLaunch + Background(g) + Extra(last, g).background
      /\ g'.backgroundSinceCrash + Background(g)'
           = g.backgroundSinceCrash + Background(g) + Extra(last, g).background
  <2>1. Fits(last, g)
    BY <1>5 DEF Fits
  <2>2. g' = Notified(last, g) /\ now' = now
    BY <1>1 DEF NotifyApp
  <2> QED BY <1>0, <1>1, <2>1, <2>2, NotifiedDurations DEF Active, Background
<1>e. /\ replayed' \in [Quantities -> Nat]
      /\ Extra(last, g).active \in Nat /\ Extra(last, g).background \in Nat
      /\ replayed'["activeSinceLaunch"] = replayed["activeSinceLaunch"] + Extra(last, g).active
      /\ replayed'["activeSinceCrash"] = replayed["activeSinceCrash"] + Extra(last, g).active
      /\ replayed'["backgroundSinceLaunch"] = replayed["backgroundSinceLaunch"] + Extra(last, g).background
      /\ replayed'["backgroundSinceCrash"] = replayed["backgroundSinceCrash"] + Extra(last, g).background
  <2>1. replayed \in [Quantities -> Nat] /\ now - g.transition \in Nat
    BY <1>0 DEF Shape
  <2>2. Extra(last, g).active = (IF last = "resign" THEN now - g.transition ELSE 0)
    BY <1>5 DEF Extra
  <2>3. Extra(last, g).background = (IF last = "foreground" THEN now - g.transition ELSE 0)
    BY <1>5 DEF Extra
  <2>4. replayed' = [q \in Quantities |->
                    IF \/ last = "resign" /\ q \in {"activeSinceLaunch", "activeSinceCrash"}
                       \/ last = "foreground" /\ q \in {"backgroundSinceLaunch", "backgroundSinceCrash"}
                    THEN replayed[q] + (now - g.transition) ELSE replayed[q]]
    BY DEF Installed
  <2> QED BY <2>1, <2>2, <2>3, <2>4 DEF Quantities
<1>7. Shape'
  <2>1. FileShape(file)'
    BY <1>3
  <2>2. now' \in Nat /\ g' \in GState /\ g'.transition <= now'
    BY <1>0, <1>1, <1>2, <1>3, <1>4, <1>5, <1>6
  <2>3. phase' \in Phases
    BY <1>0, <1>1, <1>2, <1>3, <1>4, <1>5, <1>6 DEF Shape, Phases, Enabled
  <2>5. saving' \in 0 .. 5
    BY <1>0, <1>1, <1>2, <1>3, <1>4, <1>5, <1>6
  <2>4. /\ last' \in Notifications \cup {None} /\ truth' \in [Quantities -> Nat]
        /\ replayed' \in [Quantities -> Nat] /\ launched' \in Nat
        /\ app' \in {"launching", "active", "inactive", "background"}
        /\ ended' \in Endings /\ torn' \in BOOLEAN
    BY <1>1, <1>5, <1>e DEF Shape, Endings, None
  <2> QED BY <2>1, <2>2, <2>3, <2>4, <2>5 DEF Shape
<1>8. Marked'
  BY <1>1, <1>2, <1>3, <1>4 DEF Marked, Enabled
<1>9. Remembered'
  BY <1>0, <1>1, <1>2, <1>3, <1>4, <1>5, <1>6 DEF Remembered, Enabled, Phases
<1>10. Follows'
  BY <1>1, <1>2, <1>5 DEF Follows, None, Notifications, Running
<1>n. /\ g.activeSinceLaunch \in Nat /\ g.activeSinceCrash \in Nat
      /\ g.backgroundSinceLaunch \in Nat /\ g.backgroundSinceCrash \in Nat
      /\ g'.activeSinceLaunch \in Nat /\ g'.activeSinceCrash \in Nat
      /\ g'.backgroundSinceLaunch \in Nat /\ g'.backgroundSinceCrash \in Nat
      /\ Active(g) \in Nat /\ Background(g) \in Nat /\ Active(g)' \in Nat /\ Background(g)' \in Nat
      /\ truth["activeSinceLaunch"] \in Nat /\ truth["backgroundSinceLaunch"] \in Nat
      /\ truth["activeSinceCrash"] \in Nat /\ truth["backgroundSinceCrash"] \in Nat
      /\ replayed["activeSinceLaunch"] \in Nat /\ replayed["backgroundSinceLaunch"] \in Nat
      /\ replayed["activeSinceCrash"] \in Nat /\ replayed["backgroundSinceCrash"] \in Nat
  BY <1>0, <1>1, <1>2, Pending DEF Shape, GState, Quantities, Active, Background
<1>11. Measured'
  <2>1. /\ g.activeSinceLaunch + Active(g) = truth["activeSinceLaunch"] + replayed["activeSinceLaunch"]
        /\ g.backgroundSinceLaunch + Background(g)
             <= truth["backgroundSinceLaunch"] + replayed["backgroundSinceLaunch"]
        /\ last # "terminate" => g.backgroundSinceLaunch + Background(g)
                                   = truth["backgroundSinceLaunch"] + replayed["backgroundSinceLaunch"]
    BY <1>1 DEF Measured, Running
  <2>2. /\ g'.activeSinceLaunch + Active(g)' = truth["activeSinceLaunch"] + replayed'["activeSinceLaunch"]
        /\ g'.backgroundSinceLaunch + Background(g)'
             <= truth["backgroundSinceLaunch"] + replayed'["backgroundSinceLaunch"]
        /\ last # "terminate" => g'.backgroundSinceLaunch + Background(g)'
                                   = truth["backgroundSinceLaunch"] + replayed'["backgroundSinceLaunch"]
    BY SMTT(30), <1>6, <1>e, <1>n, <2>1
  <2> QED BY <1>1, <2>2 DEF Measured, Running
<1>12. Since'
  <2>1. /\ g.activeSinceCrash + Active(g) <= truth["activeSinceCrash"] + replayed["activeSinceCrash"]
        /\ g.backgroundSinceCrash + Background(g) <= truth["backgroundSinceCrash"] + replayed["backgroundSinceCrash"]
        /\ g.launches <= launched
    BY <1>1 DEF Since, Running
  <2>2. /\ g'.activeSinceCrash + Active(g)' <= truth["activeSinceCrash"] + replayed'["activeSinceCrash"]
        /\ g'.backgroundSinceCrash + Background(g)'
             <= truth["backgroundSinceCrash"] + replayed'["backgroundSinceCrash"]
    BY SMTT(30), <1>6, <1>e, <1>n, <2>1
  <2>3. ~Noted => /\ Entry(file, 2)' <= truth["activeSinceCrash"] + replayed'["activeSinceCrash"]
                  /\ Entry(file, 3)' <= truth["backgroundSinceCrash"] + replayed'["backgroundSinceCrash"]
                  /\ Entry(file, 4)' <= launched
    <3>1. Entry(file, 2) \in Nat /\ Entry(file, 3) \in Nat
      <4>1. 2 \in 2 .. 5 /\ 3 \in 2 .. 5 /\ FileShape(file)
        BY DEF Shape
      <4> QED BY <4>1, EntryNumber
    <3>2. Entry(file, 2)' \in {0, Entry(file, 2)} /\ Entry(file, 3)' \in {0, Entry(file, 3)}
          /\ Entry(file, 4)' \in {0, Entry(file, 4)}
      BY <1>3
    <3>3. ~Noted => /\ Entry(file, 2) <= truth["activeSinceCrash"] + replayed["activeSinceCrash"]
                    /\ Entry(file, 3) <= truth["backgroundSinceCrash"] + replayed["backgroundSinceCrash"]
                    /\ Entry(file, 4) <= launched
      BY DEF Since
    <3>4. /\ replayed["activeSinceCrash"] <= replayed'["activeSinceCrash"]
          /\ replayed["backgroundSinceCrash"] <= replayed'["backgroundSinceCrash"]
          /\ replayed'["activeSinceCrash"] \in Nat /\ replayed'["backgroundSinceCrash"] \in Nat
      BY <1>e, <1>n
    <3>5. ~Noted => Entry(file, 2)' <= truth["activeSinceCrash"] + replayed'["activeSinceCrash"]
      BY <1>n, <3>1, <3>2, <3>3, <3>4
    <3>6. ~Noted => Entry(file, 3)' <= truth["backgroundSinceCrash"] + replayed'["backgroundSinceCrash"]
      BY <1>n, <3>1, <3>2, <3>3, <3>4
    <3>7. ~Noted => Entry(file, 4)' <= launched
      BY <1>0, <3>2, <3>3
    <3> QED BY <3>5, <3>6, <3>7
  <2> QED BY <1>1, <1>2, <1>4, <2>1, <2>2, <2>3 DEF Since, Running
<1>13. Whole'
  BY <1>0, <1>1, <1>2, <1>3, <1>4 DEF Whole, Enabled
<1> QED BY <1>7, <1>8, <1>9, <1>10, <1>11, <1>12, <1>13

LEMMA AppNotificationKeeps == ASSUME AppStateInv, NEW n \in Notifications, AppNotification(n) PROVE AppStateInv'
<1> USE DEF AppStateInv
<1>0. /\ now \in Nat /\ launched \in Nat /\ g \in GState /\ g.transition <= now
      /\ g.transition \in Nat
      /\ Len(file) \in Nat /\ saving \in 0 .. 5
      /\ truth["activeSinceCrash"] \in Nat /\ replayed["activeSinceCrash"] \in Nat
      /\ truth["backgroundSinceCrash"] \in Nat /\ replayed["backgroundSinceCrash"] \in Nat
  BY LenProperties DEF Shape, FileShape, Quantities, GState
<1>1. /\ phase' = phase /\ phase \in {"loaded", "installed", "resumed"} /\ saving = 0
      /\ app \in From(n) /\ last # "terminate" /\ app' = To(n) /\ last' = n
      /\ IF phase = "loaded" THEN UNCHANGED <<g, saving, file>> ELSE NotifyApp(n)
      /\ UNCHANGED <<now, truth, replayed, launched, ended, torn>>
  BY DEF AppNotification, MainIsFree
<1>2. phase # "loaded" =>
      /\ g' \in GState /\ g'.transition <= now
      /\ g'.crashedThis = g.crashedThis /\ g'.launches = g.launches
      /\ g'.isActive <=> (n = "active" \/ (n # "resign" /\ g.isActive))
      /\ g'.inForeground <=> (n = "foreground" \/ (n # "background" /\ g.inForeground))
  BY <1>0, <1>1, NotifiedState DEF NotifyApp
<1>3. /\ FileShape(file)' /\ Len(file)' \in Nat
      /\ \/ file' = file /\ saving' = saving
         \/ /\ saving' = 1 /\ Len(file)' = 0
            /\ Entry(file, 2)' = 0 /\ Entry(file, 3)' = 0 /\ Entry(file, 4)' = 0
  <2>1. (file' = file /\ saving' = saving) \/ (file' = <<>> /\ saving' = 1)
    BY <1>1 DEF NotifyApp
  <2>2. FileShape(file)
    BY DEF Shape
  <2> QED BY <1>0, <2>1, <2>2, EmptyFile
<1>4. Noted' <=> Noted
  BY <1>1 DEF Noted, Endings, None
<1>5. /\ n = "active" => app \in {"launching", "inactive"} /\ app' = "active"
      /\ n = "resign" => app = "active" /\ app' = "inactive"
      /\ n = "background" => app = "inactive" /\ app' = "background"
      /\ n = "foreground" => app = "background" /\ app' = "inactive"
      /\ n = "terminate" => app \in {"inactive", "background"} /\ app' = app
      /\ app' \in {"launching", "active", "inactive", "background"}
  BY <1>1 DEF From, To, Notifications
<1>6. phase = "installed" =>
      /\ g'.activeSinceLaunch + Active(g)' = g.activeSinceLaunch + Active(g)
      /\ g'.activeSinceCrash + Active(g)' = g.activeSinceCrash + Active(g)
      /\ g'.backgroundSinceLaunch + Background(g)' = g.backgroundSinceLaunch + Background(g)
      /\ g'.backgroundSinceCrash + Background(g)' = g.backgroundSinceCrash + Background(g)
  <2> SUFFICES ASSUME phase = "installed" PROVE
      /\ g'.activeSinceLaunch + Active(g)' = g.activeSinceLaunch + Active(g)
      /\ g'.activeSinceCrash + Active(g)' = g.activeSinceCrash + Active(g)
      /\ g'.backgroundSinceLaunch + Background(g)' = g.backgroundSinceLaunch + Background(g)
      /\ g'.backgroundSinceCrash + Background(g)' = g.backgroundSinceCrash + Background(g)
    OBVIOUS
  <2>1. Fits(n, g)
    BY <1>1, <1>5 DEF Fits, Follows, Running
  <2>2. g' = Notified(n, g) /\ now' = now
    BY <1>1 DEF NotifyApp
  <2>3. Extra(n, g).active = 0 /\ Extra(n, g).background = 0
    BY <1>1, <1>5 DEF Extra, Follows, Running
  <2>4. /\ g'.activeSinceLaunch + Active(g)' = g.activeSinceLaunch + Active(g) + 0
        /\ g'.activeSinceCrash + Active(g)' = g.activeSinceCrash + Active(g) + 0
        /\ g'.backgroundSinceLaunch + Background(g)' = g.backgroundSinceLaunch + Background(g) + 0
        /\ g'.backgroundSinceCrash + Background(g)' = g.backgroundSinceCrash + Background(g) + 0
    BY <1>0, <2>1, <2>2, <2>3, NotifiedDurations DEF Active, Background
  <2>5. /\ g.activeSinceLaunch + Active(g) \in Nat /\ g.activeSinceCrash + Active(g) \in Nat
        /\ g.backgroundSinceLaunch + Background(g) \in Nat
        /\ g.backgroundSinceCrash + Background(g) \in Nat
    <3>1. Active(g) \in Nat /\ Background(g) \in Nat
      BY <1>0, Pending
    <3>2. /\ g.activeSinceLaunch \in Nat /\ g.activeSinceCrash \in Nat
          /\ g.backgroundSinceLaunch \in Nat /\ g.backgroundSinceCrash \in Nat
      BY <1>0 DEF GState
    <3> QED BY <3>1, <3>2
  <2> QED BY <2>4, <2>5
<1>7. Shape'
  <2>1. FileShape(file)'
    BY <1>3
  <2>2. now' \in Nat /\ g' \in GState /\ g'.transition <= now'
    BY <1>0, <1>1, <1>2, <1>3, <1>4, <1>5, <1>6
  <2>3. phase' \in Phases
    BY <1>0, <1>1, <1>2, <1>3, <1>4, <1>5, <1>6 DEF Shape, Phases, Enabled
  <2>5. saving' \in 0 .. 5
    BY <1>0, <1>1, <1>2, <1>3, <1>4, <1>5, <1>6
  <2>4. /\ last' \in Notifications \cup {None} /\ truth' \in [Quantities -> Nat]
        /\ replayed' \in [Quantities -> Nat] /\ launched' \in Nat
        /\ app' \in {"launching", "active", "inactive", "background"}
        /\ ended' \in Endings /\ torn' \in BOOLEAN
    BY <1>1, <1>5 DEF Shape, Endings, None
  <2> QED BY <2>1, <2>2, <2>3, <2>4, <2>5 DEF Shape
<1>8. Marked'
  BY <1>1, <1>2, <1>3, <1>4 DEF Marked, Enabled
<1>9. Remembered'
  BY <1>0, <1>1, <1>2, <1>3, <1>4, <1>5, <1>6 DEF Remembered, Enabled, Phases
<1>10. Follows'
  BY <1>1, <1>2, <1>5 DEF Follows, None, Notifications, Running
<1>11. Measured'
  BY <1>1, <1>6 DEF Measured, Running
<1>12. Since'
  BY <1>0, <1>1, <1>2, <1>3, <1>4, <1>6 DEF Since, Running
<1>13. Whole'
  BY <1>0, <1>1, <1>2, <1>3, <1>4 DEF Whole, Enabled
<1> QED BY <1>7, <1>8, <1>9, <1>10, <1>11, <1>12, <1>13

LEMMA SaveFieldKeeps == ASSUME AppStateInv, SaveField PROVE AppStateInv'
<1> USE DEF AppStateInv
<1>0. /\ now \in Nat /\ launched \in Nat /\ g \in GState /\ g.transition <= now
      /\ g.transition \in Nat
      /\ Len(file) \in Nat /\ saving \in 0 .. 5
      /\ truth["activeSinceCrash"] \in Nat /\ replayed["activeSinceCrash"] \in Nat
      /\ truth["backgroundSinceCrash"] \in Nat /\ replayed["backgroundSinceCrash"] \in Nat
  BY LenProperties DEF Shape, FileShape, Quantities, GState
<1>1. /\ phase' = phase /\ phase \in {"enabled", "installed", "resumed", "disabled"}
      /\ saving \in 1 .. 5
      /\ file' \in Written(file, saving, Fields(g)[saving])
      /\ UNCHANGED <<now, g, last, app, truth, replayed, launched, ended, torn>>
  BY <1>0 DEF SaveField, history
<1>2. saving' \in 0 .. 5 /\ saving' = IF saving = 5 THEN 0 ELSE saving + 1
  BY <1>1 DEF SaveField
<1>3. /\ FileShape(file')
      /\ Len(file') >= 1 => (Mark(file') <=> g.crashedThis) \/ (Len(file) >= 1 /\ (Mark(file') <=> Mark(file)))
      /\ \A j \in 2 .. 5 : Entry(file', j) \in {0, Entry(Fields(g), j), Entry(file, j)}
      /\ saving = 1 \/ Len(file) >= 1 => Len(file') >= 1
      /\ saving = Len(file) + 1 => /\ Len(file') = saving
                                   /\ saving = 4 => Entry(file', 4) = g.launches
                                   /\ saving = 5 => Entry(file', 4) = Entry(file, 4)
  <2> DEFINE k == saving
             r == file'
  <2>1. FileShape(file) /\ g \in GState /\ k \in 1 .. 5 /\ r \in Written(file, k, Fields(g)[k])
    BY <1>1 DEF Shape
  <2> HIDE DEF k, r
  <2>2. /\ FileShape(r)
        /\ Len(r) >= 1 => (Mark(r) <=> g.crashedThis) \/ (Len(file) >= 1 /\ (Mark(r) <=> Mark(file)))
        /\ \A j \in 2 .. 5 : Entry(r, j) \in {0, Entry(Fields(g), j), Entry(file, j)}
        /\ k = 1 \/ Len(file) >= 1 => Len(r) >= 1
        /\ k = Len(file) + 1 => /\ Len(r) = k
                                /\ k = 4 => Entry(r, 4) = g.launches
                                /\ k = 5 => Entry(r, 4) = Entry(file, 4) /\ Entry(r, 5) = g.sessions
    BY <2>1, WrittenEntries
  <2> QED BY <2>2 DEF k, r
<1>4. /\ Entry(file', 2) \in {0, g.activeSinceCrash, Entry(file, 2)}
      /\ Entry(file', 3) \in {0, g.backgroundSinceCrash, Entry(file, 3)}
      /\ Entry(file', 4) \in {0, g.launches, Entry(file, 4)}
  BY <1>0, <1>3, WholeFile
<1>5. Noted' <=> Noted
  BY <1>1 DEF Noted, Endings, None
<1>6. Shape'
  <2>1. FileShape(file)'
    BY <1>3
  <2>2. now' \in Nat /\ g' \in GState /\ g'.transition <= now'
    BY <1>0, <1>1, <1>2, <1>3, <1>4, <1>5
  <2>3. phase' \in Phases
    BY <1>0, <1>1, <1>2, <1>3, <1>4, <1>5 DEF Shape, Phases, Enabled
  <2>5. saving' \in 0 .. 5
    BY <1>0, <1>1, <1>2, <1>3, <1>4, <1>5
  <2>4. /\ last' \in Notifications \cup {None} /\ truth' \in [Quantities -> Nat]
        /\ replayed' \in [Quantities -> Nat] /\ launched' \in Nat
        /\ app' \in {"launching", "active", "inactive", "background"}
        /\ ended' \in Endings /\ torn' \in BOOLEAN
    BY <1>1 DEF Shape, Endings, None
  <2> QED BY <2>1, <2>2, <2>3, <2>4, <2>5 DEF Shape
<1>7. Marked'
  BY <1>0, <1>1, <1>3, <1>5 DEF Marked, Enabled
<1>8. Remembered'
  BY <1>0, <1>1, <1>2, <1>3 DEF Remembered
<1>9. Follows'
  BY <1>1 DEF Follows, Running
<1>10. Measured'
  BY <1>1 DEF Measured, Active, Background, Running
<1>11. Since'
  <2>1. ~Noted => /\ g.activeSinceCrash <= truth["activeSinceCrash"] + replayed["activeSinceCrash"]
                    /\ g.backgroundSinceCrash <= truth["backgroundSinceCrash"] + replayed["backgroundSinceCrash"]
                    /\ g.launches <= launched
    <3>1. ~Noted => phase \in ({"enabled"} \cup Running)
      BY <1>1 DEF Remembered, Noted, Endings, None, Running
    <3>2. /\ Active(g) \in Nat /\ Background(g) \in Nat
          /\ g.activeSinceCrash \in Nat /\ g.backgroundSinceCrash \in Nat
      BY <1>0, Pending DEF GState
    <3> QED BY SMTT(30), <1>0, <3>1, <3>2 DEF Since, Running
  <2>2. ~Noted => /\ Entry(file', 2) <= truth["activeSinceCrash"] + replayed["activeSinceCrash"]
                    /\ Entry(file', 3) <= truth["backgroundSinceCrash"] + replayed["backgroundSinceCrash"]
                    /\ Entry(file', 4) <= launched
    BY <1>0, <1>4, <2>1 DEF Since, Running
  <2> QED BY <1>1, <1>5, <2>2 DEF Since, Active, Background, Running
<1>12. Whole'
  <2> SUFFICES ASSUME ~torn PROVE
        g.launches = launched /\ Len(file') = (IF saving' = 0 THEN 5 ELSE saving' - 1)
        /\ (Len(file') >= 4 => Entry(file', 4) = g.launches)
    BY <1>1 DEF Whole
  <2>1. g.launches = launched /\ Len(file) = saving - 1 /\ (Len(file) >= 4 => Entry(file, 4) = g.launches)
    BY <1>1 DEF Whole, Enabled
  <2>2. saving = Len(file) + 1 /\ Len(file') = saving
    BY <1>0, <1>1, <1>3, <2>1
  <2>3. saving >= 4 => Entry(file', 4) = g.launches
    BY <1>0, <1>1, <1>3, <2>1, <2>2
  <2> QED BY <1>1, <1>2, <2>1, <2>2, <2>3
<1> QED BY <1>6, <1>7, <1>8, <1>9, <1>10, <1>11, <1>12

LEMMA EventKeeps == ASSUME AppStateInv, Event PROVE AppStateInv'
<1> USE DEF AppStateInv
<1>0. /\ now \in Nat /\ launched \in Nat /\ g \in GState /\ g.transition <= now
      /\ g.transition \in Nat
      /\ Len(file) \in Nat /\ saving \in 0 .. 5
      /\ truth["activeSinceCrash"] \in Nat /\ replayed["activeSinceCrash"] \in Nat
      /\ truth["backgroundSinceCrash"] \in Nat /\ replayed["backgroundSinceCrash"] \in Nat
  BY LenProperties DEF Shape, FileShape, Quantities, GState
<1>1. /\ phase' = phase /\ phase \in {"enabled", "installed", "hung"}
      /\ UNCHANGED <<now, saving, file, last, app, truth, replayed, launched, ended, torn>>
  BY DEF Event, spans
<1>2. /\ g' \in GState /\ g'.transition = now
      /\ g'.isActive = g.isActive /\ g'.inForeground = g.inForeground /\ g'.launches = g.launches
      /\ g'.activeSinceLaunch = g.activeSinceLaunch + Active(g)
      /\ g'.activeSinceCrash = g.activeSinceCrash + Active(g)
      /\ g'.backgroundSinceLaunch = g.backgroundSinceLaunch + Background(g)
      /\ g'.backgroundSinceCrash = g.backgroundSinceCrash + Background(g)
      /\ g'.crashedThis = g.crashedThis
  BY <1>0, Updated DEF Event
<1>3. /\ Active(g)' = 0 /\ Background(g)' = 0 /\ Active(g) \in Nat /\ Background(g) \in Nat
      /\ g'.activeSinceLaunch \in Nat /\ g'.activeSinceCrash \in Nat
      /\ g'.backgroundSinceLaunch \in Nat /\ g'.backgroundSinceCrash \in Nat
  <2>1. g'.transition <= now /\ now' = now
    BY <1>0, <1>1, <1>2
  <2>2. Active(g)' = 0 /\ Background(g)' = 0
    BY <1>0, <1>1, <1>2 DEF Active, Background
  <2> QED BY <1>0, <1>2, <2>2, Pending DEF GState
<1>4. Noted' <=> Noted
  BY <1>1 DEF Noted, Endings, None
<1>5. Shape'
  <2>1. FileShape(file)'
    BY <1>1 DEF Shape
  <2>2. now' \in Nat /\ g' \in GState /\ g'.transition <= now'
    BY <1>0, <1>1, <1>2, <1>3, <1>4
  <2>3. phase' \in Phases
    BY <1>0, <1>1, <1>2, <1>3, <1>4 DEF Shape, Phases, Enabled
  <2>5. saving' \in 0 .. 5
    BY <1>0, <1>1, <1>2, <1>3, <1>4
  <2>4. /\ last' \in Notifications \cup {None} /\ truth' \in [Quantities -> Nat]
        /\ replayed' \in [Quantities -> Nat] /\ launched' \in Nat
        /\ app' \in {"launching", "active", "inactive", "background"}
        /\ ended' \in Endings /\ torn' \in BOOLEAN
    BY <1>1 DEF Shape, Endings, None
  <2> QED BY <2>1, <2>2, <2>3, <2>4, <2>5 DEF Shape
<1>6. Marked'
  BY <1>1, <1>2, <1>4 DEF Marked, Enabled
<1>7. Remembered'
  BY <1>1 DEF Remembered
<1>8. Follows'
  BY <1>1, <1>2 DEF Follows, Running
<1>9. Measured'
  BY <1>1, <1>2, <1>3 DEF Measured, Running
<1>10. Since'
  BY <1>1, <1>2, <1>3, <1>4 DEF Since, Running
<1>11. Whole'
  BY <1>1, <1>2, <1>4 DEF Whole, Enabled
<1> QED BY <1>5, <1>6, <1>7, <1>8, <1>9, <1>10, <1>11

LEMMA HangKeeps == ASSUME AppStateInv, Hang PROVE AppStateInv'
<1> USE DEF AppStateInv
<1>0. /\ now \in Nat /\ launched \in Nat /\ g \in GState /\ g.transition <= now
      /\ g.transition \in Nat
      /\ Len(file) \in Nat /\ saving \in 0 .. 5
      /\ truth["activeSinceCrash"] \in Nat /\ replayed["activeSinceCrash"] \in Nat
      /\ truth["backgroundSinceCrash"] \in Nat /\ replayed["backgroundSinceCrash"] \in Nat
  BY LenProperties DEF Shape, FileShape, Quantities, GState
<1>1. /\ phase' = "hanging" /\ phase = "installed" /\ file' = <<>> /\ ended' = "hang" /\ torn' = (torn \/ saving # 0)
      /\ UNCHANGED <<now, saving, last, app, truth, replayed, launched>>
  BY DEF Hang
<1>2. /\ g' \in GState /\ g'.transition = now
      /\ g'.isActive = g.isActive /\ g'.inForeground = g.inForeground /\ g'.launches = g.launches
      /\ g'.activeSinceLaunch = g.activeSinceLaunch + Active(g)
      /\ g'.activeSinceCrash = g.activeSinceCrash + Active(g)
      /\ g'.backgroundSinceLaunch = g.backgroundSinceLaunch + Background(g)
      /\ g'.backgroundSinceCrash = g.backgroundSinceCrash + Background(g) /\ g'.crashedThis
  BY <1>0, CrashNoted DEF Hang
<1>3. /\ Active(g)' = 0 /\ Background(g)' = 0 /\ Active(g) \in Nat /\ Background(g) \in Nat
      /\ g'.activeSinceLaunch \in Nat /\ g'.activeSinceCrash \in Nat
      /\ g'.backgroundSinceLaunch \in Nat /\ g'.backgroundSinceCrash \in Nat
  <2>1. g'.transition <= now /\ now' = now
    BY <1>0, <1>1, <1>2
  <2>2. Active(g)' = 0 /\ Background(g)' = 0
    BY <1>0, <1>1, <1>2 DEF Active, Background
  <2> QED BY <1>0, <1>2, <2>2, Pending DEF GState
<1>4. FileShape(file') /\ Len(file') = 0
  BY <1>1, EmptyFile
<1>5. Noted'
  BY <1>1 DEF Noted, Endings, None
<1>6. Shape'
  <2>1. FileShape(file)'
    BY <1>4
  <2>2. now' \in Nat /\ g' \in GState /\ g'.transition <= now'
    BY <1>0, <1>1, <1>2, <1>3, <1>4, <1>5
  <2>3. phase' \in Phases
    BY <1>0, <1>1, <1>2, <1>3, <1>4, <1>5 DEF Shape, Phases, Enabled
  <2>5. saving' \in 0 .. 5
    BY <1>0, <1>1, <1>2, <1>3, <1>4, <1>5
  <2>4. /\ last' \in Notifications \cup {None} /\ truth' \in [Quantities -> Nat]
        /\ replayed' \in [Quantities -> Nat] /\ launched' \in Nat
        /\ app' \in {"launching", "active", "inactive", "background"}
        /\ ended' \in Endings /\ torn' \in BOOLEAN
    BY <1>1 DEF Shape, Endings, None
  <2> QED BY <2>1, <2>2, <2>3, <2>4, <2>5 DEF Shape
<1>7. Marked'
  BY <1>1, <1>2, <1>4, <1>5 DEF Marked, Enabled
<1>8. Remembered'
  BY <1>1 DEF Remembered
<1>9. Follows'
  BY <1>1, <1>2 DEF Follows, Running
<1>10. Measured'
  BY <1>1, <1>2, <1>3 DEF Measured, Running
<1>11. Since'
  BY <1>1, <1>2, <1>3, <1>5 DEF Since, Running
<1>12. Whole'
  BY <1>0, <1>1, <1>2, <1>4, <1>5 DEF Whole, Enabled
<1> QED BY <1>6, <1>7, <1>8, <1>9, <1>10, <1>11, <1>12

LEMMA HangSaveKeeps == ASSUME AppStateInv, HangSave PROVE AppStateInv'
<1> USE DEF AppStateInv
<1>0. /\ now \in Nat /\ launched \in Nat /\ g \in GState /\ g.transition <= now
      /\ g.transition \in Nat
      /\ Len(file) \in Nat /\ saving \in 0 .. 5
      /\ truth["activeSinceCrash"] \in Nat /\ replayed["activeSinceCrash"] \in Nat
      /\ truth["backgroundSinceCrash"] \in Nat /\ replayed["backgroundSinceCrash"] \in Nat
  BY LenProperties DEF Shape, FileShape, Quantities, GState
<1>1. /\ phase' = "hung" /\ phase = "hanging" /\ file' = Fields(g)
      /\ UNCHANGED <<now, g, saving, last, app, truth, replayed, launched, ended, torn>>
  BY DEF HangSave, counts
<1>2. /\ FileShape(file') /\ Len(file') = 5 /\ (Mark(file') <=> g.crashedThis)
      /\ Entry(file', 4) = g.launches
  BY <1>0, <1>1, FieldsWhole, WholeFile
<1>3. Noted' /\ Noted
  BY <1>1 DEF Noted, Endings, Remembered, None
<1>4. Len(file') >= 1
  BY <1>2
<1>5. Shape'
  <2>1. FileShape(file)'
    BY <1>2
  <2>2. now' \in Nat /\ g' \in GState /\ g'.transition <= now'
    BY <1>0, <1>1, <1>2, <1>3, <1>4
  <2>3. phase' \in Phases
    BY <1>0, <1>1, <1>2, <1>3, <1>4 DEF Shape, Phases, Enabled
  <2>5. saving' \in 0 .. 5
    BY <1>0, <1>1, <1>2, <1>3, <1>4
  <2>4. /\ last' \in Notifications \cup {None} /\ truth' \in [Quantities -> Nat]
        /\ replayed' \in [Quantities -> Nat] /\ launched' \in Nat
        /\ app' \in {"launching", "active", "inactive", "background"}
        /\ ended' \in Endings /\ torn' \in BOOLEAN
    BY <1>1 DEF Shape, Endings, None
  <2> QED BY <2>1, <2>2, <2>3, <2>4, <2>5 DEF Shape
<1>6. Marked'
  BY <1>1, <1>2, <1>3 DEF Marked, Enabled
<1>7. Remembered'
  BY <1>1, <1>4 DEF Remembered
<1>8. Follows'
  BY <1>1 DEF Follows, Running
<1>9. Measured'
  BY <1>1 DEF Measured, Running, Active, Background
<1>10. Since'
  BY <1>1, <1>3 DEF Since, Running, Active, Background
<1>11. Whole'
  BY <1>0, <1>1, <1>2 DEF Whole, Enabled
<1> QED BY <1>5, <1>6, <1>7, <1>8, <1>9, <1>10, <1>11

LEMMA HangEndsKeeps == ASSUME AppStateInv, HangEnds PROVE AppStateInv'
<1> USE DEF AppStateInv
<1>0. /\ now \in Nat /\ launched \in Nat /\ g \in GState /\ g.transition <= now
      /\ g.transition \in Nat
      /\ Len(file) \in Nat /\ saving \in 0 .. 5
      /\ truth["activeSinceCrash"] \in Nat /\ replayed["activeSinceCrash"] \in Nat
      /\ truth["backgroundSinceCrash"] \in Nat /\ replayed["backgroundSinceCrash"] \in Nat
  BY LenProperties DEF Shape, FileShape, Quantities, GState
<1>1. /\ phase' = "installed" /\ phase = "hung" /\ ended' = "recovered"
      /\ UNCHANGED <<now, g, saving, file, last, app, truth, replayed, launched, torn>>
  BY DEF HangEnds, spans, counts
<1>2. Noted' /\ Noted
  BY <1>1 DEF Remembered, Noted, Endings, None
<1>3. Shape'
  <2>1. FileShape(file)'
    BY <1>1 DEF Shape
  <2>2. now' \in Nat /\ g' \in GState /\ g'.transition <= now'
    BY <1>0, <1>1, <1>2
  <2>3. phase' \in Phases
    BY <1>0, <1>1, <1>2 DEF Shape, Phases, Enabled
  <2>5. saving' \in 0 .. 5
    BY <1>0, <1>1, <1>2
  <2>4. /\ last' \in Notifications \cup {None} /\ truth' \in [Quantities -> Nat]
        /\ replayed' \in [Quantities -> Nat] /\ launched' \in Nat
        /\ app' \in {"launching", "active", "inactive", "background"}
        /\ ended' \in Endings /\ torn' \in BOOLEAN
    BY <1>1 DEF Shape, Endings, None
  <2> QED BY <2>1, <2>2, <2>3, <2>4, <2>5 DEF Shape
<1>4. Marked'
  BY <1>1, <1>2 DEF Marked, Enabled
<1>5. Remembered'
  BY <1>1 DEF Remembered
<1>6. Follows'
  BY <1>1 DEF Follows, Running
<1>7. Measured'
  BY <1>1 DEF Measured, Running, Active, Background
<1>8. Since'
  BY <1>1, <1>2 DEF Since, Running, Active, Background
<1>9. Whole'
  BY <1>1, <1>2 DEF Whole, Enabled
<1> QED BY <1>3, <1>4, <1>5, <1>6, <1>7, <1>8, <1>9

LEMMA CrashKeeps == ASSUME AppStateInv, Crash PROVE AppStateInv'
<1> USE DEF AppStateInv
<1>0. /\ now \in Nat /\ launched \in Nat /\ g \in GState /\ g.transition <= now
      /\ g.transition \in Nat
      /\ Len(file) \in Nat /\ saving \in 0 .. 5
      /\ truth["activeSinceCrash"] \in Nat /\ replayed["activeSinceCrash"] \in Nat
      /\ truth["backgroundSinceCrash"] \in Nat /\ replayed["backgroundSinceCrash"] \in Nat
  BY LenProperties DEF Shape, FileShape, Quantities, GState
<1>1. /\ phase' = "crashing" /\ phase \in {"enabled", "installed", "hung"} /\ file' = <<>>
      /\ ended' = "crash"
      /\ torn' = (torn \/ saving # 0) /\ UNCHANGED <<now, saving, last, app, truth, replayed, launched>>
  BY DEF Crash
<1>2. /\ g' \in GState /\ g'.transition = now
      /\ g'.isActive = g.isActive /\ g'.inForeground = g.inForeground /\ g'.launches = g.launches
      /\ g'.activeSinceLaunch = g.activeSinceLaunch + Active(g)
      /\ g'.activeSinceCrash = g.activeSinceCrash + Active(g)
      /\ g'.backgroundSinceLaunch = g.backgroundSinceLaunch + Background(g)
      /\ g'.backgroundSinceCrash = g.backgroundSinceCrash + Background(g) /\ g'.crashedThis
  BY <1>0, CrashNoted DEF Crash
<1>3. FileShape(file') /\ Len(file') = 0
  BY <1>1, EmptyFile
<1>4. Noted'
  BY <1>1 DEF Noted, Endings, None
<1>5. Shape'
  <2>1. FileShape(file)'
    BY <1>3
  <2>2. now' \in Nat /\ g' \in GState /\ g'.transition <= now'
    BY <1>0, <1>1, <1>2, <1>3, <1>4
  <2>3. phase' \in Phases
    BY <1>0, <1>1, <1>2, <1>3, <1>4 DEF Shape, Phases, Enabled
  <2>5. saving' \in 0 .. 5
    BY <1>0, <1>1, <1>2, <1>3, <1>4
  <2>4. /\ last' \in Notifications \cup {None} /\ truth' \in [Quantities -> Nat]
        /\ replayed' \in [Quantities -> Nat] /\ launched' \in Nat
        /\ app' \in {"launching", "active", "inactive", "background"}
        /\ ended' \in Endings /\ torn' \in BOOLEAN
    BY <1>1 DEF Shape, Endings, None
  <2> QED BY <2>1, <2>2, <2>3, <2>4, <2>5 DEF Shape
<1>6. Marked'
  BY <1>1, <1>2, <1>3, <1>4 DEF Marked, Enabled
<1>7. Remembered'
  BY <1>1 DEF Remembered
<1>8. Follows'
  BY <1>1 DEF Follows, Running
<1>9. Measured'
  BY <1>1 DEF Measured, Running
<1>10. Since'
  BY <1>1, <1>4 DEF Since, Running
<1>11. Whole'
  BY <1>0, <1>1, <1>2, <1>4 DEF Whole, Enabled
<1> QED BY <1>5, <1>6, <1>7, <1>8, <1>9, <1>10, <1>11

LEMMA CrashSaveKeeps == ASSUME AppStateInv, CrashSave PROVE AppStateInv'
<1> USE DEF AppStateInv
<1>0. /\ now \in Nat /\ launched \in Nat /\ g \in GState /\ g.transition <= now
      /\ g.transition \in Nat
      /\ Len(file) \in Nat /\ saving \in 0 .. 5
      /\ truth["activeSinceCrash"] \in Nat /\ replayed["activeSinceCrash"] \in Nat
      /\ truth["backgroundSinceCrash"] \in Nat /\ replayed["backgroundSinceCrash"] \in Nat
  BY LenProperties DEF Shape, FileShape, Quantities, GState
<1>1. /\ phase' = "resumed" /\ phase = "crashing" /\ file' = Fields(g) /\ ended' = "saved crash"
      /\ UNCHANGED <<now, g, saving, last, app, truth, replayed, launched, torn>>
  BY DEF CrashSave, counts
<1>2. /\ FileShape(file') /\ Len(file') = 5 /\ (Mark(file') <=> g.crashedThis)
      /\ Entry(file', 4) = g.launches
  BY <1>0, <1>1, FieldsWhole, WholeFile
<1>3. Noted' /\ Noted
  BY <1>1 DEF Noted, Endings, Remembered, None
<1>4. Len(file') >= 1
  BY <1>2
<1>5. Shape'
  <2>1. FileShape(file)'
    BY <1>2
  <2>2. now' \in Nat /\ g' \in GState /\ g'.transition <= now'
    BY <1>0, <1>1, <1>2, <1>3, <1>4
  <2>3. phase' \in Phases
    BY <1>0, <1>1, <1>2, <1>3, <1>4 DEF Shape, Phases, Enabled
  <2>5. saving' \in 0 .. 5
    BY <1>0, <1>1, <1>2, <1>3, <1>4
  <2>4. /\ last' \in Notifications \cup {None} /\ truth' \in [Quantities -> Nat]
        /\ replayed' \in [Quantities -> Nat] /\ launched' \in Nat
        /\ app' \in {"launching", "active", "inactive", "background"}
        /\ ended' \in Endings /\ torn' \in BOOLEAN
    BY <1>1 DEF Shape, Endings, None
  <2> QED BY <2>1, <2>2, <2>3, <2>4, <2>5 DEF Shape
<1>6. Marked'
  BY <1>1, <1>2, <1>3 DEF Marked, Enabled
<1>7. Remembered'
  BY <1>1, <1>4 DEF Remembered
<1>8. Follows'
  BY <1>1 DEF Follows, Running
<1>9. Measured'
  BY <1>1 DEF Measured, Running, Active, Background
<1>10. Since'
  BY <1>1, <1>3 DEF Since, Running, Active, Background
<1>11. Whole'
  BY <1>0, <1>1, <1>2 DEF Whole, Enabled
<1> QED BY <1>5, <1>6, <1>7, <1>8, <1>9, <1>10, <1>11

LEMMA DisableKeeps == ASSUME AppStateInv, DisableState PROVE AppStateInv'
<1> USE DEF AppStateInv
<1>0. /\ now \in Nat /\ launched \in Nat /\ g \in GState /\ g.transition <= now
      /\ g.transition \in Nat
      /\ Len(file) \in Nat /\ saving \in 0 .. 5
      /\ truth["activeSinceCrash"] \in Nat /\ replayed["activeSinceCrash"] \in Nat
      /\ truth["backgroundSinceCrash"] \in Nat /\ replayed["backgroundSinceCrash"] \in Nat
  BY LenProperties DEF Shape, FileShape, Quantities, GState
<1>1. /\ phase' = "disabled" /\ phase = "resumed"
      /\ UNCHANGED <<now, g, saving, file, last, app, truth, replayed, launched, ended, torn>>
  BY DEF DisableState, history
<1>2. Noted' <=> Noted
  BY <1>1 DEF Noted, Endings, None
<1>3. Shape'
  <2>1. FileShape(file)'
    BY <1>1 DEF Shape
  <2>2. now' \in Nat /\ g' \in GState /\ g'.transition <= now'
    BY <1>0, <1>1, <1>2
  <2>3. phase' \in Phases
    BY <1>0, <1>1, <1>2 DEF Shape, Phases, Enabled
  <2>5. saving' \in 0 .. 5
    BY <1>0, <1>1, <1>2
  <2>4. /\ last' \in Notifications \cup {None} /\ truth' \in [Quantities -> Nat]
        /\ replayed' \in [Quantities -> Nat] /\ launched' \in Nat
        /\ app' \in {"launching", "active", "inactive", "background"}
        /\ ended' \in Endings /\ torn' \in BOOLEAN
    BY <1>1 DEF Shape, Endings, None
  <2> QED BY <2>1, <2>2, <2>3, <2>4, <2>5 DEF Shape
<1>4. Marked'
  BY <1>1, <1>2 DEF Marked, Enabled
<1>5. Remembered'
  BY <1>1 DEF Remembered
<1>6. Follows'
  BY <1>1 DEF Follows, Running
<1>7. Measured'
  BY <1>1 DEF Measured, Running, Active, Background
<1>8. Since'
  BY <1>1, <1>2 DEF Since, Running, Active, Background
<1>9. Whole'
  BY <1>1, <1>2 DEF Whole, Enabled
<1> QED BY <1>3, <1>4, <1>5, <1>6, <1>7, <1>8, <1>9

LEMMA EndKeeps == ASSUME AppStateInv, End PROVE AppStateInv'
<1> USE DEF AppStateInv
<1>0. /\ now \in Nat /\ launched \in Nat /\ g \in GState /\ g.transition <= now
      /\ g.transition \in Nat
      /\ Len(file) \in Nat /\ saving \in 0 .. 5
      /\ truth["activeSinceCrash"] \in Nat /\ replayed["activeSinceCrash"] \in Nat
      /\ truth["backgroundSinceCrash"] \in Nat /\ replayed["backgroundSinceCrash"] \in Nat
  BY LenProperties DEF Shape, FileShape, Quantities, GState
<1>1. /\ phase' = "down" /\ phase # "down" /\ phase \in Phases
      /\ torn' = (torn \/ Saving \/ saving # 0) /\ torn' \in BOOLEAN
      /\ ended' = (IF ended = "saved crash" /\ saving # 0 THEN "torn crash" ELSE ended)
      /\ saving' = 0 /\ last' = None /\ app' = "launching"
      /\ UNCHANGED <<now, truth, replayed, launched>>
  BY DEF End, counts, Shape, Saving
<1>12. g' \in GState /\ g'.transition <= now
  <2>1. g' = Cleared
    BY DEF End
  <2> QED BY <1>0, <2>1 DEF Cleared, GState
<1>2. Noted' <=> Noted
  BY <1>1 DEF Noted, Endings, None
<1>3. ~Saving => file' = file
  BY DEF End
<1>4. Saving => /\ FileShape(file') /\ Noted /\ ended' = ended
                /\ Len(file') >= 1 => Mark(file')
  <2> SUFFICES ASSUME Saving
               PROVE  FileShape(file') /\ Noted /\ ended' = ended /\ (Len(file') >= 1 => Mark(file'))
    OBVIOUS
  <2>1. g.crashedThis /\ Noted /\ ended' = ended
    BY <1>1 DEF Marked, Remembered, Noted, Endings, None, Saving
  <2>2. PICK k \in 0 .. 4 : file' = SubSeq(Fields(g), 1, k)
    BY DEF End
  <2> QED BY <1>0, <2>1, <2>2, Prefix
<1>5. Shape'
  <2>1. FileShape(file)'
    <3>1. FileShape(file)
      BY DEF Shape
    <3>2. CASE Saving
      BY <1>4, <3>2
    <3>3. CASE ~Saving
      BY <1>3, <3>1, <3>3
    <3> QED BY <3>2, <3>3
  <2>2. now' \in Nat /\ g' \in GState /\ g'.transition <= now'
    BY <1>0, <1>1, <1>12
  <2>3. phase' \in Phases
    BY <1>0, <1>1, <1>2, <1>3, <1>4 DEF Shape, Phases, Enabled
  <2>5. saving' \in 0 .. 5
    <3>1. saving' = 0
      BY <1>1
    <3> QED BY ONLY <3>1
  <2>4. /\ last' \in Notifications \cup {None} /\ truth' \in [Quantities -> Nat]
        /\ replayed' \in [Quantities -> Nat] /\ launched' \in Nat
        /\ app' \in {"launching", "active", "inactive", "background"}
        /\ ended' \in Endings /\ torn' \in BOOLEAN
    BY <1>1 DEF Shape, Endings, None
  <2> QED BY <2>1, <2>2, <2>3, <2>4, <2>5 DEF Shape
<1>6. Marked'
  <2>1. Len(file') >= 1 => (Mark(file') <=> Noted)
    <3>1. CASE Saving
      BY <1>4, <3>1
    <3>2. CASE ~Saving
      BY <1>3, <3>2 DEF Marked
    <3> QED BY <3>1, <3>2
  <2> QED BY <1>1, <1>2, <2>1 DEF Marked, Enabled
<1>7. Remembered'
  <2> SUFFICES ASSUME ended' = "saved crash" PROVE Len(file') >= 1
    BY <1>1 DEF Remembered
  <2>1. ended = "saved crash" /\ saving = 0 /\ ~Saving /\ file' = file
    BY <1>1, <1>3, <1>4 DEF Remembered, Saving
  <2>2. phase \in {"resumed", "disabled", "loaded", "initialized"}
    BY <1>1, <2>1 DEF Remembered, Phases, Enabled
  <2>3. saving = 0
    BY <2>1
  <2>4. saving # 1
    BY ONLY <2>3
  <2> QED BY <2>1, <2>2, <2>4 DEF Remembered
<1>8. Follows'
  BY <1>1 DEF Follows, Running, None
<1>9. Measured'
  BY <1>1 DEF Measured, Running
<1>10. Since'
  <2>1. ~Noted => file' = file
    BY <1>3, <1>4
  <2> QED BY <1>1, <1>2, <2>1 DEF Since, Running
<1>11. Whole'
  <2> SUFFICES ASSUME ~torn' PROVE (Noted => Len(file') >= 1) /\ (~Noted => launched = Entry(file', 4))
    BY <1>1, <1>2 DEF Whole, Enabled
  <2>1. ~torn /\ ~Saving /\ saving = 0 /\ file' = file
    BY <1>1, <1>3
  <2>2. CASE phase \in {"loaded", "initialized"}
    BY <2>1, <2>2 DEF Whole
  <2>3. CASE phase \in Enabled \cup {"disabled"}
    <3>1. g.launches = launched /\ Len(file) = 5 /\ (Len(file) >= 4 => Entry(file, 4) = g.launches)
      BY <2>1, <2>3 DEF Whole
    <3> QED BY <2>1, <3>1
  <2> QED BY <1>1, <2>1, <2>2, <2>3 DEF Phases, Saving
<1> QED BY <1>5, <1>6, <1>7, <1>8, <1>9, <1>10, <1>11

LEMMA TickKeeps == ASSUME AppStateInv, ClockTick PROVE AppStateInv'
<1> USE DEF AppStateInv
<1>0. /\ now \in Nat /\ launched \in Nat /\ g \in GState /\ g.transition <= now
      /\ g.transition \in Nat
      /\ Len(file) \in Nat /\ saving \in 0 .. 5
      /\ truth["activeSinceCrash"] \in Nat /\ replayed["activeSinceCrash"] \in Nat
      /\ truth["backgroundSinceCrash"] \in Nat /\ replayed["backgroundSinceCrash"] \in Nat
  BY LenProperties DEF Shape, FileShape, Quantities, GState
<1>1. /\ now' = now + 1 /\ phase' = phase
      /\ UNCHANGED <<g, saving, file, last, app, replayed, launched, ended, torn>>
  BY DEF ClockTick, spans, counts
<1>2. Noted' <=> Noted
  BY <1>1 DEF Noted, Endings, None
<1>3. /\ truth' \in [Quantities -> Nat]
      /\ truth'["activeSinceLaunch"]
           = truth["activeSinceLaunch"] + (IF phase \in Running /\ app = "active" THEN 1 ELSE 0)
      /\ truth'["activeSinceCrash"]
           = truth["activeSinceCrash"] + (IF phase \in Running /\ app = "active" THEN 1 ELSE 0)
      /\ truth'["backgroundSinceLaunch"]
           = truth["backgroundSinceLaunch"] + (IF phase \in Running /\ app = "background" THEN 1 ELSE 0)
      /\ truth'["backgroundSinceCrash"]
           = truth["backgroundSinceCrash"] + (IF phase \in Running /\ app = "background" THEN 1 ELSE 0)
  <2>1. truth \in [Quantities -> Nat]
    BY DEF Shape
  <2>2. truth' = [q \in Quantities |->
                    IF /\ phase \in Running
                       /\ \/ app = "active" /\ q \in {"activeSinceLaunch", "activeSinceCrash"}
                          \/ app = "background" /\ q \in {"backgroundSinceLaunch", "backgroundSinceCrash"}
                    THEN truth[q] + 1 ELSE truth[q]]
    BY DEF ClockTick, Running
  <2> QED BY <2>1, <2>2 DEF Quantities
<1>4. /\ Active(g)' = Active(g) + (IF g.isActive THEN 1 ELSE 0)
      /\ Background(g)' = Background(g) + (IF ~g.isActive /\ ~g.inForeground THEN 1 ELSE 0)
      /\ Active(g) \in Nat /\ Background(g) \in Nat
  BY <1>0, <1>1, Pending DEF Active, Background, GState
<1>5. Shape'
  <2>1. FileShape(file)'
    BY <1>1 DEF Shape
  <2>2. now' \in Nat /\ g' \in GState /\ g'.transition <= now'
    BY <1>0, <1>1
  <2>3. phase' \in Phases
    BY <1>0, <1>1, <1>2, <1>3, <1>4 DEF Shape, Phases, Enabled
  <2>5. saving' \in 0 .. 5
    BY <1>0, <1>1, <1>2, <1>3, <1>4
  <2>4. /\ last' \in Notifications \cup {None} /\ truth' \in [Quantities -> Nat]
        /\ replayed' \in [Quantities -> Nat] /\ launched' \in Nat
        /\ app' \in {"launching", "active", "inactive", "background"}
        /\ ended' \in Endings /\ torn' \in BOOLEAN
    BY <1>1, <1>3 DEF Shape, Endings, None
  <2> QED BY <2>1, <2>2, <2>3, <2>4, <2>5 DEF Shape
<1>6. Marked'
  BY <1>1, <1>2 DEF Marked, Enabled
<1>7. Remembered'
  BY <1>1 DEF Remembered
<1>8. Follows'
  BY <1>1 DEF Follows, Running
<1>n. phase \in {"enabled"} \cup Running =>
      /\ g.isActive <=> phase \in Running /\ app = "active"
      /\ ~g.isActive /\ ~g.inForeground => phase \in Running /\ app = "background"
      /\ phase \in Running /\ app = "background" /\ last # "terminate" => ~g.isActive /\ ~g.inForeground
  BY DEF Follows, Running
<1>9. Measured'
  <2> SUFFICES ASSUME phase \in {"enabled"} \cup Running PROVE Measured'
    BY <1>1 DEF Measured
  <2>2. /\ g.activeSinceLaunch \in Nat /\ g.backgroundSinceLaunch \in Nat
        /\ truth["backgroundSinceLaunch"] \in Nat /\ truth["activeSinceLaunch"] \in Nat
        /\ replayed["backgroundSinceLaunch"] \in Nat /\ replayed["activeSinceLaunch"] \in Nat
    BY DEF Shape, GState, Quantities
  <2>3. /\ g.activeSinceLaunch + Active(g) = truth["activeSinceLaunch"] + replayed["activeSinceLaunch"]
        /\ g.backgroundSinceLaunch + Background(g)
             <= truth["backgroundSinceLaunch"] + replayed["backgroundSinceLaunch"]
        /\ last # "terminate" => g.backgroundSinceLaunch + Background(g)
                                   = truth["backgroundSinceLaunch"] + replayed["backgroundSinceLaunch"]
    BY DEF Measured
  <2>4. g.activeSinceLaunch + Active(g)' = truth'["activeSinceLaunch"] + replayed["activeSinceLaunch"]
    BY <1>3, <1>4, <1>n, <2>2, <2>3
  <2>5. /\ g.backgroundSinceLaunch + Background(g)'
             <= truth'["backgroundSinceLaunch"] + replayed["backgroundSinceLaunch"]
        /\ last # "terminate" => g.backgroundSinceLaunch + Background(g)'
                                   = truth'["backgroundSinceLaunch"] + replayed["backgroundSinceLaunch"]
    <3>1. CASE ~g.isActive /\ ~g.inForeground
      BY SMTT(30), <1>3, <1>4, <1>n, <2>2, <2>3, <3>1
    <3>2. CASE ~(~g.isActive /\ ~g.inForeground)
      <4>1. Background(g)' = Background(g) /\ Background(g) \in Nat
        BY <1>4, <3>2
      <4>2. truth'["backgroundSinceLaunch"] \in {truth["backgroundSinceLaunch"], truth["backgroundSinceLaunch"] + 1}
        BY <1>3, <2>2
      <4>3. last # "terminate" => truth'["backgroundSinceLaunch"] = truth["backgroundSinceLaunch"]
        BY <1>3, <1>n, <2>2, <3>2
      <4> QED BY <2>2, <2>3, <4>1, <4>2, <4>3
    <3> QED BY <3>1, <3>2
  <2> QED BY <1>1, <2>4, <2>5 DEF Measured
<1>10. Since'
  <2>0. /\ truth["activeSinceCrash"] \in Nat /\ truth["backgroundSinceCrash"] \in Nat
        /\ replayed["activeSinceCrash"] \in Nat /\ replayed["backgroundSinceCrash"] \in Nat
        /\ truth'["activeSinceCrash"] \in Nat /\ truth'["backgroundSinceCrash"] \in Nat
        /\ g.activeSinceCrash \in Nat /\ g.backgroundSinceCrash \in Nat
        /\ truth["activeSinceCrash"] <= truth'["activeSinceCrash"]
        /\ truth["backgroundSinceCrash"] <= truth'["backgroundSinceCrash"]
    BY <1>0, <1>3 DEF Quantities, GState
  <2>1. phase \in {"enabled"} \cup Running =>
          /\ g.activeSinceCrash + Active(g)' <= truth'["activeSinceCrash"] + replayed["activeSinceCrash"]
          /\ g.backgroundSinceCrash + Background(g)'
               <= truth'["backgroundSinceCrash"] + replayed["backgroundSinceCrash"]
    <3> SUFFICES ASSUME phase \in {"enabled"} \cup Running
                 PROVE  /\ g.activeSinceCrash + Active(g)'
                             <= truth'["activeSinceCrash"] + replayed["activeSinceCrash"]
                        /\ g.backgroundSinceCrash + Background(g)'
                             <= truth'["backgroundSinceCrash"] + replayed["backgroundSinceCrash"]
      OBVIOUS
    <3>1. /\ g.activeSinceCrash + Active(g) <= truth["activeSinceCrash"] + replayed["activeSinceCrash"]
          /\ g.backgroundSinceCrash + Background(g)
               <= truth["backgroundSinceCrash"] + replayed["backgroundSinceCrash"]
      BY DEF Since
    <3> QED BY SMTT(30), <1>3, <1>4, <1>n, <2>0, <3>1
  <2>2. ~Noted => /\ Entry(file, 2) <= truth'["activeSinceCrash"] + replayed["activeSinceCrash"]
                  /\ Entry(file, 3) <= truth'["backgroundSinceCrash"] + replayed["backgroundSinceCrash"]
    <3>1. Entry(file, 2) \in Nat /\ Entry(file, 3) \in Nat
      <4>1. 2 \in 2 .. 5 /\ 3 \in 2 .. 5
        OBVIOUS
      <4>2. FileShape(file)
        BY DEF Shape
      <4> QED BY <4>1, <4>2, EntryNumber
    <3>2. ~Noted => /\ Entry(file, 2) <= truth["activeSinceCrash"] + replayed["activeSinceCrash"]
                    /\ Entry(file, 3) <= truth["backgroundSinceCrash"] + replayed["backgroundSinceCrash"]
      BY DEF Since
    <3> QED BY SMTT(30), <2>0, <3>1, <3>2
  <2>3. phase = "initialized" /\ ~Noted =>
          /\ g.activeSinceCrash <= truth'["activeSinceCrash"] + replayed["activeSinceCrash"]
          /\ g.backgroundSinceCrash <= truth'["backgroundSinceCrash"] + replayed["backgroundSinceCrash"]
    BY SMTT(30), <2>0 DEF Since
  <2> QED BY <1>1, <1>2, <2>1, <2>2, <2>3 DEF Since
<1>11. Whole'
  BY <1>1, <1>2 DEF Whole, Enabled
<1> QED BY <1>5, <1>6, <1>7, <1>8, <1>9, <1>10, <1>11

LEMMA StutterKeeps == ASSUME AppStateInv, UNCHANGED stateVars PROVE AppStateInv'
<1> USE DEF AppStateInv
<1>0. /\ now \in Nat /\ launched \in Nat /\ g \in GState /\ g.transition <= now
      /\ g.transition \in Nat
      /\ Len(file) \in Nat /\ saving \in 0 .. 5
      /\ truth["activeSinceCrash"] \in Nat /\ replayed["activeSinceCrash"] \in Nat
      /\ truth["backgroundSinceCrash"] \in Nat /\ replayed["backgroundSinceCrash"] \in Nat
  BY LenProperties DEF Shape, FileShape, Quantities, GState
<1>1. UNCHANGED <<now, phase, g, saving, file, last, app, truth, replayed, launched, ended, torn>>
  BY DEF stateVars, history
<1>2. Noted' <=> Noted
  BY <1>1 DEF Noted, Endings, None
<1>3. Shape'
  <2>1. FileShape(file)'
    BY <1>1 DEF Shape
  <2>2. now' \in Nat /\ g' \in GState /\ g'.transition <= now'
    BY <1>0, <1>1, <1>2
  <2>3. phase' \in Phases
    BY <1>0, <1>1, <1>2 DEF Shape, Phases, Enabled
  <2>5. saving' \in 0 .. 5
    BY <1>0, <1>1, <1>2
  <2>4. /\ last' \in Notifications \cup {None} /\ truth' \in [Quantities -> Nat]
        /\ replayed' \in [Quantities -> Nat] /\ launched' \in Nat
        /\ app' \in {"launching", "active", "inactive", "background"}
        /\ ended' \in Endings /\ torn' \in BOOLEAN
    BY <1>1 DEF Shape, Endings, None
  <2> QED BY <2>1, <2>2, <2>3, <2>4, <2>5 DEF Shape
<1>4. Marked'
  BY <1>1, <1>2 DEF Marked
<1>5. Remembered'
  BY <1>1 DEF Remembered
<1>6. Follows'
  BY <1>1 DEF Follows, Running
<1>7. Measured'
  BY <1>1 DEF Measured, Active, Background, Running
<1>8. Since'
  BY <1>1, <1>2 DEF Since, Active, Background, Running
<1>9. Whole'
  BY <1>1, <1>2 DEF Whole
<1> QED BY <1>3, <1>4, <1>5, <1>6, <1>7, <1>8, <1>9

LEMMA AppStateStep == ASSUME AppStateInv, [StateNext]_stateVars PROVE AppStateInv'
  BY NotifyObjCLoadKeeps, InitializeKeeps, SetEnabledKeeps, InstalledKeeps, AppNotificationKeeps, SaveFieldKeeps,
     EventKeeps, HangKeeps, HangSaveKeeps, HangEndsKeeps, CrashKeeps, CrashSaveKeeps, DisableKeeps, EndKeeps, TickKeeps, StutterKeeps
     DEF StateNext, Done

-----------------------------------------------------------------------------
(***************************************************************************)
(* The sessions                                                            *)
(***************************************************************************)

SessionTypes ==
  met \in [launch : Nat, crash : Nat] /\ missed \in [launch : Nat, crash : Nat, killed : Nat] /\ unsaved \in Nat

\* The sessions of this launch: before the installation the last notification is
\* kept, and counted at its end.
ThisLaunch ==
  /\ phase \in {"loaded", "initialized"} => met.launch = missed.launch + Resumption(last)
  /\ phase = "enabled" => g.sessionsSinceLaunch + missed.launch + Resumption(last) = met.launch
  /\ phase \in Running => g.sessionsSinceLaunch + missed.launch = met.launch

\* No more sessions are counted since the last crash than there were: in the
\* state, and in the file of a launch that did not crash.
NoSessionAdded ==
  /\ phase = "enabled" => g.sessions + Resumption(last) <= met.crash
  /\ phase \in Running => g.sessions <= met.crash
  /\ phase = "initialized" => IF Noted THEN g.crashedLast \/ g.sessions = 0 ELSE g.sessions <= met.crash
  /\ ~Noted => Entry(file, 5) <= met.crash

\* As long as no save was cut short, the sessions that are not in the file are
\* those that were missed and those since the last save.
SessionsKept ==
  /\ phase \in {"down", "loaded", "initialized"} => unsaved = 0
  /\ ~torn =>
       /\ phase \in {"down", "loaded", "initialized"} /\ ~Noted =>
            Entry(file, 5) + missed.crash + missed.killed = met.crash
       /\ phase = "initialized" /\ ~Noted => g.sessions + missed.crash + missed.killed = met.crash
       /\ phase = "enabled" => g.sessions + missed.crash + missed.killed + Resumption(last) = met.crash
       /\ phase \in Running => g.sessions + missed.crash + missed.killed = met.crash
       /\ phase \in {"enabled", "installed", "hung"} =>
            IF saving = 0 THEN Entry(file, 5) + unsaved = g.sessions ELSE unsaved = 0

SessionsInv == SessionTypes /\ ThisLaunch /\ NoSessionAdded /\ SessionsKept

\* What is counted are numbers.
LEMMA SessionNumbers ==
  ASSUME AppStateInv, SessionTypes
  PROVE  /\ met.launch \in Nat /\ met.crash \in Nat /\ unsaved \in Nat
         /\ missed.launch \in Nat /\ missed.crash \in Nat /\ missed.killed \in Nat
         /\ g.sessions \in Nat /\ g.sessionsSinceLaunch \in Nat /\ Entry(file, 5) \in Nat
         /\ Resumption(last) \in {0, 1} /\ g \in GState /\ now \in Nat /\ g.transition <= now
<1>1. FileShape(file) /\ g \in GState /\ now \in Nat /\ g.transition <= now
  BY DEF AppStateInv, Shape
<1>2. Entry(file, 5) \in Nat
  <2>1. 5 \in 2 .. 5
    OBVIOUS
  <2> QED BY <1>1, <2>1, EntryNumber
<1> QED BY <1>1, <1>2 DEF SessionTypes, GState, Resumption

LEMMA SessionsInit == ASSUME StateInit PROVE SessionsInv
<1>1. /\ phase = "down" /\ file = <<>> /\ ended = None /\ ~Noted
      /\ met = [launch |-> 0, crash |-> 0] /\ missed = [launch |-> 0, crash |-> 0, killed |-> 0]
      /\ unsaved = 0
  BY DEF StateInit, Noted, Endings, None
<1>2. Entry(file, 5) = 0
  <2>1. 5 \in 2 .. 5
    OBVIOUS
  <2> QED BY <1>1, <2>1, EmptyFile
<1> QED BY <1>1, <1>2 DEF SessionsInv, SessionTypes, ThisLaunch, NoSessionAdded, SessionsKept, Running

LEMMA NotifyObjCLoadCounts == ASSUME AppStateInv, SessionsInv, NotifyObjCLoad PROVE SessionsInv'
<1> USE SessionNumbers DEF SessionsInv
<1>1. /\ phase = "down" /\ phase' = "loaded" /\ last' = None
      /\ met' = [met EXCEPT !.launch = 0] /\ missed' = [missed EXCEPT !.launch = 0]
      /\ UNCHANGED <<file, unsaved, ended, torn>>
  BY DEF NotifyObjCLoad
<1>2. /\ met'.launch = 0 /\ missed'.launch = 0 /\ met'.crash = met.crash
      /\ missed'.crash = missed.crash /\ missed'.killed = missed.killed /\ SessionTypes'
  BY <1>1 DEF SessionTypes
<1>3. (Noted' <=> Noted) /\ Resumption(last)' = 0 /\ Entry(file, 5)' = Entry(file, 5)
  BY <1>1 DEF Noted, Resumption, None, Endings
<1> QED BY <1>1, <1>2, <1>3 DEF ThisLaunch, NoSessionAdded, SessionsKept, Running

LEMMA InitializeCounts == ASSUME AppStateInv, SessionsInv, InitializeState PROVE SessionsInv'
<1> USE SessionNumbers DEF SessionsInv
<1>1. phase = "loaded" /\ phase' = "initialized" /\ UNCHANGED <<file, last, met, missed, unsaved, ended, torn>>
  BY DEF InitializeState, history, spans
<1>2. g' = Loaded(Cleared, file) /\ FileShape(file)
  BY DEF InitializeState, AppStateInv, Shape
<1>3. (g'.crashedLast <=> Mark(file)) /\ g'.sessions = Entry(file, 5)
  BY <1>2, LoadedFields
<1>4. (Noted' <=> Noted) /\ Entry(file, 5)' = Entry(file, 5) /\ Resumption(last)' = Resumption(last)
  BY <1>1 DEF Noted, Endings, None, Resumption
<1>5. Noted /\ ~Mark(file) => Entry(file, 5) = 0
  <2>1. Noted /\ ~Mark(file) => ~(Len(file) >= 1) /\ Len(file) \in Nat
    BY <1>2, LenProperties DEF AppStateInv, Marked, FileShape
  <2> QED BY <2>1 DEF Entry
<1> QED BY <1>1, <1>3, <1>4, <1>5 DEF SessionTypes, ThisLaunch, NoSessionAdded, SessionsKept, Running

LEMMA SetEnabledCounts == ASSUME AppStateInv, SessionsInv, SetEnabled PROVE SessionsInv'
<1> USE SessionNumbers DEF SessionsInv
<1>1. /\ phase = "initialized" /\ phase' = "enabled" /\ saving' = 1 /\ file' = <<>>
      /\ UNCHANGED <<last, torn>> /\ ended' = "kill" /\ g' = Reset(g) /\ unsaved' = 0
      /\ met' = [launch |-> met.launch + 1, crash |-> (IF Noted THEN 0 ELSE met.crash) + met.launch + 1]
      /\ missed' = [missed EXCEPT !.crash = (IF Noted THEN 0 ELSE @) + missed.launch, !.killed = IF Noted THEN 0 ELSE @]
  BY DEF SetEnabled
<1>2. /\ g'.sessionsSinceLaunch = 1
      /\ g.crashedLast => g'.sessions = 1
      /\ ~g.crashedLast => g'.sessions = g.sessions + 1
  BY <1>1, ResetState
<1>3. /\ met'.launch = met.launch + 1 /\ missed'.launch = missed.launch
      /\ met'.crash = (IF Noted THEN 0 ELSE met.crash) + met.launch + 1
      /\ missed'.crash = (IF Noted THEN 0 ELSE missed.crash) + missed.launch
      /\ missed'.killed = (IF Noted THEN 0 ELSE missed.killed)
  BY <1>1 DEF SessionTypes
<1>4. SessionTypes'
  <2> DEFINE c == (IF Noted THEN 0 ELSE met.crash) + met.launch + 1
             d == (IF Noted THEN 0 ELSE missed.crash) + missed.launch
             k == IF Noted THEN 0 ELSE missed.killed
  <2>1. c \in Nat /\ d \in Nat /\ k \in Nat /\ met.launch + 1 \in Nat
    OBVIOUS
  <2>2. met' = [launch |-> met.launch + 1, crash |-> c] /\ missed' = [missed EXCEPT !.crash = d, !.killed = k]
    BY <1>1 DEF SessionTypes
  <2> HIDE DEF c, d, k
  <2>3. met' \in [launch : Nat, crash : Nat]
    BY <2>1, <2>2
  <2>4. missed' \in [launch : Nat, crash : Nat, killed : Nat]
    BY <2>1, <2>2 DEF SessionTypes
  <2> QED BY <1>1, <2>3, <2>4 DEF SessionTypes
<1>5. ~Noted' /\ Resumption(last)' = Resumption(last) /\ Entry(file, 5)' = 0
  <2>1. 5 \in 2 .. 5
    OBVIOUS
  <2> QED BY <1>1, <2>1, EmptyFile DEF Noted, Endings, None, Resumption
<1>6. /\ g.crashedLast => Noted
      /\ ~torn => (Noted => g.crashedLast)
      /\ met.launch = missed.launch + Resumption(last)
  BY <1>1 DEF AppStateInv, Marked, Whole, ThisLaunch
<1>7. ThisLaunch'
  BY <1>1, <1>2, <1>3, <1>5, <1>6 DEF ThisLaunch, Running
<1>8. g'.sessions + Resumption(last) <= met'.crash
  <2>1. CASE Noted
    BY <1>2, <1>3, <1>6, <2>1, <1>1 DEF NoSessionAdded
  <2>2. CASE ~Noted
    <3>1. ~g.crashedLast /\ g.sessions <= met.crash
      BY <1>1, <1>6, <2>2 DEF NoSessionAdded
    <3>2. g'.sessions = g.sessions + 1 /\ met'.crash = met.crash + met.launch + 1
      BY <1>2, <1>3, <2>2, <3>1
    <3> QED BY <1>6, <3>1, <3>2
  <2> QED BY <2>1, <2>2
<1>9. ~torn => g'.sessions + missed'.crash + missed'.killed + Resumption(last) = met'.crash
  <2> SUFFICES ASSUME ~torn PROVE g'.sessions + missed'.crash + missed'.killed + Resumption(last) = met'.crash
    OBVIOUS
  <2>1. CASE Noted
    <3>1. g'.sessions = 1 /\ missed'.crash = missed.launch /\ missed'.killed = 0 /\ met'.crash = met.launch + 1
      BY <1>2, <1>3, <1>6, <2>1
    <3> QED BY <1>6, <3>1
  <2>2. CASE ~Noted
    <3>1. ~g.crashedLast /\ g.sessions + missed.crash + missed.killed = met.crash
      BY <1>1, <1>6, <2>2 DEF SessionsKept
    <3>2. /\ g'.sessions = g.sessions + 1 /\ met'.crash = met.crash + met.launch + 1
          /\ missed'.crash = missed.crash + missed.launch /\ missed'.killed = missed.killed
      BY <1>2, <1>3, <2>2, <3>1
    <3> QED BY <1>6, <3>1, <3>2
  <2> QED BY <2>1, <2>2
<1>10. NoSessionAdded'
  <2>1. met'.crash \in Nat
    BY <1>3
  <2> QED BY <1>1, <1>5, <1>8, <2>1 DEF NoSessionAdded, Running
<1>11. SessionsKept'
  BY <1>1, <1>5, <1>9 DEF SessionsKept, Running
<1> QED BY <1>4, <1>7, <1>10, <1>11

LEMMA InstalledCounts == ASSUME AppStateInv, SessionsInv, Installed PROVE SessionsInv'
<1> USE SessionNumbers DEF SessionsInv
<1>1. /\ phase = "enabled" /\ phase' = "installed" /\ saving = 0 /\ NotifyApp(last)
      /\ last \in Notifications \cup {None} /\ UNCHANGED <<last, met, missed, ended, torn>>
  BY DEF Installed, AppStateInv, Shape
<1>2. g'.sessions = g.sessions + Resumption(last) /\ g'.sessionsSinceLaunch = g.sessionsSinceLaunch + Resumption(last)
  BY <1>1, NotifiedState DEF NotifyApp
<1>3. \/ Entry(file, 5)' = 0 /\ unsaved' = 0 /\ saving' = 1
      \/ Entry(file, 5)' = Entry(file, 5) /\ unsaved' = unsaved + Resumption(last) /\ saving' = saving
  <2>1. 5 \in 2 .. 5
    OBVIOUS
  <2> QED BY <1>1, <2>1, EmptyFile DEF NotifyApp
<1>4. (Noted' <=> Noted) /\ SessionTypes'
  BY <1>1, <1>3 DEF Noted, Endings, None, SessionTypes
<1>5. ThisLaunch'
  BY <1>1, <1>2 DEF ThisLaunch, Running
<1>6. NoSessionAdded'
  BY <1>1, <1>2, <1>3, <1>4 DEF NoSessionAdded, Running
<1>7. SessionsKept'
  BY <1>1, <1>2, <1>3, <1>4 DEF SessionsKept, Running
<1> QED BY <1>4, <1>5, <1>6, <1>7

LEMMA AppNotificationCounts ==
  ASSUME AppStateInv, SessionsInv, NEW n \in Notifications, AppNotification(n) PROVE SessionsInv'
<1> USE SessionNumbers DEF SessionsInv
<1>1. phase' = phase /\ phase \in {"loaded", "installed", "resumed"} /\ saving = 0 /\ last' = n /\ UNCHANGED <<ended, torn>>
  BY DEF AppNotification, MainIsFree
<1>2. (Noted' <=> Noted) /\ Resumption(n) \in {0, 1} /\ Resumption(last)' = Resumption(n)
  BY <1>1 DEF Noted, Endings, None, Resumption
<1>3. CASE phase = "loaded"
  <2>1. /\ missed' = [missed EXCEPT !.launch = @ + Resumption(last)]
        /\ met' = [met EXCEPT !.launch = @ + Resumption(n)]
        /\ UNCHANGED <<g, saving, file, unsaved>>
    BY <1>3 DEF AppNotification
  <2>2. /\ missed'.launch = missed.launch + Resumption(last) /\ missed'.crash = missed.crash
        /\ missed'.killed = missed.killed
        /\ met'.launch = met.launch + Resumption(n) /\ met'.crash = met.crash
        /\ Entry(file, 5)' = Entry(file, 5)
    BY <2>1 DEF SessionTypes
  <2>3. SessionTypes'
    BY <1>2, <2>1 DEF SessionTypes
  <2> QED BY <1>1, <1>2, <1>3, <2>1, <2>2, <2>3 DEF ThisLaunch, NoSessionAdded, SessionsKept, Running
<1>4. CASE phase \in {"installed", "resumed"}
  <2>1. /\ NotifyApp(n) /\ missed' = missed
        /\ met' = [met EXCEPT !.launch = @ + Resumption(n), !.crash = @ + Resumption(n)]
    BY <1>4 DEF AppNotification
  <2>2. met'.launch = met.launch + Resumption(n) /\ met'.crash = met.crash + Resumption(n)
    BY <2>1 DEF SessionTypes
  <2>3. g'.sessions = g.sessions + Resumption(n) /\ g'.sessionsSinceLaunch = g.sessionsSinceLaunch + Resumption(n)
    BY <2>1, NotifiedState DEF NotifyApp
  <2>4. \/ Entry(file, 5)' = 0 /\ unsaved' = 0 /\ saving' = 1
        \/ Entry(file, 5)' = Entry(file, 5) /\ unsaved' = unsaved + Resumption(n) /\ saving' = saving
    <3>1. 5 \in 2 .. 5
      OBVIOUS
    <3> QED BY <2>1, <3>1, EmptyFile DEF NotifyApp
  <2>5. SessionTypes'
    <3>1. met.launch + Resumption(n) \in Nat /\ met.crash + Resumption(n) \in Nat /\ unsaved' \in Nat
      BY <1>2, <2>4
    <3> QED BY <2>1, <3>1 DEF SessionTypes
  <2>6. ThisLaunch'
    BY <1>1, <1>2, <1>4, <2>1, <2>2, <2>3 DEF ThisLaunch, Running
  <2>7. NoSessionAdded'
    BY <1>1, <1>2, <1>4, <2>1, <2>2, <2>3, <2>4 DEF NoSessionAdded, Running
  <2>8. SessionsKept'
    BY <1>1, <1>2, <1>4, <2>1, <2>2, <2>3, <2>4 DEF SessionsKept, Running
  <2> QED BY <2>5, <2>6, <2>7, <2>8
<1> QED BY <1>1, <1>3, <1>4

LEMMA SaveFieldCounts == ASSUME AppStateInv, SessionsInv, SaveField PROVE SessionsInv'
<1> USE SessionNumbers DEF SessionsInv
<1>1. /\ phase' = phase /\ phase \in {"enabled", "installed", "resumed", "disabled"}
      /\ saving \in 1 .. 5
      /\ file' \in Written(file, saving, Fields(g)[saving]) /\ FileShape(file) /\ Len(file) \in Nat
      /\ saving' = (IF saving = 5 THEN 0 ELSE saving + 1)
      /\ UNCHANGED <<g, last, met, missed, unsaved, ended, torn>>
  <2>1. /\ phase' = phase /\ phase \in {"enabled", "installed", "resumed", "disabled"} /\ saving # 0
        /\ file' \in Written(file, saving, Fields(g)[saving]) /\ saving' = (saving + 1) % 6
        /\ UNCHANGED <<g, last, met, missed, unsaved, ended, torn>>
    BY DEF SaveField, history, spans
  <2>2. saving \in 0 .. 5 /\ FileShape(file)
    BY DEF AppStateInv, Shape
  <2>3. Len(file) \in Nat
    BY <2>2, LenProperties DEF FileShape
  <2>4. saving \in 1 .. 5 /\ saving' = (IF saving = 5 THEN 0 ELSE saving + 1)
    BY ONLY <2>1, <2>2
  <2> QED BY <2>1, <2>2, <2>3, <2>4
<1>2. /\ Entry(file', 5) \in {0, g.sessions, Entry(file, 5)}
      /\ saving = Len(file) + 1 /\ saving = 5 => Entry(file', 5) = g.sessions
  <2> DEFINE k == saving
             r == file'
  <2>1. FileShape(file) /\ k \in 1 .. 5 /\ r \in Written(file, k, Fields(g)[k])
    BY <1>1
  <2> HIDE DEF k, r
  <2>2. /\ \A j \in 2 .. 5 : Entry(r, j) \in {0, Entry(Fields(g), j), Entry(file, j)}
        /\ k = Len(file) + 1 => (k = 5 => Entry(r, 4) = Entry(file, 4) /\ Entry(r, 5) = g.sessions)
    BY <2>1, WrittenEntries
  <2>3. Entry(Fields(g), 5) = g.sessions
    BY WholeFile
  <2> QED BY <2>2, <2>3 DEF k, r
<1>3. (Noted' <=> Noted) /\ Resumption(last)' = Resumption(last) /\ SessionTypes'
  BY <1>1 DEF Noted, Endings, None, SessionTypes
<1>4. ThisLaunch'
  BY <1>1 DEF ThisLaunch, Running, Resumption
<1>5. NoSessionAdded'
  <2>1. ~Noted => phase \in {"enabled", "installed"}
    BY <1>1 DEF AppStateInv, Remembered, Noted, Endings, None
  <2>2. ~Noted => g.sessions <= met.crash /\ Entry(file, 5) <= met.crash
    BY <2>1 DEF NoSessionAdded, Running
  <2>3. ~Noted => Entry(file', 5) <= met.crash
    BY <1>2, <2>2
  <2> QED BY <1>1, <1>3, <2>3 DEF NoSessionAdded, Running
<1>6. SessionsKept'
  <2> SUFFICES ASSUME ~torn, phase \in {"enabled", "installed"}
               PROVE  IF saving' = 0 THEN Entry(file', 5) + unsaved = g.sessions ELSE unsaved = 0
    BY <1>1, <1>3 DEF SessionsKept, Running, Resumption
  <2>1. unsaved = 0
    BY <1>1 DEF SessionsKept
  <2>2. saving = Len(file) + 1
    BY <1>1 DEF AppStateInv, Whole, Enabled
  <2> QED BY <1>1, <1>2, <2>1, <2>2
<1> QED BY <1>3, <1>4, <1>5, <1>6

\* What changes no session, nor the file
LEMMA EventCounts == ASSUME AppStateInv, SessionsInv, Event \/ HangEnds \/ DisableState \/ ClockTick \/ UNCHANGED stateVars PROVE SessionsInv'
<1> USE SessionNumbers DEF SessionsInv
<1>1. /\ UNCHANGED <<saving, file, last, met, missed, unsaved, torn>>
      /\ \/ phase' = phase /\ ended' = ended
         \/ phase = "hung" /\ phase' = "installed" /\ ended' = "recovered"
         \/ phase = "resumed" /\ phase' = "disabled" /\ ended' = ended
  BY DEF Event, HangEnds, DisableState, ClockTick, stateVars, history, spans
<1>2. g'.sessions = g.sessions /\ g'.sessionsSinceLaunch = g.sessionsSinceLaunch /\ g'.crashedLast = g.crashedLast
  <2>1. CASE Event
    BY <2>1, Updated DEF Event
  <2>2. CASE HangEnds \/ DisableState \/ ClockTick \/ UNCHANGED stateVars
    BY <2>2 DEF HangEnds, DisableState, ClockTick, stateVars
  <2> QED BY <2>1, <2>2
<1>3. (Noted' <=> Noted) /\ Resumption(last)' = Resumption(last) /\ Entry(file, 5)' = Entry(file, 5) /\ SessionTypes'
  BY <1>1 DEF Noted, Endings, None, SessionTypes, AppStateInv, Remembered
<1>4. ThisLaunch'
  BY <1>1, <1>2, <1>3 DEF ThisLaunch, Running
<1>5. NoSessionAdded'
  BY <1>1, <1>2, <1>3 DEF NoSessionAdded, Running
<1>6. SessionsKept'
  BY <1>1, <1>2, <1>3 DEF SessionsKept, Running
<1> QED BY <1>3, <1>4, <1>5, <1>6

\* A crash or a hang is noted, and saved.
LEMMA CrashCounts == ASSUME AppStateInv, SessionsInv, Hang \/ HangSave \/ Crash \/ CrashSave PROVE SessionsInv'
<1> USE SessionNumbers DEF SessionsInv
<1>1. /\ UNCHANGED <<last, met, missed>> /\ (torn' \/ torn' = torn)
      /\ \/ phase = "installed" /\ phase' = "hanging" /\ unsaved' = unsaved
         \/ phase = "hanging" /\ phase' = "hung" /\ unsaved' = 0 /\ file' = Fields(g)
         \/ phase' \in {"crashing", "resumed"} /\ unsaved' \in {0, unsaved}
  <2>1. CASE Hang
    BY <2>1 DEF Hang, spans, AppStateInv, Shape
  <2>2. CASE HangSave
    BY <2>2 DEF HangSave
  <2>3. CASE Crash
    BY <2>3 DEF Crash, spans, AppStateInv, Shape
  <2>4. CASE CrashSave
    BY <2>4 DEF CrashSave
  <2> QED BY <2>1, <2>2, <2>3, <2>4
<1>2. g'.sessions = g.sessions /\ g'.sessionsSinceLaunch = g.sessionsSinceLaunch
  <2>1. CASE Hang \/ Crash
    BY <2>1, CrashNoted DEF Hang, Crash
  <2>2. CASE HangSave \/ CrashSave
    BY <2>2 DEF HangSave, CrashSave
  <2> QED BY <2>1, <2>2
<1>3. Noted' /\ Resumption(last)' = Resumption(last) /\ SessionTypes'
  <2>1. ended' \in {"hang", "crash", "saved crash"}
    BY DEF Hang, HangSave, Crash, CrashSave, AppStateInv, Remembered
  <2>2. SessionTypes'
    BY <1>1 DEF SessionTypes
  <2> QED BY <1>1, <2>1, <2>2 DEF Noted, Endings, None, Resumption
<1>4. phase' = "hung" => Entry(file, 5)' = g.sessions
  <2>1. Entry(Fields(g), 5) = g.sessions
    BY WholeFile
  <2> QED BY <1>1, <2>1
<1>5. ThisLaunch'
  BY <1>1, <1>2, <1>3 DEF ThisLaunch, Running
<1>6. NoSessionAdded'
  BY <1>1, <1>2, <1>3 DEF NoSessionAdded, Running
<1>7. SessionsKept'
  BY <1>1, <1>2, <1>3, <1>4 DEF SessionsKept, Running
<1> QED BY <1>3, <1>5, <1>6, <1>7

LEMMA EndCounts == ASSUME AppStateInv, SessionsInv, End PROVE SessionsInv'
<1> USE SessionNumbers DEF SessionsInv
<1>1. /\ phase' = "down" /\ phase # "down" /\ phase \in Phases /\ unsaved' = 0
      /\ torn' = (torn \/ Saving \/ saving # 0)
      /\ ended' = (IF ended = "saved crash" /\ saving # 0 THEN "torn crash" ELSE ended)
      /\ missed' = [missed EXCEPT !.crash = @ + Kept, !.killed = @ + unsaved]
      /\ UNCHANGED <<met>> /\ (~Saving => file' = file)
  BY DEF End, AppStateInv, Shape
<1>2. /\ Kept \in Nat
      /\ missed'.crash = missed.crash + Kept /\ missed'.killed = missed.killed + unsaved
      /\ SessionTypes'
  <2>1. Kept \in Nat
    BY DEF Kept
  <2>2. missed.crash + Kept \in Nat /\ missed.killed + unsaved \in Nat
    BY <2>1
  <2> QED BY <1>1, <2>1, <2>2 DEF SessionTypes
<1>3. /\ Noted' <=> Noted
      /\ Saving => Noted
      /\ phase \in {"resumed", "disabled", "hung"} => Noted
  BY <1>1 DEF Noted, Endings, None, AppStateInv, Remembered, Saving
<1>4. NoSessionAdded'
  BY <1>1, <1>3 DEF NoSessionAdded, Running
<1>5. SessionsKept'
  <2> SUFFICES ASSUME ~torn', ~Noted PROVE Entry(file', 5) + missed'.crash + missed'.killed = met.crash
    BY <1>1, <1>3 DEF SessionsKept, Running
  <2>1. ~torn /\ saving = 0 /\ file' = file /\ phase \in {"loaded", "initialized", "enabled", "installed"}
    BY <1>1, <1>3 DEF Phases, Enabled, Saving
  <2>2. CASE phase \in {"loaded", "initialized"}
    BY <1>2, <2>1, <2>2 DEF SessionsKept, Kept
  <2>3. CASE phase \in {"enabled", "installed"}
    <3>1. Entry(file, 5) + unsaved = g.sessions
      BY <2>1, <2>3 DEF SessionsKept
    <3>2. g.sessions + missed.crash + missed.killed + Kept = met.crash
      BY <2>1, <2>3 DEF SessionsKept, Kept, Running
    <3> QED BY <1>2, <2>1, <3>1, <3>2
  <2> QED BY <2>1, <2>2, <2>3
<1>6. ThisLaunch'
  BY <1>1 DEF ThisLaunch, Running
<1> QED BY <1>2, <1>4, <1>5, <1>6

LEMMA SessionsStep == ASSUME AppStateInv, SessionsInv, [StateNext]_stateVars PROVE SessionsInv'
  BY NotifyObjCLoadCounts, InitializeCounts, SetEnabledCounts, InstalledCounts, AppNotificationCounts,
     SaveFieldCounts, EventCounts, CrashCounts, EndCounts DEF StateNext, Done

-----------------------------------------------------------------------------
(***************************************************************************)
(* The theorems                                                            *)
(***************************************************************************)

\* Whatever an application does, with any number of launches, sessions, events
\* and ticks: what is counted of each launch and, unless a save was cut short,
\* since the last crash is what there was, less the sessions and more the time
\* that the property names (updateAppState, the notifications,
\* kscrashstate_reset, saveState, loadState).
THEOREM CountsStayExact == StateSpec => []CountsExact
<1>1. StateInit => AppStateInv /\ SessionsInv
  BY AppStateInit, SessionsInit
<1>2. AppStateInv /\ SessionsInv /\ [StateNext]_stateVars => (AppStateInv /\ SessionsInv)'
  BY AppStateStep, SessionsStep
<1>3. AppStateInv /\ SessionsInv => CountsExact
  <2> SUFFICES ASSUME AppStateInv, SessionsInv PROVE CountsExact
    OBVIOUS
  <2>1. DurationsExact
    BY DEF AppStateInv, Measured, Active, Background, DurationsExact, Running
  <2>2. LaunchesExact
    BY DEF AppStateInv, Whole, Enabled, LaunchesExact
  <2>3. SessionsExact
    BY DEF SessionsInv, ThisLaunch, SessionsKept, SessionsExact, Running
  <2> QED BY <2>1, <2>2, <2>3 DEF CountsExact
<1> QED BY <1>1, <1>2, <1>3, PTL DEF StateSpec

\* In the same generality: a launch that ended without a fatal event and without
\* a hang is never taken for a crash, a crash that was saved is known to the next
\* launch, and nothing from before what was noted is counted as since it.
THEOREM CrashIsKnown == StateSpec => []CrashKnown
<1>1. StateInit => AppStateInv /\ SessionsInv
  BY AppStateInit, SessionsInit
<1>2. AppStateInv /\ SessionsInv /\ [StateNext]_stateVars => (AppStateInv /\ SessionsInv)'
  BY AppStateStep, SessionsStep
<1>3. AppStateInv /\ SessionsInv => CrashKnown
  <2> SUFFICES ASSUME AppStateInv, SessionsInv PROVE CrashKnown
    OBVIOUS
  <2>1. NoneInvented /\ CrashRemembered
    BY DEF AppStateInv, Marked, Remembered, NoneInvented, CrashRemembered
  <2>2. NothingFromBeforeCrash
    <3> SUFFICES ASSUME phase \in {"installed", "hung"}
                 PROVE  /\ g.activeSinceCrash <= truth["activeSinceCrash"] + replayed["activeSinceCrash"]
                        /\ g.backgroundSinceCrash <= truth["backgroundSinceCrash"] + replayed["backgroundSinceCrash"]
                        /\ g.launches <= launched /\ g.sessions <= met.crash
      BY DEF NothingFromBeforeCrash
    <3>1. /\ g.activeSinceCrash + Active(g) <= truth["activeSinceCrash"] + replayed["activeSinceCrash"]
          /\ g.backgroundSinceCrash + Background(g) <= truth["backgroundSinceCrash"] + replayed["backgroundSinceCrash"]
          /\ g.launches <= launched /\ g.sessions <= met.crash
      BY DEF AppStateInv, Since, SessionsInv, NoSessionAdded, Running
    <3>2. Active(g) \in Nat /\ Background(g) \in Nat /\ g.activeSinceCrash \in Nat /\ g.backgroundSinceCrash \in Nat
      BY Pending DEF AppStateInv, Shape, GState
    <3>3. /\ truth["activeSinceCrash"] \in Nat /\ replayed["activeSinceCrash"] \in Nat
          /\ truth["backgroundSinceCrash"] \in Nat /\ replayed["backgroundSinceCrash"] \in Nat
      BY DEF AppStateInv, Shape, Quantities
    <3> QED BY <3>1, <3>2, <3>3
  <2> QED BY <2>1, <2>2 DEF CrashKnown
<1> QED BY <1>1, <1>2, <1>3, PTL DEF StateSpec

-----------------------------------------------------------------------------
(***************************************************************************)
(* The contents of memory in a report.                                     *)
(* For any memory and any limit: whatever the objects found refer to, in   *)
(* circles too, a source adds a bounded number of elements to a report,    *)
(* and nothing that an object of a restricted class holds.                 *)
(***************************************************************************)

WrittenValues == {"none", "memory", "value", "ivars", "payload"}

\* The limit is lowered by as much as there are new calls, or more, and calls
\* come only from above it.
Spent ==
  /\ limit <= Limit
  /\ Len(written) + Len(calls) <= Limit + 1 - limit
  /\ Len(written) + Len(calls) < Limit + MaxIvars

\* A call is as deep as the limit has been lowered, or less.
Deep ==
  /\ \A i \in 1 .. Len(calls) : calls[i].level <= Limit + 1 - limit /\ calls[i].level <= Limit + 1
  /\ \A i \in 1 .. Len(written) : written[i].level <= Limit + 1

\* What is still to be written is of no object of a restricted class either.
Spared == \A i \in 1 .. Len(calls) : calls[i].of # Null => ~ IsRestricted(calls[i].of)

ContentsInv == ContentsTypeOK /\ Spent /\ Deep /\ Spared /\ RestrictedKept

\* What the assumption says of one address
LEMMA AtAddress ==
  ASSUME memory \in Memories, NEW a \in Addresses
  PROVE  /\ Addresses \subseteq Nat /\ Null \in Addresses /\ Scalar \notin Addresses
         /\ memory[a].type \in ObjectTypes /\ (memory[a].type = "object" => memory[a].classType \in ClassTypes)
         /\ {memory[a].tagged, memory[a].string, memory[a].zombie} \subseteq BOOLEAN
         /\ memory[a].refs \in Seq(Addresses \cup {Scalar})
         /\ memory[a].classType = "array" => memory[a].refs \in Seq(Addresses)
<1>1. Addresses \subseteq Nat /\ Null \in Addresses
  BY ContentsAssumption DEF Addresses
<1>2. Scalar \notin Addresses
  BY <1>1 DEF Scalar
<1>3. /\ memory[a].type \in ObjectTypes /\ (memory[a].type = "object" => memory[a].classType \in ClassTypes)
      /\ {memory[a].tagged, memory[a].string, memory[a].zombie} \subseteq BOOLEAN
      /\ memory[a].refs \in Seq(Addresses \cup {Scalar})
      /\ memory[a].classType = "array" => memory[a].refs \in Seq(Addresses)
  BY ContentsAssumption, Zenon DEF Addresses
<1> QED BY <1>1, <1>2, <1>3

\* An object's outcome: few calls, none without a limit, and none of an object
\* of a restricted class.
LEMMA OutcomeBounded ==
  ASSUME memory \in Memories, NEW a \in Addresses, NEW left \in Int
  PROVE  LET c == writeObjCObject(memory[a], left) IN
         /\ c.ok \in BOOLEAN /\ c.types \in Seq(Types) /\ c.value \in WrittenValues \ {"memory"}
         /\ c.cost \in Nat /\ c.refs \in Seq(Addresses \cup {Scalar})
         /\ Len(c.refs) <= c.cost + 1 /\ Len(c.refs) <= MaxIvars
         /\ c.refs # <<>> => left > 0 /\ (c.value = "ivars" => c.cost >= 1)
         /\ IsRestricted(a) => ~ c.ok /\ Len(c.types) = 1 /\ c.value = "none" /\ c.refs = <<>>
         /\ ~ IsRestricted(a) => Len(c.types) = IF c.ok THEN 1 ELSE 0
<1> DEFINE o == memory[a]
           c == writeObjCObject(o, left)
           Good(d) == /\ d.ok \in BOOLEAN /\ d.types \in Seq(Types) /\ d.value \in WrittenValues \ {"memory"}
                      /\ d.cost \in Nat /\ d.refs \in Seq(Addresses \cup {Scalar})
                      /\ Len(d.refs) <= d.cost + 1 /\ Len(d.refs) <= MaxIvars
                      /\ d.refs # <<>> => left > 0 /\ (d.value = "ivars" => d.cost >= 1)
           Fair(d) == /\ IsRestricted(a) => ~ d.ok /\ Len(d.types) = 1 /\ d.value = "none" /\ d.refs = <<>>
                      /\ ~ IsRestricted(a) => Len(d.types) = IF d.ok THEN 1 ELSE 0
<1>1. /\ o.type \in ObjectTypes /\ (o.type = "object" => o.classType \in ClassTypes)
      /\ o.refs \in Seq(Addresses \cup {Scalar}) /\ (o.classType = "array" => o.refs \in Seq(Addresses))
      /\ o.tagged \in BOOLEAN
  BY AtAddress
<1>2. /\ MaxIvars \in Nat /\ MaxIvars >= 1
      /\ <<>> \in Seq(Types) /\ (\A t \in Types : <<t>> \in Seq(Types) /\ Len(<<t>>) = 1)
      /\ <<>> \in Seq(Addresses \cup {Scalar}) /\ Len(<<>>) = 0
  BY ContentsAssumption
<1>3. {"class", "object", "block"} \subseteq Types
  BY DEF Types
<1>4. \A t \in Types, v \in {"none", "value"} :
        Good(Outcome(TRUE, <<t>>, v, <<>>, 0)) /\ (~ IsRestricted(a) => Fair(Outcome(TRUE, <<t>>, v, <<>>, 0)))
  BY <1>2 DEF Outcome, WrittenValues
<1>5. CASE o.type = "unknown"
  <2>1. c = Outcome(FALSE, <<>>, "none", <<>>, 0)
    BY <1>5 DEF writeObjCObject
  <2>2. ~ IsRestricted(a)
    BY <1>5 DEF IsRestricted
  <2> QED BY <1>2, <2>1, <2>2 DEF Outcome, WrittenValues
<1>6. CASE o.type \in {"class", "block"}
  <2>1. c = Outcome(TRUE, <<o.type>>, "none", <<>>, 0)
    BY <1>6 DEF writeObjCObject
  <2>2. ~ IsRestricted(a)
    BY <1>6 DEF IsRestricted
  <2> QED BY <1>3, <1>4, <1>6, <2>1, <2>2
<1>7. CASE o.type = "object" /\ isRestrictedClass(o.class)
  <2>1. c = Outcome(FALSE, <<"object">>, "none", <<>>, 0)
    BY <1>7 DEF writeObjCObject
  <2>2. IsRestricted(a)
    BY <1>7 DEF IsRestricted, isRestrictedClass, Class
  <2> QED BY <1>2, <1>3, <2>1, <2>2 DEF Outcome, WrittenValues
<1>8. CASE o.type = "object" /\ ~ isRestrictedClass(o.class)
  <2>0. ~ IsRestricted(a)
    BY <1>8 DEF IsRestricted, isRestrictedClass, Class
  <2>1. CASE o.classType = "array"
    <3>1. c = writeArrayContents(o, left)
      BY <1>8, <2>1 DEF writeObjCObject
    <3>2. CASE left > 0 /\ o.refs # <<>>
      <4>1. Head(o.refs) \in Addresses
        BY <1>1, <2>1, <3>2
      <4>2. <<Head(o.refs)>> \in Seq(Addresses \cup {Scalar}) /\ Len(<<Head(o.refs)>>) = 1
        BY <4>1
      <4>3. c = Outcome(TRUE, <<"object">>, "none", <<Head(o.refs)>>, 0)
        BY <3>1, <3>2 DEF writeArrayContents
      <4> QED BY <1>2, <1>3, <2>0, <3>2, <4>2, <4>3 DEF Outcome, WrittenValues
    <3>3. CASE ~ (left > 0 /\ o.refs # <<>>)
      <4>1. c = Outcome(TRUE, <<"object">>, "none", <<>>, 0)
        BY <3>1, <3>3 DEF writeArrayContents
      <4> QED BY <1>3, <1>4, <2>0, <4>1
    <3> QED BY <3>2, <3>3
  <2>2. CASE o.classType \in {"string", "url", "date", "number"}
    <3>1. c = Outcome(TRUE, <<"object">>, "value", <<>>, 0)
      BY <1>8, <2>2 DEF writeObjCObject
    <3> QED BY <1>3, <1>4, <2>0, <3>1
  <2>3. CASE o.classType \in {"dictionary", "exception", "unknown"}
    <3>1. c = writeUnknownObjectContents(o, left)
      BY <1>8, <2>3 DEF writeObjCObject
    <3>2. CASE left <= 0
      <4>1. c = Outcome(TRUE, <<"object">>, "none", <<>>, 0)
        BY <3>1, <3>2 DEF writeUnknownObjectContents
      <4> QED BY <1>3, <1>4, <2>0, <4>1
    <3>3. CASE left > 0 /\ o.tagged
      <4>0. ~ (left <= 0)
        BY <3>3
      <4>1. c = Outcome(TRUE, <<"object">>, "payload", <<>>, 1)
        BY <3>1, <3>3, <4>0, Zenon DEF writeUnknownObjectContents
      <4> QED BY <1>2, <1>3, <2>0, <4>1 DEF Outcome, WrittenValues
    <3>4. CASE left > 0 /\ ~ o.tagged
      <4> DEFINE n == IF Len(o.refs) < MaxIvars THEN Len(o.refs) ELSE MaxIvars
                 ivars == SubSeq(o.refs, 1, n)
      <4>1. n \in 0 .. Len(o.refs) /\ n <= MaxIvars
        BY <1>1, <1>2
      <4>2. ivars \in Seq(Addresses \cup {Scalar}) /\ Len(ivars) = n
        <5> HIDE DEF n
        <5> QED BY <1>1, <4>1
      <4>0. ~ (left <= 0)
        BY <3>4
      <4>3. c = Outcome(TRUE, <<"object">>, "ivars", ivars, 1 + Len(ivars))
        BY <3>1, <3>4, <4>0, Zenon DEF writeUnknownObjectContents
      <4> HIDE DEF ivars, n
      <4> QED BY <1>2, <1>3, <2>0, <3>4, <4>1, <4>2, <4>3 DEF Outcome, WrittenValues
    <3> QED BY <3>2, <3>3, <3>4
  <2> QED BY <1>1, <1>8, <2>1, <2>2, <2>3 DEF ClassTypes
<1> QED BY <1>1, <1>5, <1>6, <1>7, <1>8 DEF ObjectTypes

\* A call to come, an element, and sequences of them
Calls    == [address : Addresses \cup {Scalar}, level : Nat, of : Addresses]
Elements == [address : Addresses, level : Nat, of : Addresses, types : Seq(Types), value : WrittenValues]

LEMMA ContentsInvInit == ASSUME ContentsInit PROVE ContentsInv
<1> USE ContentsAssumption
<1>1. memory \in Memories /\ sources \in Sources
  BY DEF ContentsInit
<1>2. sources \in Seq({"reason", "register", "stack", "unreadable"} \X Addresses)
  BY <1>1, Zenon DEF Addresses
<1>3. calls = <<>> /\ limit = 0 /\ written = <<>>
  BY DEF ContentsInit
<1>4. calls \in Seq(Calls) /\ written \in Seq(Elements) /\ Len(calls) = 0 /\ Len(written) = 0
  BY <1>3
<1>5. ContentsTypeOK
  BY <1>1, <1>2, <1>3, <1>4 DEF ContentsTypeOK, Calls, Elements, WrittenValues
<1>6. Spent /\ Deep /\ Spared /\ RestrictedKept
  BY <1>3, <1>4 DEF Spent, Deep, Spared, RestrictedKept
<1> QED BY <1>5, <1>6 DEF ContentsInv

LEMMA SourceKeeps == ASSUME ContentsInv, NextSource PROVE ContentsInv'
<1> USE ContentsAssumption
<1>1. /\ memory \in Memories /\ memory' = memory /\ Addresses' = Addresses
      /\ sources \in Seq({"reason", "register", "stack", "unreadable"} \X Addresses) /\ sources # <<>>
      /\ sources' = Tail(sources) /\ limit' = Limit /\ written' = <<>>
  BY DEF ContentsInv, ContentsTypeOK, NextSource, Addresses
<1>2. Head(sources)[2] \in Addresses /\ sources' \in Seq({"reason", "register", "stack", "unreadable"} \X Addresses)
  BY <1>1
<1> DEFINE first == [address |-> Head(sources)[2], level |-> 1, of |-> Null]
<1>3. calls' = <<>> \/ calls' = <<first>>
  BY DEF NextSource
<1>4. first \in Calls /\ first.level = 1 /\ first.of = Null
  BY <1>1, <1>2, AtAddress DEF Calls
<1>5. /\ calls' \in Seq(Calls) /\ Len(calls') \in 0 .. 1
      /\ \A i \in 1 .. Len(calls') : calls'[i].level = 1 /\ calls'[i].of = Null
  <2> HIDE DEF first
  <2>1. CASE calls' = <<>>
    BY <2>1
  <2>2. CASE calls' = <<first>>
    BY <1>4, <2>2
  <2> QED BY <1>3, <2>1, <2>2
<1>6. written' \in Seq(Elements) /\ Len(written') = 0
  BY <1>1
<1>7. ContentsTypeOK'
  BY <1>1, <1>2, <1>5, <1>6 DEF ContentsTypeOK, Calls, Elements, WrittenValues
<1>8. Spent' /\ Deep'
  BY <1>1, <1>5, <1>6 DEF Spent, Deep
<1>9. Spared' /\ RestrictedKept'
  BY <1>5, <1>6 DEF Spared, RestrictedKept
<1> QED BY <1>7, <1>8, <1>9 DEF ContentsInv

\* The first call is taken away.
LEMMA RestOfCalls ==
  ASSUME ContentsInv, calls # <<>>
  PROVE  /\ calls \in Seq(Calls) /\ Head(calls) = calls[1] /\ calls[1] \in Calls /\ Len(calls) >= 1
         /\ Tail(calls) \in Seq(Calls) /\ Len(Tail(calls)) = Len(calls) - 1
         /\ \A i \in 1 .. Len(Tail(calls)) : i + 1 \in 1 .. Len(calls) /\ Tail(calls)[i] = calls[i + 1]
<1>1. calls \in Seq(Calls) /\ Len(calls) \in Nat
  BY DEF ContentsInv, ContentsTypeOK, Calls
<1>2. Len(calls) >= 1 /\ Head(calls) = calls[1] /\ calls[1] \in Calls
  BY <1>1
<1> QED BY <1>1, <1>2, HeadTailProperties

LEMMA ScalarKeeps == ASSUME ContentsInv, writeScalarIvar PROVE ContentsInv'
<1>1. /\ calls # <<>> /\ calls' = Tail(calls) /\ UNCHANGED <<memory, sources, limit, written>>
      /\ Addresses' = Addresses
  BY DEF writeScalarIvar, Addresses
<1>2. ContentsTypeOK'
  BY <1>1, RestOfCalls DEF ContentsInv, ContentsTypeOK, Calls
<1>3. Spent'
  BY <1>1, RestOfCalls, ContentsAssumption DEF ContentsInv, ContentsTypeOK, Spent
<1>4. Deep'
  BY <1>1, RestOfCalls DEF ContentsInv, ContentsTypeOK, Deep
<1>5. Spared' /\ RestrictedKept'
  BY <1>1, RestOfCalls DEF ContentsInv, Spared, RestrictedKept, IsRestricted, Class
<1> QED BY <1>2, <1>3, <1>4, <1>5 DEF ContentsInv

LEMMA MemoryKeeps == ASSUME ContentsInv, writeMemoryContents PROVE ContentsInv'
<1> DEFINE call == Head(calls)
           a    == call.address
           o    == memory[a]
           c    == writeObjCObject(o, limit - 1)
           new  == [i \in 1 .. Len(c.refs) |->
                      [address |-> c.refs[i], of |-> a, level |-> call.level + (IF c.value = "ivars" THEN 2 ELSE 1)]]
           kind == IF a = Null THEN "null_pointer" ELSE IF o.string THEN "string" ELSE "unknown"
           elem == [address |-> a, level |-> call.level, of |-> call.of,
                    types |-> IF c.ok THEN c.types ELSE c.types \o <<kind>>,
                    value |-> IF ~ c.ok /\ kind = "string" THEN "memory" ELSE c.value]
<1>1. /\ calls # <<>> /\ a # Scalar
      /\ limit' = limit - 1 - c.cost
      /\ calls' = new \o Tail(calls)
      /\ written' = Append(written, elem)
      /\ UNCHANGED <<memory, sources>> /\ Addresses' = Addresses
  BY DEF writeMemoryContents, Addresses
<1>2. /\ call = calls[1] /\ a \in Addresses /\ call.level \in Nat /\ call.of \in Addresses
      /\ memory \in Memories /\ limit \in Int /\ written \in Seq(Elements) /\ Limit \in Nat
      /\ MaxIvars \in Nat \ {0}
  BY <1>1, RestOfCalls, ContentsAssumption DEF ContentsInv, ContentsTypeOK, Calls, Elements, WrittenValues
<1>3. /\ c.ok \in BOOLEAN /\ c.types \in Seq(Types) /\ c.value \in WrittenValues \ {"memory"}
      /\ c.cost \in Nat /\ c.refs \in Seq(Addresses \cup {Scalar})
      /\ Len(c.refs) <= c.cost + 1 /\ Len(c.refs) <= MaxIvars
      /\ c.refs # <<>> => limit - 1 > 0 /\ (c.value = "ivars" => c.cost >= 1)
      /\ IsRestricted(a) => ~ c.ok /\ Len(c.types) = 1 /\ c.value = "none" /\ c.refs = <<>>
      /\ ~ IsRestricted(a) => Len(c.types) = IF c.ok THEN 1 ELSE 0
  <2>1. limit - 1 \in Int
    BY <1>2
  <2> QED BY <1>2, <2>1, OutcomeBounded
<1> HIDE DEF c
<1>4. /\ new \in Seq(Calls) /\ Len(new) = Len(c.refs)
      /\ \A i \in 1 .. Len(c.refs) :
           new[i].of = a /\ new[i].level = call.level + (IF c.value = "ivars" THEN 2 ELSE 1)
  BY <1>2, <1>3, SMTT(30) DEF Calls
<1>5. kind \in Types /\ (kind = "string" \/ kind # "string")
  BY DEF Types
<1> HIDE DEF kind
<1>6. /\ elem \in Elements /\ elem.address = a /\ elem.level = call.level /\ elem.of = call.of
      /\ IsRestricted(a) => Len(elem.types) = 2 /\ elem.value \in {"none", "memory"}
      /\ ~ IsRestricted(a) => Len(elem.types) = 1
  <2>1. c.types \o <<kind>> \in Seq(Types) /\ Len(c.types \o <<kind>>) = Len(c.types) + 1
    BY <1>3, <1>5
  <2>2. elem.types \in Seq(Types) /\ elem.value \in WrittenValues
    BY <1>3, <2>1 DEF WrittenValues
  <2>3. elem \in Elements
    BY <1>2, <2>2 DEF Elements
  <2>4. /\ elem.types = IF c.ok THEN c.types ELSE c.types \o <<kind>>
        /\ elem.value = IF ~ c.ok /\ kind = "string" THEN "memory" ELSE c.value
        /\ elem.address = a /\ elem.level = call.level /\ elem.of = call.of
    OBVIOUS
  <2> HIDE DEF elem
  <2>5. ASSUME IsRestricted(a) PROVE Len(elem.types) = 2 /\ elem.value \in {"none", "memory"}
    <3>1. ~ c.ok /\ Len(c.types) = 1 /\ c.value = "none"
      BY <1>3, <2>5
    <3>2. elem.types = c.types \o <<kind>> /\ elem.value \in {"none", "memory"}
      BY <2>4, <3>1
    <3> QED BY <2>1, <3>1, <3>2
  <2>6. ~ IsRestricted(a) => Len(elem.types) = 1
    BY <1>3, <2>1, <2>4
  <2> QED BY <2>3, <2>4, <2>5, <2>6
<1> HIDE DEF new, elem, call, a
<1>7. /\ Tail(calls) \in Seq(Calls) /\ Len(Tail(calls)) = Len(calls) - 1 /\ Len(calls) \in Nat
      /\ Len(calls) >= 1
      /\ \A i \in 1 .. Len(Tail(calls)) : i + 1 \in 1 .. Len(calls) /\ Tail(calls)[i] = calls[i + 1]
  BY <1>1, RestOfCalls
<1>8. /\ calls' \in Seq(Calls) /\ Len(calls') = Len(c.refs) + Len(calls) - 1
      /\ \A i \in 1 .. Len(calls') :
           IF i <= Len(c.refs) THEN i \in 1 .. Len(c.refs) /\ calls'[i] = new[i]
           ELSE i - Len(c.refs) + 1 \in 1 .. Len(calls) /\ calls'[i] = calls[i - Len(c.refs) + 1]
  <2> DEFINE rest == Tail(calls)
  <2>0. calls' = new \o rest /\ new \in Seq(Calls) /\ rest \in Seq(Calls)
    BY <1>1, <1>4, <1>7
  <2> HIDE DEF rest
  <2>1. calls' \in Seq(Calls) /\ Len(calls') = Len(new) + Len(rest)
    BY <2>0, ConcatProperties
  <2>2. \A i \in 1 .. Len(calls') : calls'[i] = IF i <= Len(new) THEN new[i] ELSE rest[i - Len(new)]
    BY <2>0, <2>1, ConcatProperties
  <2>3. Len(c.refs) \in Nat /\ Len(new) = Len(c.refs)
    BY <1>3, <1>4
  <2>4. /\ Len(rest) = Len(calls) - 1 /\ Len(calls) \in Nat /\ Len(calls) >= 1
        /\ \A i \in 1 .. Len(rest) : i + 1 \in 1 .. Len(calls) /\ rest[i] = calls[i + 1]
    BY <1>7 DEF rest
  <2>5. ASSUME NEW i \in 1 .. Len(calls')
        PROVE  IF i <= Len(c.refs) THEN i \in 1 .. Len(c.refs) /\ calls'[i] = new[i]
               ELSE i - Len(c.refs) + 1 \in 1 .. Len(calls) /\ calls'[i] = calls[i - Len(c.refs) + 1]
    <3>1. calls'[i] = IF i <= Len(new) THEN new[i] ELSE rest[i - Len(new)]
      BY <2>2
    <3>2. i > Len(new) => i - Len(new) \in 1 .. Len(rest)
      BY <2>1, <2>3, <2>4
    <3>3. CASE i <= Len(new)
      BY <2>3, <3>1, <3>3
    <3>4. CASE ~ (i <= Len(new))
      <4>1. i - Len(new) \in 1 .. Len(rest) /\ calls'[i] = rest[i - Len(new)] /\ i \in Nat
        BY <2>3, <3>1, <3>2, <3>4
      <4>2. calls'[i] = calls[i - Len(new) + 1] /\ i - Len(new) + 1 \in 1 .. Len(calls)
        BY <2>4, <4>1
      <4> QED BY <2>3, <3>4, <4>2
    <3> QED BY <3>3, <3>4
  <2> QED BY <2>1, <2>3, <2>4, <2>5
<1>9. /\ written' \in Seq(Elements) /\ Len(written) \in Nat /\ Len(written') = Len(written) + 1
      /\ \A i \in 1 .. Len(written') : written'[i] = IF i <= Len(written) THEN written[i] ELSE elem
  BY <1>1, <1>2, <1>6
<1>10. limit' \in Int /\ Len(c.refs) \in Nat
  BY <1>1, <1>2, <1>3
<1>11. ContentsTypeOK'
  BY <1>1, <1>2, <1>8, <1>9, <1>10 DEF ContentsInv, ContentsTypeOK, Calls, Elements, WrittenValues
<1> DEFINE n == Len(c.refs) k == Len(calls) w == Len(written) k1 == Len(calls') w1 == Len(written') cost == c.cost
<1>12. /\ n \in Nat /\ k \in Nat /\ k >= 1 /\ w \in Nat /\ cost \in Nat
      /\ k1 = n + k - 1 /\ w1 = w + 1 /\ limit' = limit - 1 - cost
  BY <1>1, <1>3, <1>7, <1>8, <1>9, <1>10
<1>13. Spent'
  <2>1. limit <= Limit /\ w + k <= Limit + 1 - limit /\ w + k < Limit + MaxIvars
    BY DEF ContentsInv, Spent
  <2>2. n <= cost + 1 /\ n <= MaxIvars /\ (n = 0 \/ limit >= 2)
    BY <1>2, <1>3
  <2> HIDE DEF n, k, w, k1, w1, cost
  <2>3. limit' <= Limit /\ w1 + k1 <= Limit + 1 - limit' /\ w1 + k1 < Limit + MaxIvars
    BY <1>2, <1>12, <2>1, <2>2
  <2> QED BY <2>3 DEF Spent, k1, w1
<1>14. Deep'
  <2>1. call.level <= Limit + 1 - limit /\ call.level <= Limit + 1
    BY <1>2, <1>7 DEF ContentsInv, Deep
  <2>2. \A i \in 1 .. Len(c.refs) : new[i].level <= Limit + 1 - limit' /\ new[i].level <= Limit + 1
    <3> SUFFICES ASSUME NEW i \in 1 .. Len(c.refs)
                 PROVE  new[i].level <= Limit + 1 - limit' /\ new[i].level <= Limit + 1
      OBVIOUS
    <3>1. c.refs # <<>>
      BY <1>3
    <3>2. limit - 1 > 0 /\ (c.value = "ivars" => c.cost >= 1)
      BY <1>3, <3>1
    <3> DEFINE l == new[i].level m == call.level ivars == c.value = "ivars"
    <3>3. m \in Nat /\ (ivars => l = m + 2) /\ (~ ivars => l = m + 1)
      BY <1>2, <1>4
    <3>4. cost \in Nat /\ (ivars => cost >= 1) /\ limit >= 2
      BY <1>2, <1>12, <3>2
    <3>5. l <= m + 1 + cost /\ l \in Nat
      <4> HIDE DEF l, m, cost, ivars
      <4> QED BY <3>3, <3>4
    <3>6. m <= Limit + 1 - limit /\ cost \in Nat /\ limit' = limit - 1 - cost
      BY <1>12, <2>1
    <3> HIDE DEF l, m, cost, ivars
    <3>7. l <= Limit + 1 - limit' /\ l <= Limit + 1
      BY <1>2, <3>3, <3>4, <3>5, <3>6
    <3> QED BY <3>7 DEF l
  <2>3. \A i \in 1 .. Len(calls) :
          calls[i].level \in Nat /\ calls[i].level <= Limit + 1 - limit' /\ calls[i].level <= Limit + 1
    <3>1. \A i \in 1 .. Len(calls) : calls[i].level \in Nat
      <4>1. calls \in Seq(Calls)
        BY <1>1, RestOfCalls
      <4>2. ASSUME NEW i \in 1 .. Len(calls) PROVE calls[i] \in Calls
        BY <4>1, ElementOfSeq
      <4> QED BY <4>2 DEF Calls
    <3>2. limit' \in Int /\ limit' <= limit
      <4> HIDE DEF cost
      <4> QED BY <1>2, <1>12
    <3> QED BY <1>2, <3>1, <3>2 DEF ContentsInv, Deep
  <2>4. \A i \in 1 .. Len(calls') : calls'[i].level <= Limit + 1 - limit' /\ calls'[i].level <= Limit + 1
    BY <1>8, <2>2, <2>3
  <2>5. \A i \in 1 .. Len(written') : written'[i].level <= Limit + 1
    BY <1>6, <1>9, <2>1 DEF ContentsInv, Deep
  <2> QED BY <2>4, <2>5 DEF Deep
<1>15. \A b : IsRestricted(b)' <=> IsRestricted(b)
  BY <1>1 DEF IsRestricted, Class
<1>16. call.of # Null => ~ IsRestricted(call.of)
  BY <1>2, <1>7 DEF ContentsInv, Spared
<1>17. Spared'
  <2>1. \A i \in 1 .. Len(c.refs) : ~ IsRestricted(new[i].of)
    BY <1>3, <1>4
  <2>2. \A i \in 1 .. Len(calls') : calls'[i].of # Null => ~ IsRestricted(calls'[i].of)
    BY <1>8, <2>1 DEF ContentsInv, Spared
  <2> QED BY <1>15, <2>2 DEF Spared
<1>18. RestrictedKept'
  <2>1. \A i \in 1 .. Len(written) :
          /\ written[i].of # Null => ~ IsRestricted(written[i].of)
          /\ IsRestricted(written[i].address) => written[i].value \notin {"value", "ivars", "payload"}
          /\ Len(written[i].types) = IF IsRestricted(written[i].address) THEN 2 ELSE 1
    BY DEF ContentsInv, RestrictedKept
  <2>2. /\ elem.of # Null => ~ IsRestricted(elem.of)
        /\ IsRestricted(elem.address) => elem.value \notin {"value", "ivars", "payload"}
        /\ Len(elem.types) = IF IsRestricted(elem.address) THEN 2 ELSE 1
    BY <1>6, <1>16
  <2>3. \A i \in 1 .. Len(written') :
          /\ written'[i].of # Null => ~ IsRestricted(written'[i].of)
          /\ IsRestricted(written'[i].address) => written'[i].value \notin {"value", "ivars", "payload"}
          /\ Len(written'[i].types) = IF IsRestricted(written'[i].address) THEN 2 ELSE 1
    BY <1>9, <2>1, <2>2
  <2> QED BY <1>15, <2>3 DEF RestrictedKept
<1> QED BY <1>11, <1>13, <1>14, <1>17, <1>18 DEF ContentsInv

LEMMA ContentsInvNext == ASSUME ContentsInv, [ContentsNext]_contentsVars PROVE ContentsInv'
<1>1. CASE UNCHANGED contentsVars
  BY <1>1 DEF ContentsInv, ContentsTypeOK, Spent, Deep, Spared, RestrictedKept, IsRestricted, Class, Addresses,
     contentsVars
<1>2. CASE ContentsEnded
  BY <1>1, <1>2 DEF ContentsEnded
<1> QED BY <1>1, <1>2, SourceKeeps, MemoryKeeps, ScalarKeeps DEF ContentsNext

\* However objects refer to each other, in circles too: what a source adds to a
\* report stays within the limit, and nothing that an object of a restricted
\* class holds or refers to is written.
THEOREM ContentsBounded == ContentsSpec => []MemoryBounded
<1>1. ContentsInv => MemoryBounded
  <2>1. ContentsInv => WithinLimit
    BY DEF ContentsInv, Spent, Deep, WithinLimit
  <2> QED BY <2>1 DEF ContentsInv, MemoryBounded
<1> QED BY <1>1, ContentsInvInit, ContentsInvNext, PTL DEF ContentsSpec

-----------------------------------------------------------------------------
(***************************************************************************)
(* The sections of a report.                                               *)
(* For any number of threads, in any order, and any number that is         *)
(* captured: wherever the handler faults, what it has passed is in the     *)
(* file, and the user's JSON is never one that has been freed.             *)
(***************************************************************************)

\* What a section may hold, once it is known what the exception is
Held ==
  writeReportInfo \cup writeBinaryImages \cup writeProcessState \cup writeSystemInfo \cup writeDebugInfo \cup
  {ErrorType(crash)} \cup writeThreads(crash) \cup 0 .. MaxStrings \cup {"callback"}
Entries == [section : 1 .. 11, holds : SUBSET Held]

SectionsTyped == WriterTypeOK /\ buffered \in Seq(Entries) /\ sections \in Seq(Entries)

\* The lock is with the one who is inside, and with the handler while it writes
\* the user's section; the string is alive unless it is just being replaced.
LockHeld ==
  /\ \A t \in Setters : setting[t] \in {"locked", "freed", "set", "copy"} <=> lock = t
  /\ lock = Handler <=> place = 8 /\ userInfoLocked = "yes"
  /\ place < 8 => userInfoLocked = "unset"
  /\ info \in alive \cup {NoString} \/ \E t \in Setters : setting[t] = "freed"

\* The buffer holds the section that is written, if there is one; only an empty
\* user's section and the last one stay in it for longer.
InBuffer ==
  /\ Len(buffered) <= 1
  /\ wrote => place \in {1, 2, 3, 4, 5, 6, 8, 9, 10}
  /\ wrote /\ place # 9 => Len(buffered) = 1 /\ buffered[1].section = place
  /\ ~ wrote /\ place \notin {9, 11} => buffered = <<>>
  /\ place = 11 => Len(buffered) = 1 /\ buffered[1].section = 10
  /\ place = 9 /\ wrote /\ crash.callback => Len(buffered) = 1 /\ buffered[1].section = 9
  /\ place = 9 /\ ~ (wrote /\ crash.callback) =>
       buffered = <<>> \/ buffered = <<[section |-> 8, holds |-> {}]>>
  /\ place = 2 => crash.images

\* Passed and Waiting by numbers
InFile(p) ==
  /\ p < place /\ p \notin {7, 11} /\ (p = 2 => crash.images) /\ (p = 9 => crash.callback)
  /\ ~ (p = 10 /\ place # 12)
  /\ ~ (p = 8 /\ place = 9 /\ buffered = <<[section |-> 8, holds |-> {}]>>)

OnFile ==
  /\ \A p \in 1 .. 11 : InFile(p) <=> \E i \in 1 .. Len(sections) : sections[i].section = p
  /\ \A i, j \in 1 .. Len(sections) : i < j => sections[i].section < sections[j].section

\* The crashed thread is in the list once, and threads are those of the list.
ThreadsListed ==
  /\ place # 0 => \E i \in DOMAIN crash.list :
       crash.list[i] = crash.thread /\ \A j \in DOMAIN crash.list : crash.list[j] = crash.thread => j = i
  /\ \A i \in 1 .. Len(buffered) : buffered[i].section = 6 => buffered[i].holds = writeThreads(crash)
  /\ \A i \in 1 .. Len(sections) : sections[i].section = 6 => sections[i].holds = writeThreads(crash)

WriterInv == SectionsTyped /\ LockHeld /\ InBuffer /\ OnFile /\ ThreadsListed

LEMMA OrderIs ==
  /\ DOMAIN Order = 1 .. 11
  /\ \A p \in 1 .. 11 : /\ (Order[p] = "info" <=> p = 1) /\ (Order[p] = "images" <=> p = 2)
                        /\ (Order[p] = "process" <=> p = 3) /\ (Order[p] = "system" <=> p = 4)
                        /\ (Order[p] = "error" <=> p = 5) /\ (Order[p] = "threads" <=> p = 6)
                        /\ (Order[p] = "resume" <=> p = 7) /\ (Order[p] = "user" <=> p = 8)
                        /\ (Order[p] = "callback" <=> p = 9) /\ (Order[p] = "debug" <=> p = 10)
                        /\ (Order[p] = "end" <=> p = 11)
BY DEF Order

\* A sequence followed by a sequence of one element at most
LEMMA OneMore ==
  ASSUME NEW S, NEW s \in Seq(S), NEW b \in Seq(S), Len(b) <= 1
  PROVE  /\ s \o b \in Seq(S) /\ Len(s) \in Nat /\ Len(b) \in Nat /\ Len(s \o b) = Len(s) + Len(b)
         /\ \A i \in 1 .. Len(s) : i \in 1 .. Len(s \o b) /\ (s \o b)[i] = s[i]
         /\ Len(b) = 1 => Len(s) + 1 \in 1 .. Len(s \o b) /\ (s \o b)[Len(s) + 1] = b[1]
         /\ \A i \in 1 .. Len(s \o b) : i \in 1 .. Len(s) \/ (i = Len(s) + 1 /\ Len(b) = 1)
<1>1. Len(s) \in Nat /\ Len(b) \in Nat
  OBVIOUS
<1>2. s \o b \in Seq(S) /\ Len(s \o b) = Len(s) + Len(b)
  BY ConcatProperties
<1>3. \A i \in 1 .. Len(s) + Len(b) : (s \o b)[i] = IF i <= Len(s) THEN s[i] ELSE b[i - Len(s)]
  BY ConcatProperties
<1>4. \A i \in 1 .. Len(s) : i \in 1 .. Len(s \o b) /\ (s \o b)[i] = s[i]
  BY <1>1, <1>2, <1>3
<1>5. Len(b) = 1 => Len(s) + 1 \in 1 .. Len(s \o b) /\ (s \o b)[Len(s) + 1] = b[1]
  BY <1>1, <1>2, <1>3
<1>6. \A i \in 1 .. Len(s \o b) : i \in 1 .. Len(s) \/ (i = Len(s) + 1 /\ Len(b) = 1)
  <2> DEFINE n == Len(s) m == Len(b)
  <2>1. n \in Nat /\ m \in Nat /\ m <= 1
    BY <1>1
  <2> HIDE DEF n, m
  <2>2. \A i \in 1 .. n + m : i \in 1 .. n \/ (i = n + 1 /\ m = 1)
    BY <2>1
  <2> QED BY <1>2, <2>2 DEF n, m
<1> QED BY <1>1, <1>2, <1>4, <1>5, <1>6

\* getThreadList() lists the crashed thread once.
LEMMA CrashedListed ==
  ASSUME NEW threads \in Listings, NEW t \in Threads
  PROVE  LET list == ThreadList(threads, t) IN
         /\ list \in Seq(Threads)
         /\ \E i \in DOMAIN list : list[i] = t /\ \A j \in DOMAIN list : list[j] = t => j = i
<1> DEFINE n    == IF Len(threads) > MaxCaptured THEN MaxCaptured ELSE Len(threads)
           list == SubSeq(threads, 1, n)
<1>1. /\ threads \in Seq(Threads) /\ threads # <<>>
      /\ \A i, j \in 1 .. Len(threads) : threads[i] = threads[j] => i = j
  BY WriterAssumption
<1>2. n \in 1 .. Len(threads)
  BY <1>1, WriterAssumption
<1>3. /\ list \in Seq(Threads) /\ Len(list) = n /\ DOMAIN list = 1 .. n
      /\ \A i \in 1 .. n : list[i] = threads[i]
  <2> HIDE DEF n
  <2> QED BY <1>1, <1>2
<1>4. ThreadList(threads, t) = IF n > 0 /\ t \notin ToSet(list) THEN [list EXCEPT ![n] = t] ELSE list
  BY DEF ThreadList
<1>5. ToSet(list) = {list[i] : i \in 1 .. n}
  BY <1>3 DEF ToSet
<1> HIDE DEF list, n
<1>6. CASE t \in ToSet(list)
  <2>1. PICK i \in 1 .. n : list[i] = t
    BY <1>5, <1>6
  <2>2. \A j \in 1 .. n : list[j] = t => j = i
    BY <1>1, <1>2, <1>3, <2>1
  <2> QED BY <1>3, <1>4, <1>6, <2>1, <2>2
<1>7. CASE t \notin ToSet(list)
  <2> DEFINE new == [list EXCEPT ![n] = t]
  <2>1. n \in 1 .. n /\ n > 0
    BY <1>2
  <2>2. new \in Seq(Threads) /\ DOMAIN new = 1 .. n /\ new[n] = t
    BY <1>3, <2>1
  <2>3. \A j \in 1 .. n : new[j] = t => j = n
    BY <1>3, <1>5, <1>7
  <2> QED BY <1>4, <1>7, <2>1, <2>2, <2>3
<1> QED BY <1>6, <1>7

LEMMA WriterInvInit == ASSUME WriterInit PROVE WriterInv
<1>0. MaxStrings \in Nat
  BY WriterAssumption
<1>1. /\ buffered = <<>> /\ sections = <<>> /\ Len(buffered) = 0 /\ Len(sections) = 0 /\ place = 0
      /\ ~ wrote
      /\ userInfoLocked = "unset" /\ lock = Nobody /\ info = NoString
  BY DEF WriterInit
<1>2. WriterTypeOK
  <2>1. crash = [monitor |-> "", thread |-> Nobody, list |-> <<>>,
                 all |-> FALSE, signal |-> FALSE, images |-> FALSE, hang |-> FALSE, callback |-> FALSE]
    BY DEF WriterInit
  <2>2. <<>> \in Seq(Threads)
    OBVIOUS
  <2>3. crash \in Crashes
    BY <2>1, <2>2 DEF Crashes
  <2>4. 0 \in 0 .. MaxStrings /\ 0 \in 0 .. Ended
    BY <1>0 DEF Ended
  <2>5. /\ lock \in Setters \cup {Nobody, Handler} /\ info \in 0 .. MaxStrings
        /\ alive \subseteq 1 .. MaxStrings /\ strings \in 0 .. MaxStrings
        /\ setting \in [Setters -> Steps] /\ got \in [Setters -> 0 .. MaxStrings]
    BY <2>4, Zenon DEF WriterInit, NoString, Steps
  <2>6. \A f \in {buffered, sections} : \A i \in DOMAIN f : f[i].section \in DOMAIN Order
    BY <1>1
  <2>7. /\ place \in 0 .. Ended /\ userInfoLocked \in {"unset", "yes", "no"}
        /\ {wrote, faulted} \subseteq BOOLEAN /\ stopped \subseteq Threads
    BY <2>4, Zenon DEF WriterInit
  <2> QED BY <2>3, <2>4, <2>5, <2>6, <2>7 DEF WriterTypeOK
<1>3. SectionsTyped
  BY <1>1, <1>2 DEF SectionsTyped
<1>4. LockHeld
  BY <1>1, WriterAssumption DEF LockHeld, WriterInit, Threads, Nobody, Handler
<1>5. InBuffer /\ OnFile /\ ThreadsListed
  BY <1>1 DEF InBuffer, OnFile, InFile, ThreadsListed
<1> QED BY <1>3, <1>4, <1>5 DEF WriterInv

-----------------------------------------------------------------------------
\* What the exception is does not change while it is reported.
LEMMA SameCrash ==
  ASSUME crash' = crash
  PROVE  Held' = Held /\ Entries' = Entries /\ writeThreads(crash)' = writeThreads(crash)
<1>1. ErrorType(crash)' = ErrorType(crash) /\ writeThreads(crash)' = writeThreads(crash)
  BY DEF writeThreads, writeThread, writeRegisters, writeMemory, canHaveCPUState, getStackCursor, ErrorType
<1>2. Held' = Held
  BY <1>1 DEF Held
<1> QED BY <1>1, <1>2 DEF Entries

\* A step that leaves the report alone keeps what is said of it.
LEMMA ReportKept ==
  ASSUME WriterInv, UNCHANGED reportVars, WriterTypeOK', LockHeld'
  PROVE  WriterInv'
<1>1. /\ crash' = crash /\ place' = place /\ wrote' = wrote /\ buffered' = buffered
      /\ sections' = sections
  BY DEF reportVars
<1>2. SectionsTyped'
  BY <1>1, SameCrash DEF WriterInv, SectionsTyped
<1>3. InBuffer' /\ OnFile'
  BY <1>1 DEF WriterInv, InBuffer, OnFile, InFile
<1>4. ThreadsListed'
  BY <1>1, SameCrash DEF WriterInv, ThreadsListed
<1> QED BY <1>2, <1>3, <1>4 DEF WriterInv

LEMMA SetterKeeps ==
  ASSUME WriterInv, NEW t \in Setters,
         CallUser(t) \/ Lock(t) \/ FreeInfo(t) \/ SetInfo(t) \/ CopyInfo(t) \/ Unlock(t)
  PROVE  WriterInv'
<1>1. /\ setting \in [Setters -> Steps] /\ got \in [Setters -> 0 .. MaxStrings]
      /\ info \in 0 .. MaxStrings
      /\ lock \in Setters \cup {Nobody, Handler} /\ alive \subseteq 1 .. MaxStrings
      /\ strings \in 0 .. MaxStrings
      /\ MaxStrings \in Nat /\ Handler \notin Setters /\ Nobody \notin Setters /\ Nobody # Handler
  BY WriterAssumption DEF WriterInv, SectionsTyped, WriterTypeOK, Threads, Nobody, Handler
<1>2. UNCHANGED reportVars /\ stopped' = stopped
  BY DEF CallUser, Lock, FreeInfo, SetInfo, CopyInfo, Unlock, reportVars
<1>3. /\ \A u \in Setters : setting[u] \in {"locked", "freed", "set", "copy"} <=> lock = u
      /\ lock = Handler <=> place = 8 /\ userInfoLocked = "yes"
      /\ place < 8 => userInfoLocked = "unset"
      /\ info \in alive \cup {NoString} \/ \E u \in Setters : setting[u] = "freed"
  BY DEF WriterInv, LockHeld
<1>4. place' = place /\ userInfoLocked' = userInfoLocked
  BY <1>2 DEF reportVars
<1>5. SUFFICES /\ setting' \in [Setters -> Steps] /\ got' \in [Setters -> 0 .. MaxStrings] /\ info' \in 0 .. MaxStrings
               /\ lock' \in Setters \cup {Nobody, Handler} /\ alive' \subseteq 1 .. MaxStrings
               /\ strings' \in 0 .. MaxStrings
               /\ \A u \in Setters : setting'[u] \in {"locked", "freed", "set", "copy"} <=> lock' = u
               /\ lock' = Handler <=> lock = Handler
               /\ info' \in alive' \cup {NoString} \/ \E u \in Setters : setting'[u] = "freed"
  <2>1. LockHeld'
    BY <1>3, <1>4, <1>5 DEF LockHeld
  <2>2. WriterTypeOK'
    BY <1>2, <1>5 DEF WriterInv, SectionsTyped, WriterTypeOK, reportVars
  <2> QED BY <1>2, <2>1, <2>2, ReportKept
<1>6. CASE CallUser(t)
  BY <1>1, <1>3, <1>6 DEF CallUser, Goto, Steps
<1>7. CASE Lock(t)
  BY <1>1, <1>3, <1>7 DEF Lock, Goto, Steps
<1>8. CASE FreeInfo(t)
  BY <1>1, <1>3, <1>8 DEF FreeInfo, Goto, Steps
<1>9. CASE SetInfo(t)
  <2>1. /\ setting[t] = "freed" /\ setting' = [setting EXCEPT ![t] = "set"]
        /\ lock' = lock /\ got' = got
        /\ \/ strings < MaxStrings /\ strings' = strings + 1 /\ info' = strings + 1 /\ alive' = alive \cup {strings + 1}
           \/ info' = NoString /\ strings' = strings /\ alive' = alive
    BY <1>9 DEF SetInfo, Goto
  <2>2. /\ setting' \in [Setters -> Steps]
        /\ \A u \in Setters : setting'[u] \in {"locked", "freed", "set", "copy"} <=> lock' = u
    BY <1>1, <1>3, <2>1 DEF Steps
  <2>3. /\ info' \in 0 .. MaxStrings /\ alive' \subseteq 1 .. MaxStrings /\ strings' \in 0 .. MaxStrings
        /\ info' \in alive' \cup {NoString}
    <3>1. CASE strings < MaxStrings /\ strings' = strings + 1 /\ info' = strings + 1 /\ alive' = alive \cup {strings + 1}
      <4>1. strings + 1 \in 1 .. MaxStrings
        BY <1>1, <3>1
      <4> QED BY <1>1, <3>1, <4>1
    <3>2. CASE info' = NoString /\ strings' = strings /\ alive' = alive
      BY <1>1, <3>2 DEF NoString
    <3> QED BY <2>1, <3>1, <3>2
  <2> QED BY <1>1, <2>1, <2>2, <2>3
<1>10. CASE CopyInfo(t)
  BY <1>1, <1>3, <1>10 DEF CopyInfo, Goto, Steps
<1>11. CASE Unlock(t)
  BY <1>1, <1>3, <1>11 DEF Unlock, Goto, Steps
<1> QED BY <1>6, <1>7, <1>8, <1>9, <1>10, <1>11
-----------------------------------------------------------------------------
\* The types, from those of the parts that the handler changes
LEMMA TypedOfParts ==
  ASSUME WriterInv, buffered' \in Seq(Entries), sections' \in Seq(Entries), crash' = crash, Entries' = Entries,
         lock' \in Setters \cup {Nobody, Handler}, place' \in 0 .. 12, wrote' \in BOOLEAN,
         UNCHANGED <<info, alive, strings, setting, got, userInfoLocked, faulted>>,
         stopped' \in {stopped, {}}
  PROVE  SectionsTyped'
<1>1. ASSUME NEW f \in Seq(Entries), NEW i \in DOMAIN f PROVE f[i].section \in DOMAIN Order
  <2>1. f[i] \in Entries
    BY <1>1
  <2> QED BY <2>1, OrderIs DEF Entries
<1>2. \A f \in {buffered', sections'} : \A i \in DOMAIN f : f[i].section \in DOMAIN Order
  BY <1>1
<1>3. WriterTypeOK'
  BY <1>2 DEF WriterInv, SectionsTyped, WriterTypeOK, Ended
<1> QED BY <1>3 DEF SectionsTyped

LEMMA BeginKeeps == ASSUME WriterInv, NEW t \in Threads, BeginReport(t) PROVE WriterInv'
<1>1. PICK threads \in Listings, m \in Monitors, all, images, hang, callback \in BOOLEAN :
        /\ crash' = [monitor |-> m, thread |-> t, list |-> ThreadList(threads, t), all |-> all,
                     signal |-> m = "Signal", images |-> images, hang |-> hang, callback |-> callback]
        /\ stopped' = IF all THEN Threads ELSE {t}
  BY SMTT(30) DEF BeginReport
<1>2. /\ place = 0 /\ place' = 1 /\ wrote' = wrote /\ userInfoLocked' = userInfoLocked
      /\ buffered' = buffered /\ sections' = sections /\ UNCHANGED <<userVars, faulted>>
  BY DEF BeginReport
<1>3. ~ wrote /\ buffered = <<>>
  BY <1>2 DEF WriterInv, InBuffer
<1>4. sections = <<>>
  <2>1. sections \in Seq(Entries)
    BY DEF WriterInv, SectionsTyped
  <2>2. ASSUME NEW i \in 1 .. Len(sections) PROVE FALSE
    <3>1. sections[i] \in Entries
      BY <2>1, ElementOfSeq
    <3>2. sections[i].section \in 1 .. 11
      BY <3>1 DEF Entries
    <3> QED BY <1>2, <3>2 DEF WriterInv, OnFile, InFile
  <2>3. Len(sections) = 0
    BY <2>1, <2>2, LenProperties
  <2> QED BY <2>1, <2>3, EmptySeq
<1>5. /\ ThreadList(threads, t) \in Seq(Threads)
      /\ \E i \in DOMAIN ThreadList(threads, t) :
           /\ ThreadList(threads, t)[i] = t
           /\ \A j \in DOMAIN ThreadList(threads, t) : ThreadList(threads, t)[j] = t => j = i
  BY CrashedListed
<1>6. crash' \in Crashes
  BY <1>1, <1>5 DEF Crashes
<1>7. WriterTypeOK'
  <2>1. /\ place' \in 0 .. Ended /\ stopped' \subseteq Threads
    BY <1>1, <1>2 DEF Ended
  <2>2. Crashes' = Crashes
    OBVIOUS
  <2> QED BY <1>2, <1>6, <2>1 DEF WriterInv, SectionsTyped, WriterTypeOK, userVars
<1>8. SectionsTyped'
  BY <1>2, <1>3, <1>4, <1>7 DEF SectionsTyped
<1>9. LockHeld'
  BY <1>2 DEF WriterInv, LockHeld, userVars
<1>10. InBuffer' /\ OnFile'
  BY <1>2, <1>3, <1>4 DEF InBuffer, OnFile, InFile
<1>11. ThreadsListed'
  BY <1>1, <1>2, <1>3, <1>4, <1>5 DEF ThreadsListed
<1> QED BY <1>8, <1>9, <1>10, <1>11 DEF WriterInv

\* A section is written to the buffer, which was empty.
LEMMA WrittenKeeps ==
  ASSUME WriterInv, place \in {1, 2, 3, 4, 5, 6, 8, 10}, ~ wrote, NEW content \in SUBSET Held, Writes(content),
         place = 6 => content = writeThreads(crash),
         UNCHANGED <<userVars, crash, place, userInfoLocked, sections, faulted, stopped>>
  PROVE  WriterInv'
<1> DEFINE e == [section |-> place, holds |-> content]
<1>1. buffered = <<>>
  BY DEF WriterInv, InBuffer
<1>2. wrote' = TRUE /\ buffered' = Append(buffered, e)
  BY DEF Writes
<1>3. e \in Entries /\ e.section = place /\ e.holds = content
  BY DEF Entries
<1> HIDE DEF e
<1>4. buffered' = <<e>>
  BY <1>1, <1>2
<1>5. buffered' \in Seq(Entries) /\ Len(buffered') = 1 /\ buffered'[1] = e /\ DOMAIN buffered' = 1 .. 1
  BY <1>3, <1>4
<1>6. SectionsTyped'
  <2>1. \A i \in DOMAIN buffered' : buffered'[i].section \in DOMAIN Order
    BY <1>3, <1>5, OrderIs
  <2>2. WriterTypeOK'
    BY <1>2, <2>1 DEF WriterInv, SectionsTyped, WriterTypeOK, userVars
  <2> QED BY <1>5, <2>2, SameCrash DEF WriterInv, SectionsTyped
<1>7. LockHeld'
  BY DEF WriterInv, LockHeld, userVars
<1>8. InBuffer'
  BY <1>2, <1>3, <1>5 DEF WriterInv, InBuffer
<1>9. OnFile'
  <2>1. place # 9 /\ place' = place /\ crash' = crash /\ sections' = sections
    OBVIOUS
  <2>2. \A p \in 1 .. 11 : InFile(p)' <=> InFile(p)
    BY <2>1 DEF InFile
  <2> QED BY <2>1, <2>2 DEF WriterInv, OnFile
<1>10. ThreadsListed'
  BY <1>3, <1>5, SameCrash DEF WriterInv, ThreadsListed
<1> QED BY <1>6, <1>7, <1>8, <1>9, <1>10 DEF WriterInv

LEMMA WriteSectionKeeps == ASSUME WriterInv, WriteSection PROVE WriterInv'
<1>1. PICK s \in {"info", "images", "process", "system", "error", "threads", "debug"} : Handles(s) /\ Writes(Content(s))
  BY DEF WriteSection
<1>2. place \in 1 .. 11 /\ Order[place] = s /\ ~ wrote
  BY <1>1, OrderIs DEF Handles
<1>3. place \in {1, 2, 3, 4, 5, 6, 10} /\ (place = 6 <=> s = "threads")
  BY <1>2, OrderIs
<1>4. /\ Content("info") = writeReportInfo /\ Content("images") = writeBinaryImages
      /\ Content("process") = writeProcessState /\ Content("system") = writeSystemInfo
      /\ Content("error") = {ErrorType(crash)} /\ Content("threads") = writeThreads(crash)
      /\ Content("debug") = writeDebugInfo
  BY DEF Content
<1>5. Content(s) \in SUBSET Held
  BY <1>4, Zenon DEF Held
<1>6. UNCHANGED <<userVars, crash, place, userInfoLocked, sections, faulted, stopped>>
  BY DEF WriteSection
<1> QED BY <1>1, <1>2, <1>3, <1>4, <1>5, <1>6, WrittenKeeps

LEMMA WriteUserKeeps == ASSUME WriterInv, WriteUser PROVE WriterInv'
<1> DEFINE content == IF userInfoLocked = "yes" /\ info # NoString THEN {info} ELSE {}
<1>1. place = 8 /\ ~ wrote /\ Writes(content)
  BY OrderIs DEF WriteUser, Handles
<1>2. info \in 0 .. MaxStrings
  BY DEF WriterInv, SectionsTyped, WriterTypeOK
<1>3. content \in SUBSET Held
  BY <1>2 DEF Held
<1>4. UNCHANGED <<userVars, crash, place, userInfoLocked, sections, faulted, stopped>>
  BY DEF WriteUser
<1> HIDE DEF content
<1> QED BY <1>1, <1>3, <1>4, WrittenKeeps
\* After a flush, what has been in the buffer is the last in the file.
BufferOnFile ==
  /\ sections' \in Seq(Entries)
  /\ \A i, j \in 1 .. Len(sections') : i < j => sections'[i].section < sections'[j].section
  /\ \A i \in 1 .. Len(sections') : sections'[i].section = 6 => sections'[i].holds = writeThreads(crash)
  /\ \A p \in 1 .. 11 : (\E i \in 1 .. Len(sections') : sections'[i].section = p)
                         <=> InFile(p) \/ (Len(buffered) = 1 /\ buffered[1].section = p)

LEMMA Flushed == ASSUME WriterInv, place # 0, sections' = sections \o buffered PROVE BufferOnFile
<1>1. buffered \in Seq(Entries) /\ sections \in Seq(Entries) /\ Len(buffered) <= 1 /\ Len(buffered) \in Nat
  BY DEF WriterInv, SectionsTyped, InBuffer
<1> DEFINE n == Len(sections) w == Len(sections')
<1>2. /\ sections' \in Seq(Entries) /\ n \in Nat /\ w = n + Len(buffered)
      /\ \A i \in 1 .. n : i \in 1 .. w /\ sections'[i] = sections[i]
      /\ Len(buffered) = 1 => n + 1 \in 1 .. w /\ sections'[n + 1] = buffered[1]
      /\ \A i \in 1 .. w : i \in 1 .. n \/ (i = n + 1 /\ Len(buffered) = 1)
  BY <1>1, OneMore
<1>3. \A i \in 1 .. n : sections[i].section \in 1 .. 11 /\ InFile(sections[i].section)
  <2>1. \A i \in 1 .. n : sections[i] \in Entries
    BY <1>1, ElementOfSeq
  <2>2. \A i \in 1 .. n : sections[i].section \in 1 .. 11
    BY <2>1 DEF Entries
  <2> QED BY <2>2 DEF WriterInv, OnFile
<1>4. place \in 0 .. 12
  BY DEF WriterInv, SectionsTyped, WriterTypeOK, Ended
<1>5. \/ buffered = <<>> /\ Len(buffered) = 0
      \/ place \in {1, 2, 3, 4, 5, 6, 8, 9, 10} /\ buffered[1].section = place
      \/ place = 9 /\ buffered = <<[section |-> 8, holds |-> {}]>> /\ buffered[1].section = 8
      \/ place = 11 /\ buffered[1].section = 10
  <2>1. CASE place = 11
    BY <2>1 DEF WriterInv, InBuffer
  <2>2. CASE place = 9 /\ wrote /\ crash.callback
    <3>1. buffered[1].section = place
      BY <2>2 DEF WriterInv, InBuffer
    <3> QED BY <2>2, <3>1
  <2>3. CASE place = 9 /\ ~ (wrote /\ crash.callback)
    <3>1. buffered = <<>> \/ buffered = <<[section |-> 8, holds |-> {}]>>
      BY <2>3 DEF WriterInv, InBuffer
    <3>2. <<[section |-> 8, holds |-> {}]>>[1].section = 8 /\ Len(<<>>) = 0
      OBVIOUS
    <3> QED BY <2>3, <3>1, <3>2
  <2>4. CASE place \notin {9, 11} /\ wrote
    BY <2>4 DEF WriterInv, InBuffer
  <2>5. CASE place \notin {9, 11} /\ ~ wrote
    <3>1. buffered = <<>>
      BY <2>5 DEF WriterInv, InBuffer
    <3> QED BY <3>1
  <2> QED BY <2>1, <2>2, <2>3, <2>4, <2>5
<1>6. Len(buffered) = 1 => \A p \in 1 .. 11 : InFile(p) => p < buffered[1].section
  BY <1>4, <1>5 DEF InFile
<1>7. \A i, j \in 1 .. w : i < j => sections'[i].section < sections'[j].section
  <2> SUFFICES ASSUME NEW i \in 1 .. w, NEW j \in 1 .. w, i < j PROVE sections'[i].section < sections'[j].section
    OBVIOUS
  <2> HIDE DEF n, w
  <2>1. i \in 1 .. n
    BY <1>1, <1>2
  <2>2. CASE j \in 1 .. n
    BY <1>2, <2>1, <2>2 DEF WriterInv, OnFile, n
  <2>3. CASE j = n + 1 /\ Len(buffered) = 1
    BY <1>2, <1>3, <1>6, <2>1, <2>3
  <2> QED BY <1>2, <2>2, <2>3
<1>8. \A i \in 1 .. w : sections'[i].section = 6 => sections'[i].holds = writeThreads(crash)
  <2>1. \A i \in 1 .. n : sections[i].section = 6 => sections[i].holds = writeThreads(crash)
    BY DEF WriterInv, ThreadsListed
  <2>2. Len(buffered) = 1 => (buffered[1].section = 6 => buffered[1].holds = writeThreads(crash))
    BY DEF WriterInv, ThreadsListed
  <2> HIDE DEF n, w
  <2> QED BY <1>2, <2>1, <2>2
<1>9. \A p \in 1 .. 11 : (\E i \in 1 .. w : sections'[i].section = p)
                          <=> InFile(p) \/ (Len(buffered) = 1 /\ buffered[1].section = p)
  <2>1. \A p \in 1 .. 11 : InFile(p) <=> \E i \in 1 .. n : sections[i].section = p
    BY DEF WriterInv, OnFile
  <2> HIDE DEF n, w
  <2> QED BY <1>2, <2>1
<1> QED BY <1>2, <1>7, <1>8, <1>9 DEF BufferOnFile

LEMMA EndSectionKeeps == ASSUME WriterInv, EndSection PROVE WriterInv'
<1>1. /\ ~ faulted /\ wrote /\ wrote' = FALSE /\ crash' = crash /\ userInfoLocked' = userInfoLocked
      /\ UNCHANGED <<info, alive, strings, setting, got, faulted, stopped>>
  BY DEF EndSection
<1>2. place \in {1, 2, 3, 4, 5, 6, 8, 9, 10} /\ (place # 9 => Len(buffered) = 1 /\ buffered[1].section = place)
  BY <1>1 DEF WriterInv, InBuffer
<1>3. /\ place' = place + (IF place = 1 /\ ~ crash.images THEN 2 ELSE 1)
      /\ lock' = IF place = 8 /\ userInfoLocked = "yes" THEN Nobody ELSE lock
      /\ Flushes <=> place # 10 /\ (place = 8 => buffered[1].holds # {})
  BY <1>2, OrderIs DEF EndSection, Flushes
<1>4. /\ Flushes => sections' = sections \o buffered /\ buffered' = <<>>
      /\ ~ Flushes => sections' = sections /\ buffered' = buffered
  BY DEF EndSection
<1>5. buffered \in Seq(Entries) /\ sections \in Seq(Entries) /\ <<>> \in Seq(Entries) /\ Len(<<>>) = 0
  BY DEF WriterInv, SectionsTyped
<1>6. Flushes => BufferOnFile
  BY <1>2, <1>4, Flushed
<1>7. buffered' \in Seq(Entries) /\ sections' \in Seq(Entries) /\ place' \in 1 .. 11
  <2>1. buffered' \in Seq(Entries) /\ sections' \in Seq(Entries)
    BY <1>4, <1>5, <1>6 DEF BufferOnFile
  <2>2. place' \in 1 .. 11
    BY <1>2, <1>3
  <2> QED BY <2>1, <2>2
<1>8. lock' \in Setters \cup {Nobody, Handler}
  BY <1>3 DEF WriterInv, SectionsTyped, WriterTypeOK
<1>9. SectionsTyped'
  <2>1. place' \in 0 .. 12 /\ wrote' \in BOOLEAN /\ stopped' \in {stopped, {}} /\ Entries' = Entries
    <3>1. place' \in 0 .. 12
      BY <1>7
    <3>2. wrote' \in BOOLEAN /\ stopped' = stopped
      BY <1>1
    <3> QED BY <1>1, <3>1, <3>2, SameCrash
  <2>2. UNCHANGED <<info, alive, strings, setting, got, userInfoLocked, faulted>>
    BY <1>1
  <2> QED BY <1>1, <1>7, <1>8, <2>1, <2>2, TypedOfParts
<1>10. LockHeld'
  <2>1. CASE place = 8 /\ userInfoLocked = "yes"
    BY <1>1, <1>3, <2>1, WriterAssumption DEF WriterInv, LockHeld, Threads, Nobody, Handler
  <2>2. CASE ~ (place = 8 /\ userInfoLocked = "yes")
    BY <1>1, <1>2, <1>3, <2>2 DEF WriterInv, LockHeld
  <2> QED BY <2>1, <2>2
<1>11. place = 8 /\ ~ Flushes => buffered = <<[section |-> 8, holds |-> {}]>>
  <2> SUFFICES ASSUME place = 8, ~ Flushes PROVE buffered = <<[section |-> 8, holds |-> {}]>>
    OBVIOUS
  <2>1. Len(buffered) = 1 /\ buffered[1].section = 8 /\ buffered[1].holds = {}
    BY <1>2, <1>3
  <2>2. buffered[1] \in Entries
    <3>1. \A i \in 1 .. Len(buffered) : buffered[i] \in Entries
      BY <1>5, ElementOfSeq
    <3> QED BY <2>1, <3>1
  <2>3. buffered[1] = [section |-> 8, holds |-> {}]
    BY <2>1, <2>2 DEF Entries
  <2> QED BY <1>5, <2>1, <2>3
<1>12. InBuffer'
  BY <1>1, <1>2, <1>3, <1>4, <1>5, <1>11 DEF WriterInv, InBuffer
<1>13. OnFile'
  <2>1. CASE Flushes
    <3>1. \A p \in 1 .. 11 : InFile(p)' <=> InFile(p) \/ (Len(buffered) = 1 /\ buffered[1].section = p)
      <4>0. buffered' # <<[section |-> 8, holds |-> {}]>> /\ place # 10
        BY <1>3, <1>4, <2>1
      <4>1. CASE place # 9
        <5>1. Len(buffered) = 1 /\ buffered[1].section = place /\ crash' = crash
          BY <1>1, <1>2, <4>1
        <5>2. place \in {1, 2, 3, 4, 5, 6, 8}
          BY <1>2, <4>0, <4>1
        <5>3. place = 2 => crash.images
          BY DEF WriterInv, InBuffer
        <5> QED BY <1>3, <4>0, <5>1, <5>2, <5>3 DEF InFile
      <4>2. CASE place = 9 /\ crash.callback
        BY <1>1, <1>2, <1>3, <1>4, <2>1, <4>2 DEF InFile, WriterInv, InBuffer
      <4>3. CASE place = 9 /\ ~ crash.callback
        BY <1>1, <1>2, <1>3, <1>4, <1>5, <2>1, <4>3 DEF InFile, WriterInv, InBuffer
      <4> QED BY <4>1, <4>2, <4>3
    <3> QED BY <1>6, <2>1, <3>1 DEF OnFile, BufferOnFile
  <2>2. CASE ~ Flushes
    <3>1. \A p \in 1 .. 11 : InFile(p)' <=> InFile(p)
      BY <1>1, <1>2, <1>3, <1>4, <1>11, <2>2 DEF InFile
    <3> QED BY <1>4, <2>2, <3>1 DEF WriterInv, OnFile
  <2> QED BY <2>1, <2>2
<1>14. ThreadsListed'
  <2>1. \A i \in 1 .. Len(buffered') : buffered'[i].section = 6 => buffered'[i].holds = writeThreads(crash)
    BY <1>4, <1>5 DEF WriterInv, ThreadsListed
  <2>2. \A i \in 1 .. Len(sections') : sections'[i].section = 6 => sections'[i].holds = writeThreads(crash)
    BY <1>4, <1>6 DEF WriterInv, ThreadsListed, BufferOnFile
  <2> QED BY <1>1, <1>2, <1>7, <2>1, <2>2, SameCrash DEF WriterInv, ThreadsListed
<1> QED BY <1>9, <1>10, <1>12, <1>13, <1>14 DEF WriterInv

LEMMA ResumeKeeps == ASSUME WriterInv, Resume PROVE WriterInv'
<1>1. /\ place = 7 /\ ~ wrote /\ place' = 8 /\ stopped' \in {stopped, {crash.thread}}
      /\ UNCHANGED <<userVars, crash, wrote, userInfoLocked, buffered, sections, faulted>>
  BY OrderIs DEF Resume, Handles
<1>2. crash.thread \in Threads
  <2>1. PICK i \in DOMAIN crash.list : crash.list[i] = crash.thread
    BY <1>1 DEF WriterInv, ThreadsListed
  <2>2. crash.list \in Seq(Threads)
    BY DEF WriterInv, SectionsTyped, WriterTypeOK, Crashes
  <2> QED BY <2>1, <2>2
<1>3. SectionsTyped'
  BY <1>1, <1>2, SameCrash DEF WriterInv, SectionsTyped, WriterTypeOK, userVars, Ended
<1>4. LockHeld' /\ InBuffer'
  BY <1>1 DEF WriterInv, LockHeld, InBuffer, userVars
<1>5. OnFile'
  <2>1. \A p \in 1 .. 11 : InFile(p)' <=> InFile(p)
    BY <1>1 DEF InFile
  <2> QED BY <1>1, <2>1 DEF WriterInv, OnFile
<1>6. ThreadsListed'
  BY <1>1, SameCrash DEF WriterInv, ThreadsListed
<1> QED BY <1>3, <1>4, <1>5, <1>6 DEF WriterInv

LEMMA LockUserKeeps == ASSUME WriterInv, LockUser PROVE WriterInv'
<1>1. /\ place = 8 /\ userInfoLocked = "unset" /\ ~ wrote
      /\ \/ lock = Nobody /\ lock' = Handler /\ userInfoLocked' = "yes"
         \/ lock # Nobody /\ lock' = lock    /\ userInfoLocked' = "no"
      /\ UNCHANGED <<info, alive, strings, setting, got, crash, place, wrote, buffered, sections, faulted, stopped>>
  BY OrderIs DEF LockUser, LockBounded, Handles
<1>2. SectionsTyped'
  BY <1>1, SameCrash DEF WriterInv, SectionsTyped, WriterTypeOK
<1>3. LockHeld'
  BY <1>1, WriterAssumption DEF WriterInv, LockHeld, Threads, Nobody, Handler
<1>4. InBuffer' /\ OnFile'
  BY <1>1 DEF WriterInv, InBuffer, OnFile, InFile
<1>5. ThreadsListed'
  BY <1>1, SameCrash DEF WriterInv, ThreadsListed
<1> QED BY <1>2, <1>3, <1>4, <1>5 DEF WriterInv

LEMMA CallbackKeeps == ASSUME WriterInv, UserCallback PROVE WriterInv'
<1>1. /\ place = 9 /\ ~ wrote /\ wrote' = TRUE
      /\ UNCHANGED <<userVars, crash, place, userInfoLocked, faulted, stopped>>
  BY OrderIs DEF UserCallback, Handles
<1> DEFINE e == [section |-> 9, holds |-> {"callback"}]
<1>2. /\ crash.callback => sections' = sections \o buffered /\ buffered' = <<e>>
      /\ ~ crash.callback => sections' = sections /\ buffered' = buffered
  BY <1>1 DEF UserCallback
<1>3. e \in Entries /\ e.section = 9
  BY DEF Entries, Held
<1> HIDE DEF e
<1>4. <<e>> \in Seq(Entries) /\ Len(<<e>>) = 1 /\ <<e>>[1] = e
  BY <1>3
<1>5. crash.callback => BufferOnFile
  BY <1>1, <1>2, Flushed
<1>6. buffered' \in Seq(Entries) /\ sections' \in Seq(Entries)
  BY <1>2, <1>4, <1>5 DEF WriterInv, SectionsTyped, BufferOnFile
<1>7. SectionsTyped'
  <2>1. lock' \in Setters \cup {Nobody, Handler} /\ place' \in 0 .. 12
    BY <1>1 DEF WriterInv, SectionsTyped, WriterTypeOK, userVars, Ended
  <2>2. wrote' \in BOOLEAN /\ stopped' \in {stopped, {}} /\ Entries' = Entries
    BY <1>1, SameCrash
  <2>3. UNCHANGED <<info, alive, strings, setting, got, userInfoLocked, faulted>> /\ crash' = crash
    BY <1>1 DEF userVars
  <2> QED BY <1>6, <2>1, <2>2, <2>3, TypedOfParts
<1>8. LockHeld'
  BY <1>1 DEF WriterInv, LockHeld, userVars
<1>9. InBuffer'
  <2>1. CASE crash.callback
    <3>1. Len(buffered') = 1 /\ buffered'[1].section = 9 /\ crash'.callback /\ place' = 9
      BY <1>1, <1>2, <1>3, <1>4, <2>1
    <3> QED BY <1>1, <3>1 DEF InBuffer
  <2>2. CASE ~ crash.callback
    <3>1. buffered' = buffered /\ place' = 9 /\ crash' = crash /\ wrote' = TRUE
      BY <1>1, <1>2, <2>2
    <3> QED BY <1>1, <2>2, <3>1 DEF WriterInv, InBuffer
  <2> QED BY <2>1, <2>2
<1>10. OnFile'
  <2>1. CASE crash.callback
    <3>1. \A p \in 1 .. 11 : InFile(p)' <=> InFile(p) \/ (Len(buffered) = 1 /\ buffered[1].section = p)
      <4>1. buffered' # <<[section |-> 8, holds |-> {}]>>
        BY <1>2, <1>3, <1>4, <2>1
      <4>2. buffered = <<>> \/ buffered = <<[section |-> 8, holds |-> {}]>>
        BY <1>1 DEF WriterInv, InBuffer
      <4>3. CASE buffered = <<>>
        BY <1>1, <4>1, <4>3 DEF InFile
      <4>4. CASE buffered = <<[section |-> 8, holds |-> {}]>>
        <5>1. Len(buffered) = 1 /\ buffered[1].section = 8
          BY <4>4
        <5> QED BY <1>1, <4>1, <4>4, <5>1 DEF InFile
      <4> QED BY <4>2, <4>3, <4>4
    <3> QED BY <1>5, <2>1, <3>1 DEF OnFile, BufferOnFile
  <2>2. CASE ~ crash.callback
    BY <1>1, <1>2, <2>2 DEF WriterInv, OnFile, InFile
  <2> QED BY <2>1, <2>2
<1>11. ThreadsListed'
  <2>1. \A i \in 1 .. Len(buffered') : buffered'[i].section = 6 => buffered'[i].holds = writeThreads(crash)
    BY <1>2, <1>3, <1>4 DEF WriterInv, ThreadsListed
  <2>2. \A i \in 1 .. Len(sections') : sections'[i].section = 6 => sections'[i].holds = writeThreads(crash)
    BY <1>2, <1>5 DEF WriterInv, ThreadsListed, BufferOnFile
  <2> QED BY <1>1, <2>1, <2>2, SameCrash DEF WriterInv, ThreadsListed
<1> QED BY <1>7, <1>8, <1>9, <1>10, <1>11 DEF WriterInv

LEMMA EndReportKeeps == ASSUME WriterInv, EndReport PROVE WriterInv'
<1>1. /\ place = 11 /\ ~ wrote /\ place' = 12 /\ stopped' = {}
      /\ sections' = sections \o buffered /\ buffered' = <<>>
      /\ UNCHANGED <<userVars, crash, wrote, userInfoLocked, faulted>>
  BY OrderIs DEF EndReport, Handles, Ended
<1>2. Len(buffered) = 1 /\ buffered[1].section = 10
  BY <1>1 DEF WriterInv, InBuffer
<1>3. BufferOnFile
  BY <1>1, Flushed
<1>4. buffered' \in Seq(Entries) /\ sections' \in Seq(Entries) /\ Len(buffered') = 0
  BY <1>1, <1>3 DEF BufferOnFile
<1>5. SectionsTyped'
  <2>1. lock' \in Setters \cup {Nobody, Handler} /\ place' \in 0 .. 12
    BY <1>1 DEF WriterInv, SectionsTyped, WriterTypeOK, userVars
  <2>2. wrote' \in BOOLEAN /\ stopped' \in {stopped, {}} /\ Entries' = Entries
    BY <1>1, SameCrash DEF WriterInv, SectionsTyped, WriterTypeOK
  <2>3. UNCHANGED <<info, alive, strings, setting, got, userInfoLocked, faulted>> /\ crash' = crash
    BY <1>1 DEF userVars
  <2> QED BY <1>4, <2>1, <2>2, <2>3, TypedOfParts
<1>6. LockHeld' /\ InBuffer'
  BY <1>1, <1>4 DEF WriterInv, LockHeld, InBuffer, userVars
<1>7. OnFile'
  <2>1. \A p \in 1 .. 11 : InFile(p)' <=> InFile(p) \/ p = 10
    BY <1>1 DEF InFile
  <2> QED BY <1>2, <1>3, <2>1 DEF OnFile, BufferOnFile
<1>8. ThreadsListed'
  BY <1>1, <1>4, <1>3, SameCrash DEF WriterInv, ThreadsListed, BufferOnFile
<1> QED BY <1>5, <1>6, <1>7, <1>8 DEF WriterInv

LEMMA WriterInvNext == ASSUME WriterInv, [WriterNext]_writerVars PROVE WriterInv'
<1>1. CASE UNCHANGED writerVars
  <2>1. UNCHANGED <<userVars, reportVars, stopped>>
    BY <1>1 DEF writerVars
  <2>2. WriterTypeOK' /\ LockHeld'
    BY <2>1 DEF WriterInv, SectionsTyped, WriterTypeOK, LockHeld, userVars, reportVars
  <2> QED BY <2>1, <2>2, ReportKept
<1>2. CASE FaultInReport
  <2>1. UNCHANGED <<userVars, crash, place, wrote, userInfoLocked, buffered, sections, stopped>> /\ faulted' = TRUE
    BY <1>2 DEF FaultInReport
  <2>2. SectionsTyped'
    BY <2>1, SameCrash DEF WriterInv, SectionsTyped, WriterTypeOK, userVars
  <2>3. LockHeld' /\ InBuffer' /\ OnFile'
    BY <2>1 DEF WriterInv, LockHeld, InBuffer, OnFile, InFile, userVars
  <2>4. ThreadsListed'
    BY <2>1, SameCrash DEF WriterInv, ThreadsListed
  <2> QED BY <2>2, <2>3, <2>4 DEF WriterInv
<1>3. CASE WriterEnded
  BY <1>1, <1>3 DEF WriterEnded
<1> QED BY <1>1, <1>2, <1>3, SetterKeeps, BeginKeeps, WriteSectionKeeps, EndSectionKeeps, ResumeKeeps, LockUserKeeps,
           WriteUserKeeps, CallbackKeeps, EndReportKeeps DEF WriterNext

\* The property is what the invariant says of the file, the list and the lock.
LEMMA WriterInvEnough == ASSUME WriterInv PROVE SectionsKept
<1>1. /\ DOMAIN sections = 1 .. Len(sections) /\ DOMAIN buffered = 1 .. Len(buffered)
      /\ sections \in Seq(Entries) /\ buffered \in Seq(Entries) /\ Len(buffered) \in Nat
      /\ place \in 0 .. 12
  BY DEF WriterInv, SectionsTyped, WriterTypeOK, Ended
<1>2. \A i \in 1 .. Len(sections) : sections[i].section \in 1 .. 11
  <2>1. \A i \in 1 .. Len(sections) : sections[i] \in Entries
    BY <1>1, ElementOfSeq
  <2> QED BY <2>1 DEF Entries
<1>3. EarlierSectionsKept
  <2>1. \A p \in 1 .. 11 : p \in Passed <=>
          p < place /\ p \notin {7, 11} /\ (p = 2 => crash.images) /\ (p = 9 => crash.callback)
    BY OrderIs DEF Passed
  <2>2. \A p \in 1 .. 11 : p \in Waiting <=>
          \/ p = 10 /\ place # 12
          \/ p = 8 /\ \E i \in 1 .. Len(buffered) : buffered[i] = [section |-> 8, holds |-> {}]
    <3> DEFINE Empty(p) == \E i \in DOMAIN buffered : buffered[i] = [section |-> p, holds |-> {}]
    <3>1. Waiting = {p \in DOMAIN Order : (Order[p] = "debug" /\ place # Ended) \/ (Order[p] = "user" /\ Empty(p))}
      BY Zenon DEF Waiting
    <3> HIDE DEF Empty
    <3>2. \A p \in 1 .. 11 : p \in Waiting <=> (p = 10 /\ place # 12) \/ (p = 8 /\ Empty(8))
      BY <3>1, OrderIs DEF Ended
    <3>3. DOMAIN buffered = 1 .. Len(buffered)
      BY <1>1
    <3> QED BY <3>2, <3>3 DEF Empty
  <2>3. (\E i \in 1 .. Len(buffered) : buffered[i] = [section |-> 8, holds |-> {}])
          => place = 8 \/ (place = 9 /\ buffered = <<[section |-> 8, holds |-> {}]>>)
    BY <1>1 DEF WriterInv, InBuffer
  <2>4. buffered = <<[section |-> 8, holds |-> {}]>>
          => \E i \in 1 .. Len(buffered) : buffered[i] = [section |-> 8, holds |-> {}]
    OBVIOUS
  <2>5. \A p \in 1 .. 11 : p \in Passed \ Waiting <=> InFile(p)
    BY <2>1, <2>2, <2>3, <2>4 DEF InFile
  <2>6. Passed \subseteq 1 .. 11
    BY OrderIs DEF Passed
  <2>7. {sections[i].section : i \in DOMAIN sections} = Passed \ Waiting
    <3> DEFINE Numbers == {sections[i].section : i \in DOMAIN sections}
    <3>1. Numbers \subseteq 1 .. 11
      BY <1>1, <1>2
    <3>2. \A p \in 1 .. 11 : p \in Numbers <=> InFile(p)
      BY <1>1 DEF WriterInv, OnFile
    <3> HIDE DEF Numbers
    <3>3. Numbers = Passed \ Waiting
      BY <2>5, <2>6, <3>1, <3>2
    <3> QED BY <3>3 DEF Numbers
  <2> QED BY <1>1, <2>7 DEF WriterInv, OnFile, EarlierSectionsKept
<1>4. CrashedThreadOnce
  <2> SUFFICES ASSUME NEW i \in 1 .. Len(sections), Order[sections[i].section] = "threads"
               PROVE  \E e \in sections[i].holds : /\ e.crashed /\ e.thread = crash.thread
                                                   /\ \A d \in sections[i].holds : d.crashed => d = e
    BY <1>1 DEF CrashedThreadOnce
  <2>1. sections[i].section = 6 /\ sections[i].holds = writeThreads(crash)
    BY <1>2, OrderIs DEF WriterInv, ThreadsListed
  <2>2. place # 0
    BY <1>2, <2>1 DEF WriterInv, OnFile, InFile
  <2>3. PICK k \in DOMAIN crash.list :
          crash.list[k] = crash.thread /\ \A j \in DOMAIN crash.list : crash.list[j] = crash.thread => j = k
    BY <2>2 DEF WriterInv, ThreadsListed
  <2> DEFINE e == writeThread(crash, k)
  <2>4. e \in writeThreads(crash) /\ e.crashed /\ e.thread = crash.thread
    BY <2>3 DEF writeThreads, writeThread
  <2>5. \A d \in writeThreads(crash) : d.crashed => d = e
    <3>1. \A j \in DOMAIN crash.list : writeThread(crash, j).crashed <=> crash.list[j] = crash.thread
      BY DEF writeThread
    <3>2. \A j \in DOMAIN crash.list : writeThread(crash, j).crashed => j = k
      BY <2>3, <3>1
    <3> QED BY <3>2, Zenon DEF writeThreads
  <2> QED BY <2>1, <2>4, <2>5
<1>5. UserInfoSound
  <2>1. /\ \A t \in Setters : setting[t] \in {"locked", "freed", "set", "copy"} <=> lock = t
        /\ info \in alive \cup {NoString} \/ \E t \in Setters : setting[t] = "freed"
    BY DEF WriterInv, LockHeld
  <2>2. Handler \notin Setters
    BY WriterAssumption DEF Threads
  <2> QED BY <2>1, <2>2 DEF UserInfoSound, Inside
<1> QED BY <1>3, <1>4, <1>5 DEF SectionsKept

\* Wherever the handler faults, and whatever the application does meanwhile: the
\* file holds what has been passed, the crashed thread once among the threads,
\* and the user's JSON is never one that has been freed.
THEOREM SectionsAlwaysKept == WriterSpec => []SectionsKept
BY WriterInvInit, WriterInvNext, WriterInvEnough, PTL DEF WriterSpec
=============================================================================
