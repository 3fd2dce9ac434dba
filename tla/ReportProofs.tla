---------------------------- MODULE ReportProofs ----------------------------
(***************************************************************************)
(* Proofs about how reports come about: those of hangs, and those that the *)
(* callback of the C API writes for every other event.                     *)
(***************************************************************************)
EXTENDS KSHangMonitor, KSCrashC, TLAPS

-----------------------------------------------------------------------------
(***************************************************************************)
(* The hang monitor.                                                       *)
(* However the main thread and the watchdog thread interleave, and for any *)
(* number of hangs, the report of the hang in the slot stays on disk.      *)
(***************************************************************************)

\* Hangs are numbered in the order in which they claim the slot: what has not
\* claimed it has no report.
Numbered ==
  /\ hang <= count /\ owned <= count /\ mine <= count
  /\ \A h \in populated : h <= count
  /\ \A h \in Hangs : h > count => files[h] = "none"

\* The hang that the main thread is ending is no longer in the slot.
MovedOut == owned # NoHang => owned # hang

\* A report becomes one of a recovered hang only once its hang has left the
\* slot.
OnlyRecovered == hang # NoHang => files[hang] # "hang"

\* The watchdog thread writes the report of a hang, and not of nothing; a ping
\* that detects a hang is within the bound of the model.
Busy ==
  /\ watchdog \in {"recording", "recorded", "writing"} => mine # NoHang
  /\ watchdog = "detected" => count < MaxHangs

HangInv == TypeOK /\ Numbered /\ MovedOut /\ OnlyRecovered /\ Busy
           /\ TerminationIsReported

\* At first no hang is tracked and there is no report.
LEMMA InitHangInv == Init => HangInv
  BY HangAssumption DEF Init, HangInv, TypeOK, Numbered, MovedOut, OnlyRecovered, Busy,
     TerminationIsReported, Hangs, NoHang

\* Every step of either thread keeps the invariant.
LEMMA NextHangInv == ASSUME HangInv, [Next]_vars PROVE HangInv'
<1> USE HangAssumption DEF Hangs, NoHang
<1>1. CASE BeforeWaiting
  <2>1. TypeOK'
    BY <1>1 DEF HangInv, TypeOK, Busy, BeforeWaiting, dog
  <2>2. Numbered' /\ MovedOut'
    BY <1>1 DEF HangInv, TypeOK, Numbered, MovedOut, Busy, BeforeWaiting, dog
  <2>3. OnlyRecovered' /\ Busy'
    BY <1>1 DEF HangInv, TypeOK, Numbered, MovedOut, OnlyRecovered, Busy, BeforeWaiting, dog
  <2>4. TerminationIsReported'
    BY <1>1 DEF HangInv, TypeOK, Numbered, MovedOut, OnlyRecovered, Busy,
       TerminationIsReported, BeforeWaiting, dog
  <2>5. QED  BY <2>1, <2>2, <2>3, <2>4 DEF HangInv
<1>2. CASE EndOwnedHang
  <2>1. TypeOK'
    BY <1>2 DEF HangInv, TypeOK, Busy, EndOwnedHang, dog
  <2>2. Numbered' /\ MovedOut'
    BY <1>2 DEF HangInv, TypeOK, Numbered, MovedOut, Busy, EndOwnedHang, dog
  <2>3. OnlyRecovered' /\ Busy'
    BY <1>2 DEF HangInv, TypeOK, Numbered, MovedOut, OnlyRecovered, Busy, EndOwnedHang, dog
  <2>4. TerminationIsReported'
    BY <1>2 DEF HangInv, TypeOK, Numbered, MovedOut, OnlyRecovered, Busy,
       TerminationIsReported, EndOwnedHang, dog
  <2>5. QED  BY <2>1, <2>2, <2>3, <2>4 DEF HangInv
<1>3. CASE HangEnded
  <2>1. TypeOK'
    BY <1>3 DEF HangInv, TypeOK, Busy, HangEnded, dog
  <2>2. Numbered' /\ MovedOut'
    BY <1>3 DEF HangInv, TypeOK, Numbered, MovedOut, Busy, HangEnded, dog
  <2>3. OnlyRecovered' /\ Busy'
    BY <1>3 DEF HangInv, TypeOK, Numbered, MovedOut, OnlyRecovered, Busy, HangEnded, dog
  <2>4. TerminationIsReported'
    BY <1>3 DEF HangInv, TypeOK, Numbered, MovedOut, OnlyRecovered, Busy,
       TerminationIsReported, HangEnded, dog
  <2>5. QED  BY <2>1, <2>2, <2>3, <2>4 DEF HangInv
<1>4. CASE AfterWaiting
  <2>1. TypeOK'
    BY <1>4 DEF HangInv, TypeOK, Busy, AfterWaiting, dog
  <2>2. Numbered' /\ MovedOut'
    BY <1>4 DEF HangInv, TypeOK, Numbered, MovedOut, Busy, AfterWaiting, dog
  <2>3. OnlyRecovered' /\ Busy'
    BY <1>4 DEF HangInv, TypeOK, Numbered, MovedOut, OnlyRecovered, Busy, AfterWaiting, dog
  <2>4. TerminationIsReported'
    BY <1>4 DEF HangInv, TypeOK, Numbered, MovedOut, OnlyRecovered, Busy,
       TerminationIsReported, AfterWaiting, dog
  <2>5. QED  BY <2>1, <2>2, <2>3, <2>4 DEF HangInv
<1>5. CASE Ping
  <2>1. TypeOK'
    BY <1>5 DEF HangInv, TypeOK, Busy, Ping, main
  <2>2. Numbered' /\ MovedOut'
    BY <1>5 DEF HangInv, TypeOK, Numbered, MovedOut, Busy, Ping, main
  <2>3. OnlyRecovered' /\ Busy'
    BY <1>5 DEF HangInv, TypeOK, Numbered, MovedOut, OnlyRecovered, Busy, Ping, main
  <2>4. TerminationIsReported'
    BY <1>5 DEF HangInv, TypeOK, Numbered, MovedOut, OnlyRecovered, Busy,
       TerminationIsReported, Ping, main
  <2>5. QED  BY <2>1, <2>2, <2>3, <2>4 DEF HangInv
<1>6. CASE Claim
  <2>1. TypeOK'
    BY <1>6 DEF HangInv, TypeOK, Busy, Claim, main
  <2>2. Numbered' /\ MovedOut'
    BY <1>6 DEF HangInv, TypeOK, Numbered, MovedOut, Busy, Claim, main
  <2>3. OnlyRecovered' /\ Busy'
    BY <1>6 DEF HangInv, TypeOK, Numbered, MovedOut, OnlyRecovered, Busy, Claim, main
  <2>4. TerminationIsReported'
    BY <1>6 DEF HangInv, TypeOK, Numbered, MovedOut, OnlyRecovered, Busy,
       TerminationIsReported, Claim, main
  <2>5. QED  BY <2>1, <2>2, <2>3, <2>4 DEF HangInv
<1>7. CASE Extend
  <2>1. TypeOK'
    BY <1>7 DEF HangInv, TypeOK, Busy, Extend, main
  <2>2. Numbered' /\ MovedOut'
    BY <1>7 DEF HangInv, TypeOK, Numbered, MovedOut, Busy, Extend, main
  <2>3. OnlyRecovered' /\ Busy'
    BY <1>7 DEF HangInv, TypeOK, Numbered, MovedOut, OnlyRecovered, Busy, Extend, main
  <2>4. TerminationIsReported'
    BY <1>7 DEF HangInv, TypeOK, Numbered, MovedOut, OnlyRecovered, Busy,
       TerminationIsReported, Extend, main
  <2>5. QED  BY <2>1, <2>2, <2>3, <2>4 DEF HangInv
<1>8. CASE PopulateBegins
  <2>1. TypeOK'
    BY <1>8 DEF HangInv, TypeOK, Busy, PopulateBegins, main
  <2>2. Numbered' /\ MovedOut'
    BY <1>8 DEF HangInv, TypeOK, Numbered, MovedOut, Busy, PopulateBegins, main
  <2>3. OnlyRecovered' /\ Busy'
    BY <1>8 DEF HangInv, TypeOK, Numbered, MovedOut, OnlyRecovered, Busy, PopulateBegins, main
  <2>4. TerminationIsReported'
    BY <1>8 DEF HangInv, TypeOK, Numbered, MovedOut, OnlyRecovered, Busy,
       TerminationIsReported, PopulateBegins, main
  <2>5. QED  BY <2>1, <2>2, <2>3, <2>4 DEF HangInv
<1>9. CASE Record
  <2>1. TypeOK'
    BY <1>9 DEF HangInv, TypeOK, Busy, Record, main
  <2>2. Numbered' /\ MovedOut'
    BY <1>9 DEF HangInv, TypeOK, Numbered, MovedOut, Busy, Record, main
  <2>3. OnlyRecovered' /\ Busy'
    BY <1>9 DEF HangInv, TypeOK, Numbered, MovedOut, OnlyRecovered, Busy, Record, main
  <2>4. TerminationIsReported'
    BY <1>9 DEF HangInv, TypeOK, Numbered, MovedOut, OnlyRecovered, Busy,
       TerminationIsReported, Record, main
  <2>5. QED  BY <2>1, <2>2, <2>3, <2>4 DEF HangInv
<1>10. CASE Attach
  <2>1. TypeOK'
    BY <1>10 DEF HangInv, TypeOK, Busy, Attach, main
  <2>2. Numbered' /\ MovedOut'
    BY <1>10 DEF HangInv, TypeOK, Numbered, MovedOut, Busy, Attach, main
  <2>3. OnlyRecovered' /\ Busy'
    BY <1>10 DEF HangInv, TypeOK, Numbered, MovedOut, OnlyRecovered, Busy, Attach, main
  <2>4. TerminationIsReported'
    BY <1>10 DEF HangInv, TypeOK, Numbered, MovedOut, OnlyRecovered, Busy,
       TerminationIsReported, Attach, main
  <2>5. QED  BY <2>1, <2>2, <2>3, <2>4 DEF HangInv
<1>11. CASE UpdateBegins
  <2>1. TypeOK'
    BY <1>11 DEF HangInv, TypeOK, Busy, UpdateBegins, main
  <2>2. Numbered' /\ MovedOut'
    BY <1>11 DEF HangInv, TypeOK, Numbered, MovedOut, Busy, UpdateBegins, main
  <2>3. OnlyRecovered' /\ Busy'
    BY <1>11 DEF HangInv, TypeOK, Numbered, MovedOut, OnlyRecovered, Busy, UpdateBegins, main
  <2>4. TerminationIsReported'
    BY <1>11 DEF HangInv, TypeOK, Numbered, MovedOut, OnlyRecovered, Busy,
       TerminationIsReported, UpdateBegins, main
  <2>5. QED  BY <2>1, <2>2, <2>3, <2>4 DEF HangInv
<1>12. CASE WriteUpdated
  <2>1. TypeOK'
    BY <1>12 DEF HangInv, TypeOK, Busy, WriteUpdated, main
  <2>2. Numbered' /\ MovedOut'
    BY <1>12 DEF HangInv, TypeOK, Numbered, MovedOut, Busy, WriteUpdated, main
  <2>3. OnlyRecovered' /\ Busy'
    BY <1>12 DEF HangInv, TypeOK, Numbered, MovedOut, OnlyRecovered, Busy, WriteUpdated, main
  <2>4. TerminationIsReported'
    BY <1>12 DEF HangInv, TypeOK, Numbered, MovedOut, OnlyRecovered, Busy,
       TerminationIsReported, WriteUpdated, main
  <2>5. QED  BY <2>1, <2>2, <2>3, <2>4 DEF HangInv
<1>13. CASE PingEnds
  <2>1. TypeOK'
    BY <1>13 DEF HangInv, TypeOK, Busy, PingEnds
  <2>2. Numbered' /\ MovedOut'
    BY <1>13 DEF HangInv, TypeOK, Numbered, MovedOut, Busy, PingEnds
  <2>3. OnlyRecovered' /\ Busy'
    BY <1>13 DEF HangInv, TypeOK, Numbered, MovedOut, OnlyRecovered, Busy, PingEnds
  <2>4. TerminationIsReported'
    BY <1>13 DEF HangInv, TypeOK, Numbered, MovedOut, OnlyRecovered, Busy,
       TerminationIsReported, PingEnds
  <2>5. QED  BY <2>1, <2>2, <2>3, <2>4 DEF HangInv
<1>14. CASE Disable
  <2>1. TypeOK'
    BY <1>14 DEF HangInv, TypeOK, Busy, Disable
  <2>2. Numbered' /\ MovedOut'
    BY <1>14 DEF HangInv, TypeOK, Numbered, MovedOut, Busy, Disable
  <2>3. OnlyRecovered' /\ Busy'
    BY <1>14 DEF HangInv, TypeOK, Numbered, MovedOut, OnlyRecovered, Busy, Disable
  <2>4. TerminationIsReported'
    BY <1>14 DEF HangInv, TypeOK, Numbered, MovedOut, OnlyRecovered, Busy,
       TerminationIsReported, Disable
  <2>5. QED  BY <2>1, <2>2, <2>3, <2>4 DEF HangInv
<1>15. CASE UNCHANGED vars
  BY <1>15 DEF HangInv, TypeOK, Numbered, MovedOut, OnlyRecovered, Busy,
     TerminationIsReported, vars, main, dog
<1>16. QED
  BY <1>1, <1>2, <1>3, <1>4, <1>5, <1>6, <1>7, <1>8,
     <1>9, <1>10, <1>11, <1>12, <1>13, <1>14, <1>15 DEF Next, Watchdog, Stopped

\* _hang, _watchdogTimer and the report files are of the stated types.
THEOREM HangTypeCorrect == Spec => []TypeOK
<1>1. HangInv => TypeOK
  BY DEF HangInv
<1>2. QED  BY <1>1, InitHangInv, NextHangInv, PTL DEF Spec

\* "if the app is terminated due to the hang, the report is on disk": for any
\* number of hangs, the hang in the slot keeps its report from the moment it
\* is attached until the main thread takes the hang out of the slot.
THEOREM HangKeepsReport == Spec => []TerminationIsReported
<1>1. HangInv => TerminationIsReported
  BY DEF HangInv
<1>2. QED  BY <1>1, InitHangInv, NextHangInv, PTL DEF Spec

-----------------------------------------------------------------------------
(***************************************************************************)
(* The callback of an event, for any number of threads and of reports:     *)
(* who writes into which file, before and after a handler has faulted.     *)
(***************************************************************************)

\* IDs are handed out one after the other, and each to one handler.
Numbers ==
  /\ lastPath < next
  /\ \A t \in Threads : id[t] < next
  /\ \A t, u \in Threads : id[t] = id[u] /\ id[t] # NoPath => t = u

\* Until a handler faults, a file has one report, that of its path, and is
\* where its handler is; there is none before it has been opened.
Unfaulted ==
  ~faulted =>
    /\ old = {}
    /\ \A p \in IDs : disk[p] \in {{}, {p}} /\ (p >= next => disk[p] = {})
    /\ \A t \in Threads :
         /\ pc[t] \in {"naming", "opening"} => disk[id[t]] = {}
         /\ pc[t] \in {"writing", "resumed", "written", "told"} /\ id[t] # NoPath => disk[id[t]] = {id[t]}
         /\ pc[t] \in {"written", "told"} /\ id[t] # NoPath => id[t] \in complete

\* One handler faults; no further one begins, and the process ends with it.
OneFault ==
  /\ \A t \in Threads : pc[t] \in Recrashed \cup {"closed"} =>
       faulted /\ \A u \in Threads \ {t} : pc[u] \notin Recrashed \cup {"closed"}
  /\ \A t \in Threads : pc[t] = "closed" => ended
  /\ \A t \in Threads : pc[t] = "recrash" => old = {}
  /\ \A t \in Threads : pc[t] \in {"merge", "close"} => lastPath # NoPath

\* Where the report of the handler that has faulted is, if the path is still its own
Merging ==
  \A t \in Threads : lastPath = id[t] /\ id[t] # NoPath =>
    /\ pc[t] = "reopen" => disk[lastPath] = {} /\ {id[t]} \cap before \subseteq old
    /\ pc[t] = "merge" => Recrash \in disk[lastPath] /\ {id[t]} \cap before \subseteq old
    /\ pc[t] = "close" => old = {} /\ {Recrash} \cup ({id[t]} \cap before) \subseteq disk[lastPath]

\* The report of the handler that has faulted is in its file.
InFile == \A t \in Threads : pc[t] = "recrash" /\ id[t] \in before => id[t] # NoPath /\ id[t] \in disk[id[t]]

EventInv ==
  /\ EventTypeOK /\ Numbers /\ Unfaulted /\ OneFault /\ Merging /\ InFile
  /\ WrittenSurvives /\ RecrashMerged

\* Before the first event
LEMMA EventInvInit == ASSUME EventInit PROVE EventInv
<1> USE EventAssumption DEF EventInit, IDs, NoPath, Recrash
<1>1. EventTypeOK
  <2>1. disk \in [IDs -> SUBSET (IDs \cup {Recrash})] /\ next \in 1 .. MaxReports + 1
    OBVIOUS
  <2>2. faulted \in BOOLEAN /\ ended \in BOOLEAN
    OBVIOUS
  <2> QED BY <2>1, <2>2 DEF EventTypeOK, Early, Late
<1>2. Numbers /\ Unfaulted /\ OneFault
  BY DEF Numbers, Unfaulted, OneFault, Recrashed
<1>3. Merging /\ InFile /\ WrittenSurvives /\ RecrashMerged
  BY DEF Merging, InFile, WrittenSurvives, RecrashMerged
<1> QED BY <1>1, <1>2, <1>3 DEF EventInv

\* A step of one handler, and what it may disturb of another's report
LEMMA EventInvNext == ASSUME EventInv, [EventNext]_eventVars PROVE EventInv'
<1> USE EventAssumption DEF IDs, NoPath, Recrash, At, CanRun, GoesTo, reportFiles, handler, process
<1>1. ASSUME NEW t \in Threads, Begin(t) PROVE EventInv'
  <2>1. EventTypeOK'
    BY <1>1 DEF EventInv, EventTypeOK, Early, Late, Recrashed, Begin
  <2>2. Numbers'
    BY <1>1 DEF EventInv, Numbers, EventTypeOK, Begin
  <2>3. Unfaulted'
    BY <1>1 DEF EventInv, Unfaulted, EventTypeOK, Numbers, OneFault, Recrashed, Begin
  <2>4. OneFault'
    BY <1>1 DEF EventInv, OneFault, EventTypeOK, Unfaulted, Recrashed, Early, Late, Begin
  <2>5. Merging'
    BY <1>1 DEF EventInv, Merging, EventTypeOK, Numbers, OneFault, InFile, Recrashed, Begin
  <2>6. InFile'
    BY <1>1 DEF EventInv, InFile, EventTypeOK, Unfaulted, Numbers, OneFault, Contents, Recrashed, Begin
  <2>7. WrittenSurvives'
    BY <1>1 DEF EventInv, WrittenSurvives, EventTypeOK, OneFault, Contents, Unfaulted, Begin
  <2>8. RecrashMerged'
    BY <1>1 DEF EventInv, RecrashMerged, EventTypeOK, Merging, OneFault, Numbers, Recrashed, Begin
  <2> QED BY <2>1, <2>2, <2>3, <2>4, <2>5, <2>6, <2>7, <2>8 DEF EventInv
<1>2. ASSUME NEW t \in Threads, WillWrite(t) PROVE EventInv'
  <2>1. EventTypeOK'
    BY <1>2 DEF EventInv, EventTypeOK, Early, Late, Recrashed, WillWrite
  <2>2. Numbers'
    BY <1>2 DEF EventInv, Numbers, EventTypeOK, WillWrite
  <2>3. Unfaulted'
    BY <1>2 DEF EventInv, Unfaulted, EventTypeOK, Numbers, OneFault, Recrashed, WillWrite
  <2>4. OneFault'
    BY <1>2 DEF EventInv, OneFault, EventTypeOK, Unfaulted, Recrashed, Early, Late, WillWrite
  <2>5. Merging'
    BY <1>2 DEF EventInv, Merging, EventTypeOK, Numbers, OneFault, InFile, Recrashed, WillWrite
  <2>6. InFile'
    BY <1>2 DEF EventInv, InFile, EventTypeOK, Unfaulted, Numbers, OneFault, Contents, Recrashed, WillWrite
  <2>7. WrittenSurvives'
    BY <1>2 DEF EventInv, WrittenSurvives, EventTypeOK, OneFault, Contents, Unfaulted, WillWrite
  <2>8. RecrashMerged'
    BY <1>2 DEF EventInv, RecrashMerged, EventTypeOK, Merging, OneFault, Numbers, Recrashed, WillWrite
  <2> QED BY <2>1, <2>2, <2>3, <2>4, <2>5, <2>6, <2>7, <2>8 DEF EventInv
<1>3. ASSUME NEW t \in Threads, TakeID(t) PROVE EventInv'
  <2>1. EventTypeOK'
    BY <1>3 DEF EventInv, EventTypeOK, Early, Late, Recrashed, TakeID
  <2>2. Numbers'
    BY <1>3 DEF EventInv, Numbers, EventTypeOK, TakeID
  <2>3. Unfaulted'
    BY <1>3 DEF EventInv, Unfaulted, EventTypeOK, Numbers, OneFault, Recrashed, TakeID
  <2>4. OneFault'
    BY <1>3 DEF EventInv, OneFault, EventTypeOK, Unfaulted, Recrashed, Early, Late, TakeID
  <2>5. Merging'
    BY <1>3 DEF EventInv, Merging, EventTypeOK, Numbers, OneFault, InFile, Recrashed, TakeID
  <2>6. InFile'
    BY <1>3 DEF EventInv, InFile, EventTypeOK, Unfaulted, Numbers, OneFault, Contents, Recrashed, TakeID
  <2>7. WrittenSurvives'
    BY <1>3 DEF EventInv, WrittenSurvives, EventTypeOK, OneFault, Contents, Unfaulted, TakeID
  <2>8. RecrashMerged'
    BY <1>3 DEF EventInv, RecrashMerged, EventTypeOK, Merging, OneFault, Numbers, Recrashed, TakeID
  <2> QED BY <2>1, <2>2, <2>3, <2>4, <2>5, <2>6, <2>7, <2>8 DEF EventInv
<1>4. ASSUME NEW t \in Threads, StorePath(t) PROVE EventInv'
  <2>1. EventTypeOK'
    BY <1>4 DEF EventInv, EventTypeOK, Early, Late, Recrashed, StorePath
  <2>2. Numbers'
    BY <1>4 DEF EventInv, Numbers, EventTypeOK, StorePath
  <2>3. Unfaulted'
    BY <1>4 DEF EventInv, Unfaulted, EventTypeOK, Numbers, OneFault, Recrashed, StorePath
  <2>4. OneFault'
    BY <1>4 DEF EventInv, OneFault, EventTypeOK, Unfaulted, Recrashed, Early, Late, StorePath
  <2>5. Merging'
    BY <1>4 DEF EventInv, Merging, EventTypeOK, Numbers, OneFault, InFile, Recrashed, StorePath
  <2>6. InFile'
    BY <1>4 DEF EventInv, InFile, EventTypeOK, Unfaulted, Numbers, OneFault, Contents, Recrashed, StorePath
  <2>7. WrittenSurvives'
    BY <1>4 DEF EventInv, WrittenSurvives, EventTypeOK, OneFault, Contents, Unfaulted, StorePath
  <2>8. RecrashMerged'
    BY <1>4 DEF EventInv, RecrashMerged, EventTypeOK, Merging, OneFault, Numbers, Recrashed, StorePath
  <2> QED BY <2>1, <2>2, <2>3, <2>4, <2>5, <2>6, <2>7, <2>8 DEF EventInv
<1>5. ASSUME NEW t \in Threads, Open(t) PROVE EventInv'
  <2>1. EventTypeOK'
    BY <1>5 DEF EventInv, EventTypeOK, Early, Late, Recrashed, Open
  <2>2. Numbers'
    BY <1>5 DEF EventInv, Numbers, EventTypeOK, Open
  <2>3. Unfaulted'
    <3> SUFFICES ASSUME ~faulted PROVE Unfaulted'
      BY <1>5 DEF Unfaulted, Open
    <3>1. id[t] \in IDs /\ disk[id[t]] = {} /\ pc[t] = "opening"
      BY <1>5 DEF EventInv, EventTypeOK, Unfaulted, Open, Late
    <3>2. /\ disk' = [disk EXCEPT ![id[t]] = {id[t]}] /\ pc' = [pc EXCEPT ![t] = "writing"]
          /\ UNCHANGED <<id, old, complete, next, faulted>>
      BY <1>5, <3>1 DEF Open
    <3>3. \A p \in IDs : disk'[p] \in {{}, {p}} /\ (p >= next => disk'[p] = {})
      BY <3>1, <3>2 DEF EventInv, EventTypeOK, Unfaulted, Numbers
    <3>4. ASSUME NEW u \in Threads PROVE
          /\ pc'[u] \in {"naming", "opening"} => disk'[id[u]] = {}
          /\ pc'[u] \in {"writing", "resumed", "written", "told"} /\ id[u] # NoPath => disk'[id[u]] = {id[u]}
          /\ pc'[u] \in {"written", "told"} /\ id[u] # NoPath => id[u] \in complete
      <4>1. CASE u = t
        BY <3>1, <3>2, <4>1 DEF EventInv, EventTypeOK
      <4>2. CASE u # t
        <5>1. pc'[u] = pc[u] /\ id[u] # id[t] /\ disk'[id[u]] = disk[id[u]]
          BY <3>1, <3>2, <4>2 DEF EventInv, EventTypeOK, Numbers
        <5> QED BY <5>1 DEF EventInv, Unfaulted
      <4> QED BY <4>1, <4>2
    <3> QED BY <3>2, <3>3, <3>4 DEF EventInv, Unfaulted
  <2>4. OneFault'
    BY <1>5 DEF EventInv, OneFault, EventTypeOK, Unfaulted, Recrashed, Early, Late, Open
  <2>5. Merging'
    BY <1>5 DEF EventInv, Merging, EventTypeOK, Numbers, OneFault, InFile, Recrashed, Open
  <2>6. InFile'
    BY <1>5 DEF EventInv, InFile, EventTypeOK, Unfaulted, Numbers, OneFault, Contents, Recrashed, Open
  <2>7. WrittenSurvives'
    BY <1>5 DEF EventInv, WrittenSurvives, EventTypeOK, OneFault, Contents, Unfaulted, Open
  <2>8. RecrashMerged'
    BY <1>5 DEF EventInv, RecrashMerged, EventTypeOK, Merging, OneFault, Numbers, Recrashed, Open
  <2> QED BY <2>1, <2>2, <2>3, <2>4, <2>5, <2>6, <2>7, <2>8 DEF EventInv
<1>6. ASSUME NEW t \in Threads, Resume(t) PROVE EventInv'
  <2>1. EventTypeOK'
    BY <1>6 DEF EventInv, EventTypeOK, Early, Late, Recrashed, Resume
  <2>2. Numbers'
    BY <1>6 DEF EventInv, Numbers, EventTypeOK, Resume
  <2>3. Unfaulted'
    BY <1>6 DEF EventInv, Unfaulted, EventTypeOK, Numbers, OneFault, Recrashed, Resume
  <2>4. OneFault'
    BY <1>6 DEF EventInv, OneFault, EventTypeOK, Unfaulted, Recrashed, Early, Late, Resume
  <2>5. Merging'
    BY <1>6 DEF EventInv, Merging, EventTypeOK, Numbers, OneFault, InFile, Recrashed, Resume
  <2>6. InFile'
    BY <1>6 DEF EventInv, InFile, EventTypeOK, Unfaulted, Numbers, OneFault, Contents, Recrashed, Resume
  <2>7. WrittenSurvives'
    BY <1>6 DEF EventInv, WrittenSurvives, EventTypeOK, OneFault, Contents, Unfaulted, Resume
  <2>8. RecrashMerged'
    BY <1>6 DEF EventInv, RecrashMerged, EventTypeOK, Merging, OneFault, Numbers, Recrashed, Resume
  <2> QED BY <2>1, <2>2, <2>3, <2>4, <2>5, <2>6, <2>7, <2>8 DEF EventInv
<1>7. ASSUME NEW t \in Threads, Close(t) PROVE EventInv'
  <2>1. EventTypeOK'
    BY <1>7 DEF EventInv, EventTypeOK, Early, Late, Recrashed, Close
  <2>2. Numbers'
    BY <1>7 DEF EventInv, Numbers, EventTypeOK, Close
  <2>3. Unfaulted'
    BY <1>7 DEF EventInv, Unfaulted, EventTypeOK, Numbers, OneFault, Recrashed, Close
  <2>4. OneFault'
    BY <1>7 DEF EventInv, OneFault, EventTypeOK, Unfaulted, Recrashed, Early, Late, Close
  <2>5. Merging'
    BY <1>7 DEF EventInv, Merging, EventTypeOK, Numbers, OneFault, InFile, Recrashed, Close
  <2>6. InFile'
    BY <1>7 DEF EventInv, InFile, EventTypeOK, Unfaulted, Numbers, OneFault, Contents, Recrashed, Close
  <2>7. WrittenSurvives'
    BY <1>7 DEF EventInv, WrittenSurvives, EventTypeOK, OneFault, Contents, Unfaulted, Close
  <2>8. RecrashMerged'
    BY <1>7 DEF EventInv, RecrashMerged, EventTypeOK, Merging, OneFault, Numbers, Recrashed, Close
  <2> QED BY <2>1, <2>2, <2>3, <2>4, <2>5, <2>6, <2>7, <2>8 DEF EventInv
<1>8. ASSUME NEW t \in Threads, SetResult(t) PROVE EventInv'
  <2>1. EventTypeOK'
    BY <1>8 DEF EventInv, EventTypeOK, Early, Late, Recrashed, SetResult
  <2>2. Numbers'
    BY <1>8 DEF EventInv, Numbers, EventTypeOK, SetResult
  <2>3. Unfaulted'
    BY <1>8 DEF EventInv, Unfaulted, EventTypeOK, Numbers, OneFault, Recrashed, SetResult
  <2>4. OneFault'
    BY <1>8 DEF EventInv, OneFault, EventTypeOK, Unfaulted, Recrashed, Early, Late, SetResult
  <2>5. Merging'
    BY <1>8 DEF EventInv, Merging, EventTypeOK, Numbers, OneFault, InFile, Recrashed, SetResult
  <2>6. InFile'
    BY <1>8 DEF EventInv, InFile, EventTypeOK, Unfaulted, Numbers, OneFault, Contents, Recrashed, SetResult
  <2>7. WrittenSurvives'
    BY <1>8 DEF EventInv, WrittenSurvives, EventTypeOK, OneFault, Contents, Unfaulted, SetResult
  <2>8. RecrashMerged'
    BY <1>8 DEF EventInv, RecrashMerged, EventTypeOK, Merging, OneFault, Numbers, Recrashed, SetResult
  <2> QED BY <2>1, <2>2, <2>3, <2>4, <2>5, <2>6, <2>7, <2>8 DEF EventInv
<1>9. ASSUME NEW t \in Threads, Returns(t) PROVE EventInv'
  <2>1. EventTypeOK'
    BY <1>9 DEF EventInv, EventTypeOK, Early, Late, Recrashed, Returns
  <2>2. Numbers'
    BY <1>9 DEF EventInv, Numbers, EventTypeOK, Returns
  <2>3. Unfaulted'
    BY <1>9 DEF EventInv, Unfaulted, EventTypeOK, Numbers, OneFault, Recrashed, Returns
  <2>4. OneFault'
    BY <1>9 DEF EventInv, OneFault, EventTypeOK, Unfaulted, Recrashed, Early, Late, Returns
  <2>5. Merging'
    BY <1>9 DEF EventInv, Merging, EventTypeOK, Numbers, OneFault, InFile, Recrashed, Returns
  <2>6. InFile'
    BY <1>9 DEF EventInv, InFile, EventTypeOK, Unfaulted, Numbers, OneFault, Contents, Recrashed, Returns
  <2>7. WrittenSurvives'
    BY <1>9 DEF EventInv, WrittenSurvives, EventTypeOK, OneFault, Contents, Unfaulted, Returns
  <2>8. RecrashMerged'
    BY <1>9 DEF EventInv, RecrashMerged, EventTypeOK, Merging, OneFault, Numbers, Recrashed, Returns
  <2> QED BY <2>1, <2>2, <2>3, <2>4, <2>5, <2>6, <2>7, <2>8 DEF EventInv
<1>10. ASSUME NEW t \in Threads, Fault(t) PROVE EventInv'
  <2>1. EventTypeOK'
    BY <1>10 DEF EventInv, EventTypeOK, Early, Late, Recrashed, Unfaulted, Contents, Fault
  <2>2. Numbers'
    BY <1>10 DEF EventInv, Numbers, EventTypeOK, Fault
  <2>3. Unfaulted'
    BY <1>10 DEF EventInv, Unfaulted, EventTypeOK, Numbers, OneFault, Recrashed, Fault
  <2>4. OneFault'
    BY <1>10 DEF EventInv, OneFault, EventTypeOK, Unfaulted, Recrashed, Early, Late, Fault
  <2>5. Merging'
    BY <1>10 DEF EventInv, Merging, EventTypeOK, Numbers, OneFault, InFile, Recrashed, Fault
  <2>6. InFile'
    BY <1>10 DEF EventInv, InFile, EventTypeOK, Unfaulted, Numbers, OneFault, Contents, Recrashed, Fault
  <2>7. WrittenSurvives'
    BY <1>10 DEF EventInv, WrittenSurvives, EventTypeOK, OneFault, Contents, Unfaulted, Fault
  <2>8. RecrashMerged'
    BY <1>10 DEF EventInv, RecrashMerged, EventTypeOK, Merging, OneFault, Numbers, Recrashed, Fault
  <2> QED BY <2>1, <2>2, <2>3, <2>4, <2>5, <2>6, <2>7, <2>8 DEF EventInv
<1>11. ASSUME NEW t \in Threads, RecrashRename(t) PROVE EventInv'
  <2>1. EventTypeOK'
    <3>1. disk' \in [IDs -> SUBSET (IDs \cup {Recrash})] /\ old' \subseteq IDs \cup {Recrash}
      <4>1. CASE lastPath = NoPath
        BY <1>11, <4>1 DEF EventInv, EventTypeOK, RecrashRename
      <4>2. CASE lastPath # NoPath
        <5>1. lastPath \in IDs /\ disk[lastPath] \in SUBSET (IDs \cup {Recrash})
          BY <4>2 DEF EventInv, EventTypeOK
        <5>2. disk' = [disk EXCEPT ![lastPath] = {}] /\ old' = disk[lastPath]
          BY <1>11, <4>2 DEF RecrashRename
        <5> QED BY <5>1, <5>2 DEF EventInv, EventTypeOK
      <4> QED BY <4>1, <4>2
    <3>2. complete' \subseteq IDs
      BY <1>11 DEF EventInv, EventTypeOK, OneFault, RecrashRename
    <3>3. pc' \in [Threads -> Early \cup Late \cup Recrashed \cup {"idle", "closed"}]
      BY <1>11 DEF EventInv, EventTypeOK, Recrashed, RecrashRename
    <3>4. \A u \in Threads : pc'[u] \in Late \cup {"naming"} => id'[u] \in IDs
      BY <1>11 DEF EventInv, EventTypeOK, Late, RecrashRename
    <3>5. ended' \in BOOLEAN
      BY <1>11 DEF EventInv, EventTypeOK, RecrashRename
    <3> QED BY <1>11, <3>1, <3>2, <3>3, <3>4, <3>5 DEF EventInv, EventTypeOK, RecrashRename
  <2>2. Numbers'
    BY <1>11 DEF EventInv, Numbers, EventTypeOK, RecrashRename
  <2>3. Unfaulted'
    BY <1>11 DEF EventInv, Unfaulted, EventTypeOK, Numbers, OneFault, Recrashed, RecrashRename
  <2>4. OneFault'
    BY <1>11 DEF EventInv, OneFault, EventTypeOK, Unfaulted, Recrashed, Early, Late, RecrashRename
  <2>5. Merging'
    BY <1>11 DEF EventInv, Merging, EventTypeOK, Numbers, OneFault, InFile, Recrashed, RecrashRename
  <2>6. InFile'
    BY <1>11 DEF EventInv, InFile, EventTypeOK, Unfaulted, Numbers, OneFault, Contents, Recrashed, RecrashRename
  <2>7. WrittenSurvives'
    BY <1>11 DEF EventInv, WrittenSurvives, EventTypeOK, OneFault, Contents, Unfaulted, RecrashRename
  <2>8. RecrashMerged'
    BY <1>11 DEF EventInv, RecrashMerged, EventTypeOK, Merging, OneFault, Numbers, Recrashed, RecrashRename
  <2> QED BY <2>1, <2>2, <2>3, <2>4, <2>5, <2>6, <2>7, <2>8 DEF EventInv
<1>12. ASSUME NEW t \in Threads, RecrashOpen(t) PROVE EventInv'
  <2>1. EventTypeOK'
    <3>1. disk' \in [IDs -> SUBSET (IDs \cup {Recrash})] /\ old' \subseteq IDs \cup {Recrash}
      BY <1>12 DEF EventInv, EventTypeOK, RecrashOpen
    <3>2. complete' \subseteq IDs
      BY <1>12 DEF EventInv, EventTypeOK, OneFault, RecrashOpen
    <3>3. pc' \in [Threads -> Early \cup Late \cup Recrashed \cup {"idle", "closed"}]
      BY <1>12 DEF EventInv, EventTypeOK, Recrashed, RecrashOpen
    <3>4. \A u \in Threads : pc'[u] \in Late \cup {"naming"} => id'[u] \in IDs
      BY <1>12 DEF EventInv, EventTypeOK, Late, RecrashOpen
    <3>5. ended' \in BOOLEAN
      BY <1>12 DEF EventInv, EventTypeOK, RecrashOpen
    <3> QED BY <1>12, <3>1, <3>2, <3>3, <3>4, <3>5 DEF EventInv, EventTypeOK, RecrashOpen
  <2>2. Numbers'
    BY <1>12 DEF EventInv, Numbers, EventTypeOK, RecrashOpen
  <2>3. Unfaulted'
    BY <1>12 DEF EventInv, Unfaulted, EventTypeOK, Numbers, OneFault, Recrashed, RecrashOpen
  <2>4. OneFault'
    BY <1>12 DEF EventInv, OneFault, EventTypeOK, Unfaulted, Recrashed, Early, Late, RecrashOpen
  <2>5. Merging'
    BY <1>12 DEF EventInv, Merging, EventTypeOK, Numbers, OneFault, InFile, Recrashed, RecrashOpen
  <2>6. InFile'
    BY <1>12 DEF EventInv, InFile, EventTypeOK, Unfaulted, Numbers, OneFault, Contents, Recrashed, RecrashOpen
  <2>7. WrittenSurvives'
    <3>1. old' = old /\ before' = before
      BY <1>12 DEF RecrashOpen
    <3>2. \A p \in IDs : disk[p] \subseteq disk'[p]
      BY <1>12 DEF EventInv, EventTypeOK, RecrashOpen
    <3> QED BY <3>1, <3>2 DEF EventInv, WrittenSurvives, Contents
  <2>8. RecrashMerged'
    BY <1>12 DEF EventInv, RecrashMerged, EventTypeOK, Merging, OneFault, Numbers, Recrashed, RecrashOpen
  <2> QED BY <2>1, <2>2, <2>3, <2>4, <2>5, <2>6, <2>7, <2>8 DEF EventInv
<1>13. ASSUME NEW t \in Threads, RecrashMerge(t) PROVE EventInv'
  <2>1. EventTypeOK'
    BY <1>13 DEF EventInv, EventTypeOK, Early, Late, Recrashed, RecrashMerge
  <2>2. Numbers'
    BY <1>13 DEF EventInv, Numbers, EventTypeOK, RecrashMerge
  <2>3. Unfaulted'
    BY <1>13 DEF EventInv, Unfaulted, EventTypeOK, Numbers, OneFault, Recrashed, RecrashMerge
  <2>4. OneFault'
    BY <1>13 DEF EventInv, OneFault, EventTypeOK, Unfaulted, Recrashed, Early, Late, RecrashMerge
  <2>5. Merging'
    BY <1>13 DEF EventInv, Merging, EventTypeOK, Numbers, OneFault, InFile, Recrashed, RecrashMerge
  <2>6. InFile'
    BY <1>13 DEF EventInv, InFile, EventTypeOK, Unfaulted, Numbers, OneFault, Contents, Recrashed, RecrashMerge
  <2>7. WrittenSurvives'
    BY <1>13 DEF EventInv, WrittenSurvives, EventTypeOK, OneFault, Contents, Unfaulted, RecrashMerge
  <2>8. RecrashMerged'
    BY <1>13 DEF EventInv, RecrashMerged, EventTypeOK, Merging, OneFault, Numbers, Recrashed, RecrashMerge
  <2> QED BY <2>1, <2>2, <2>3, <2>4, <2>5, <2>6, <2>7, <2>8 DEF EventInv
<1>14. ASSUME NEW t \in Threads, RecrashClose(t) PROVE EventInv'
  <2>1. EventTypeOK'
    <3>1. disk' \in [IDs -> SUBSET (IDs \cup {Recrash})] /\ old' \subseteq IDs \cup {Recrash}
      BY <1>14 DEF EventInv, EventTypeOK, RecrashClose
    <3>2. complete' \subseteq IDs
      BY <1>14 DEF EventInv, EventTypeOK, OneFault, RecrashClose
    <3>3. pc' \in [Threads -> Early \cup Late \cup Recrashed \cup {"idle", "closed"}]
      BY <1>14 DEF EventInv, EventTypeOK, Recrashed, RecrashClose
    <3>4. \A u \in Threads : pc'[u] \in Late \cup {"naming"} => id'[u] \in IDs
      BY <1>14 DEF EventInv, EventTypeOK, Late, RecrashClose
    <3>5. ended' \in BOOLEAN
      BY <1>14 DEF EventInv, EventTypeOK, RecrashClose
    <3> QED BY <1>14, <3>1, <3>2, <3>3, <3>4, <3>5 DEF EventInv, EventTypeOK, RecrashClose
  <2>2. Numbers'
    BY <1>14 DEF EventInv, Numbers, EventTypeOK, RecrashClose
  <2>3. Unfaulted'
    BY <1>14 DEF EventInv, Unfaulted, EventTypeOK, Numbers, OneFault, Recrashed, RecrashClose
  <2>4. OneFault'
    BY <1>14 DEF EventInv, OneFault, EventTypeOK, Unfaulted, Recrashed, Early, Late, RecrashClose
  <2>5. Merging'
    BY <1>14 DEF EventInv, Merging, EventTypeOK, Numbers, OneFault, InFile, Recrashed, RecrashClose
  <2>6. InFile'
    BY <1>14 DEF EventInv, InFile, EventTypeOK, Unfaulted, Numbers, OneFault, Contents, Recrashed, RecrashClose
  <2>7. WrittenSurvives'
    BY <1>14 DEF EventInv, WrittenSurvives, EventTypeOK, OneFault, Contents, Unfaulted, RecrashClose
  <2>8. RecrashMerged'
    BY <1>14 DEF EventInv, RecrashMerged, EventTypeOK, Merging, OneFault, Numbers, Recrashed, RecrashClose
  <2> QED BY <2>1, <2>2, <2>3, <2>4, <2>5, <2>6, <2>7, <2>8 DEF EventInv
<1>15. ASSUME NEW t \in Threads, CrashLoop(t) PROVE EventInv'
  <2>1. EventTypeOK'
    BY <1>15 DEF EventInv, EventTypeOK, Early, Late, Recrashed, CrashLoop
  <2>2. Numbers'
    BY <1>15 DEF EventInv, Numbers, EventTypeOK, CrashLoop
  <2>3. Unfaulted'
    BY <1>15 DEF EventInv, Unfaulted, EventTypeOK, Numbers, OneFault, Recrashed, CrashLoop
  <2>4. OneFault'
    BY <1>15 DEF EventInv, OneFault, EventTypeOK, Unfaulted, Recrashed, Early, Late, CrashLoop
  <2>5. Merging'
    BY <1>15 DEF EventInv, Merging, EventTypeOK, Numbers, OneFault, InFile, Recrashed, CrashLoop
  <2>6. InFile'
    BY <1>15 DEF EventInv, InFile, EventTypeOK, Unfaulted, Numbers, OneFault, Contents, Recrashed, CrashLoop
  <2>7. WrittenSurvives'
    BY <1>15 DEF EventInv, WrittenSurvives, EventTypeOK, OneFault, Contents, Unfaulted, CrashLoop
  <2>8. RecrashMerged'
    BY <1>15 DEF EventInv, RecrashMerged, EventTypeOK, Merging, OneFault, Numbers, Recrashed, CrashLoop
  <2> QED BY <2>1, <2>2, <2>3, <2>4, <2>5, <2>6, <2>7, <2>8 DEF EventInv
<1>20. CASE UNCHANGED eventVars
  BY <1>20 DEF eventVars, handler, EventInv, EventTypeOK, Numbers, Unfaulted, OneFault, Merging, InFile, WrittenSurvives, RecrashMerged, Contents
<1> QED BY <1>1, <1>2, <1>3, <1>4, <1>5, <1>6, <1>7, <1>8, <1>9, <1>10, <1>11, <1>12, <1>13, <1>14, <1>15, <1>20 DEF EventNext, Done

\* Until a handler faults there is a report behind every ID: Unfaulted
LEMMA EventInvReports == ASSUME EventInv PROVE ReportsKept
BY DEF EventInv, ReportsKept, ReportBehindID, Unfaulted

\* onExceptionEvent() and kscrashreport_writeRecrashReport(), on any number of
\* threads: until a handler faults, an ID that is told to the application has its
\* own, complete report behind it; from then on nothing that had been written is
\* lost, and over the path of its own report a fault's report has both.
THEOREM ReportsAlwaysKept == EventSpec => []ReportsKept
<1>1. EventInit => EventInv
  BY EventInvInit
<1>2. EventInv /\ [EventNext]_eventVars => EventInv'
  BY EventInvNext
<1>3. EventInv => ReportsKept
  BY EventInvReports
<1> QED BY <1>1, <1>2, <1>3, PTL DEF EventSpec
=============================================================================
