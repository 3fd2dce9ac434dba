--------------------- MODULE KSCrashMonitor_MemoryProofs ---------------------
(***************************************************************************)
(* For any number of sessions and any limit: whatever cuts a launch short, *)
(* the data and the breadcrumb that a session leaves behind are enough to  *)
(* report each out-of-memory termination that is due, once.                *)
(***************************************************************************)
EXTENDS KSCrashMonitor_Memory, TLAPS

Early == {"initialized", "mapped", "enabled"}  \* before the check

\* The data in memory.bin is the present session's, or the last one's while none
\* is up, and what was read is that of the session before.
Owned ==
  /\ phase \in Up => session >= 1
  /\ file # NoMemory => file.of = session
  /\ previous # NoMemory => previous.of = session - 1

\* There is no report of a session that could still be reported.
Once ==
  /\ \A s \in Sessions : reports[s] <= 1
  /\ \A s \in Sessions : s >= session => reports[s] = 0
  /\ phase \in Early => \A s \in Sessions : s = session - 1 => reports[s] = 0

\* A termination that is due is on disk, then in memory, then reported.
Carried ==
  /\ \A s \in due : s < session \/ (s = session /\ phase = "down")
  /\ session \in due => WasOOM(file) /\ breadcrumb
  /\ \A s \in due : s = session - 1 =>
       /\ phase \in Early => WasOOM(previous) /\ breadcrumb
       /\ phase \in {"reported", "checked", "running"} => reports[s] = 1

\* The mapped data tells of a footprint that is critical by more than
\* kKSCrashFootprintMinChange, and not of a fatal event before there is one.
Saved ==
  /\ footprint <= noted /\ noted <= footprint + MinChange
  /\ phase = "running" => breadcrumb
  /\ phase \in Launched \cup {"mapped"} => ~file.fatal
  /\ phase \in {"initialized", "disabled"} => ~mapped
  /\ phase \in Launched \cup {"initialized", "mapped"} /\ ~mapped => file = NoMemory
  /\ phase = "initialized" => noted = 0
  /\ mapped /\ file = NoMemory => noted = 0
  /\ mapped /\ file # NoMemory => (noted >= Critical + MinChange => file.critical)

\* The observer has been told the application's state, or is being told it.
Told ==
  exiting # "other" =>
    /\ telling["other"] = None
    /\ telling["main"] \in {None, state}
    /\ mapped /\ file # NoMemory /\ telling["main"] = None => file.state = state

\* exit() is under way, and no change of the state crosses it.
Undisturbed == UIApplication /\ exiting # None /\ session \notin disturbed

\* Until a session ends with such an exit() nothing else is told, and the data
\* that it leaves does not look like an OOM.
Exited ==
  /\ exiting = None => state # "exiting"
  /\ exiting # None /\ phase # "down" => phase \in Launched
  /\ Undisturbed /\ phase # "down" =>
       /\ state = "exiting"
       /\ \A n \in Notifiers : telling[n] = None \/ (n = exiting /\ telling[n] = "exiting")
       /\ file # NoMemory /\ telling[exiting] = None => file.state = "exiting"
  /\ \A s \in disturbed : s <= session
  /\ UIApplication /\ phase = "down" =>
       \A s \in Sessions \ disturbed : s = session /\ ending[s] = "exit" => ~WasOOM(file)
  /\ UIApplication =>
       \A s \in Sessions \ disturbed : s = session - 1 /\ ending[s] = "exit" => ~WasOOM(previous)

MemoryInv == TypeOK /\ Owned /\ Once /\ Carried /\ Saved /\ Told

-----------------------------------------------------------------------------
(***************************************************************************)
(* The data                                                                *)
(***************************************************************************)

\* There is no OOM in no data.
LEMMA NoMemoryNoOOM == ASSUME MemoryAssumption PROVE NoMemory \in Memory /\ ~WasOOM(NoMemory)
  BY DEF NoMemory, Memory, WasOOM, States, MemoryAssumption

\* The data that is saved is a session's.
LEMMA AppMemorySaved ==
  ASSUME MemoryAssumption, TypeOK, Owned, phase \in Up, NEW f \in Footprints
  PROVE  /\ AppMemory(f) \in Memory /\ AppMemory(f) # NoMemory
         /\ AppMemory(f).of = session /\ ~AppMemory(f).fatal
         /\ AppMemory(f).state = state
         /\ f >= Critical => AppMemory(f).critical
<1>1. (f >= Critical \/ pressure) \in BOOLEAN
  BY DEF TypeOK
<1>2. session \in 0 .. MaxSessions /\ state \in States /\ session # 0
  BY DEF TypeOK, Owned, MemoryAssumption
<1> HIDE DEF States
<1>3. AppMemory(f) \in Memory
  BY <1>1, <1>2 DEF AppMemory, Memory
<1>4. AppMemory(f) # NoMemory
  <2>1. AppMemory(f).of # NoMemory.of
    BY <1>2 DEF AppMemory, NoMemory
  <2> QED BY <2>1
<1> QED BY <1>3, <1>4 DEF AppMemory

\* Setting a field changes nothing else, and makes no data out of none.
LEMMA FatalSet ==
  ASSUME MemoryAssumption, TypeOK, Owned, phase \in Up, NEW v \in BOOLEAN, SetField("fatal", v)
  PROVE  /\ file' \in Memory
         /\ file'.of = file.of /\ file'.critical = file.critical /\ file'.state = file.state
         /\ file' = NoMemory <=> file = NoMemory
         /\ file'.fatal \in {file.fatal, v}
<1>1. CASE ~(mapped /\ file # NoMemory)
  BY <1>1 DEF SetField, TypeOK, Memory
<1>2. CASE mapped /\ file # NoMemory
  <2>1. file' = [file EXCEPT !.fatal = v]
    BY <1>2 DEF SetField
  <2>2. /\ file \in Memory /\ file.of # 0
    BY <1>2 DEF TypeOK, Owned, MemoryAssumption
  <2>3. /\ file' \in Memory /\ file'.of = file.of /\ file'.critical = file.critical
        /\ file'.state = file.state /\ file'.fatal = v
    BY <2>1, <2>2 DEF Memory
  <2>4. file' # NoMemory
    BY <2>2, <2>3 DEF NoMemory
  <2> QED BY <1>2, <2>3, <2>4
<1> QED BY <1>1, <1>2

LEMMA StateSet ==
  ASSUME MemoryAssumption, TypeOK, Owned, phase \in Up, NEW v \in States, SetField("state", v)
  PROVE  /\ file' \in Memory
         /\ file'.of = file.of /\ file'.critical = file.critical /\ file'.fatal = file.fatal
         /\ file' = NoMemory <=> file = NoMemory
         /\ mapped /\ file # NoMemory => file'.state = v
         /\ ~mapped => file' = file
<1>1. CASE ~(mapped /\ file # NoMemory)
  BY <1>1 DEF SetField, TypeOK, Memory
<1>2. CASE mapped /\ file # NoMemory
  <2>1. file' = [file EXCEPT !.state = v]
    BY <1>2 DEF SetField
  <2>2. /\ file \in Memory /\ file.of # 0
    BY <1>2 DEF TypeOK, Owned, MemoryAssumption
  <2>3. /\ file' \in Memory /\ file'.of = file.of /\ file'.critical = file.critical
        /\ file'.fatal = file.fatal /\ file'.state = v
    BY <2>1, <2>2 DEF Memory
  <2>4. file' # NoMemory
    BY <2>2, <2>3 DEF NoMemory
  <2> QED BY <1>2, <2>3, <2>4
<1> QED BY <1>1, <1>2

-----------------------------------------------------------------------------
(***************************************************************************)
(* The invariant                                                           *)
(***************************************************************************)

\* A termination that is due stays where it is until the check.
LEMMA CarriedKept ==
  ASSUME MemoryAssumption, TypeOK, Carried, phase \in Up,
         UNCHANGED <<session, previous, due, reports>>,
         phase' \in Early => phase \in Early /\ breadcrumb' = breadcrumb,
         phase' \in {"reported", "checked", "running"} => phase \in {"reported", "checked", "running"}
  PROVE  Carried'
<1>1. session \in Nat /\ phase # "down"
  BY DEF TypeOK, Up, Launched, MemoryAssumption
<1>2. \A s \in due : s < session
  BY <1>1 DEF Carried
<1>3. session \notin due
  BY <1>1, <1>2
<1> QED BY <1>2, <1>3 DEF Carried, Early, WasOOM

LEMMA MemoryInit == ASSUME MemoryAssumption, Init PROVE MemoryInv
<1>1. NoMemory \in Memory /\ NoMemory.state = "startup"
  BY NoMemoryNoOOM DEF NoMemory
<1>2. 0 \in 0 .. MaxSessions /\ 0 \in Footprints
  BY DEF MemoryAssumption, Footprints
<1>3. TypeOK
  BY <1>1, <1>2 DEF Init, TypeOK, States, None, Up
<1>4. Owned /\ Once /\ Carried /\ Saved /\ Told
  BY <1>1 DEF MemoryAssumption, Init, Owned, Once, Carried, Saved, Told, Early, Up, Launched, Sessions, None,
     Notifiers
<1> QED BY <1>3, <1>4 DEF MemoryInv

LEMMA MemoryStep == ASSUME MemoryAssumption, MemoryInv, [Next]_vars PROVE MemoryInv'
<1> USE DEF MemoryInv
<1>1. CASE Initialize
  <2>0. NoMemory \in Memory /\ ~NoMemory.fatal
    BY NoMemoryNoOOM DEF NoMemory
  <2>1. TypeOK'
    <3>1. session + 1 \in 0 .. MaxSessions /\ 0 \in Footprints
      BY <1>1 DEF Initialize, Launch, TypeOK, MemoryAssumption, Footprints
    <3> QED BY <1>1, <2>0, <3>1 DEF TypeOK, Initialize, Launch, Up, history, States
  <2>2. Owned'
    BY <1>1, <2>0 DEF Owned, TypeOK, Initialize, Launch
  <2>3. Once'
    BY <1>1, <2>0 DEF Once, TypeOK, Initialize, Launch, history, Sessions
  <2>4. Carried'
    <3>1. /\ session \in Nat /\ session' = session + 1 /\ due' = due /\ phase' = "initialized"
          /\ previous' = file /\ breadcrumb' = breadcrumb
      BY <1>1 DEF Initialize, Launch, TypeOK, history
    <3>2. due \subseteq Nat /\ \A s \in due : s <= session
      BY <3>1 DEF Carried, TypeOK, Sessions
    <3>3. session' \notin due' /\ \A s \in due : s < session'
      BY <3>1, <3>2
    <3>4. \A s \in due : s = session' - 1 => s = session
      BY <3>1, <3>2
    <3> QED BY <3>1, <3>3, <3>4 DEF Carried, WasOOM
  <2>5. Saved'
    BY <1>1, <2>0 DEF Saved, Initialize, Launch, MemoryAssumption
  <2>6. Told'
    BY <1>1, <2>0 DEF Told, Initialize, Launch, Notifiers
  <2> QED BY <2>1, <2>2, <2>3, <2>4, <2>5, <2>6
<1>2. CASE Map
  <2>0. /\ NoMemory \in Memory /\ ~NoMemory.fatal
        /\ file' = NoMemory /\ mapped' \in BOOLEAN
    BY <1>2, NoMemoryNoOOM DEF Map, NoMemory, Saved
  <2>1. TypeOK'
    BY <1>2, <2>0 DEF TypeOK, Map, Up, app, history
  <2>2. Owned'
    BY <1>2, <2>0 DEF Owned, Map, Up
  <2>3. Once'
    BY <1>2, <2>0 DEF Once, Early, Map, history
  <2>4. Carried'
    BY <1>2, <2>0, CarriedKept DEF Early, Map, Up, history
  <2>5. Saved'
    BY <1>2, <2>0 DEF Saved, Map, app
  <2>6. Told'
    BY <1>2, <2>0 DEF Told, Map, app
  <2> QED BY <2>1, <2>2, <2>3, <2>4, <2>5, <2>6
<1>3. CASE MapUpdate
  <2>0. /\ file' \in Memory /\ ~file'.fatal
        /\ file' # file => /\ mapped /\ file'.of = session /\ file'.state = state
                           /\ file' # NoMemory /\ (footprint >= Critical => file'.critical)
    BY <1>3, AppMemorySaved DEF MapUpdate, TypeOK, Saved
  <2>1. TypeOK'
    BY <1>3, <2>0 DEF TypeOK, MapUpdate, Up, Launched, app, history
  <2>2. Owned'
    BY <1>3, <2>0 DEF Owned, MapUpdate, Up
  <2>3. Once'
    BY <1>3, <2>0 DEF Once, Early, MapUpdate, history
  <2>4. Carried'
    BY <1>3, <2>0, CarriedKept DEF Early, MapUpdate, Up, history
  <2>5. Saved'
    BY <1>3, <2>0 DEF Saved, TypeOK, MapUpdate, app, MemoryAssumption, Footprints
  <2>6. Told'
    BY <1>3, <2>0 DEF Told, MapUpdate, app
  <2> QED BY <2>1, <2>2, <2>3, <2>4, <2>5, <2>6
<1>4. CASE Check
  <2>0. /\ session \in Nat /\ reports \in [Sessions -> 0 .. MaxSessions] /\ due \subseteq Sessions
        /\ phase = "enabled" /\ phase' = "reported"
        /\ UNCHANGED <<session, mapped, file, breadcrumb, previous, footprint, noted, pressure, state, telling,
                       exiting, ending, disturbed, due>>
    BY <1>4 DEF Check, TypeOK, disk, app
  <2>1. CASE ~(WasOOM(previous) /\ breadcrumb)
    <3>1. reports' = reports
      BY <1>4, <2>1 DEF Check
    <3>2. TypeOK' /\ Owned' /\ Once' /\ Saved' /\ Told'
      BY <2>0, <3>1 DEF TypeOK, Owned, Once, Saved, Told, Early, Up, Launched
    <3>3. \A s \in due : s < session /\ s # session - 1
      BY <2>0, <2>1 DEF Carried, Early
    <3>4. session \notin due
      BY <2>0, <3>3
    <3>5. Carried'
      BY <2>0, <3>3, <3>4 DEF Carried
    <3> QED BY <3>2, <3>5
  <2>2. CASE WasOOM(previous) /\ breadcrumb
    <3>1. previous # NoMemory
      BY <2>2, NoMemoryNoOOM
    <3>2. previous.of \in 0 .. MaxSessions /\ previous.of = session - 1 /\ session >= 1
      BY <3>1, <2>0 DEF Owned, TypeOK, Memory
    <3>3. CASE session = 1
      <4>1. previous.of \notin Sessions
        BY <3>2, <3>3 DEF Sessions
      <4>2. reports' = reports
        BY <1>4, <2>0, <2>2, <4>1 DEF Check
      <4>3. TypeOK' /\ Owned' /\ Once' /\ Saved' /\ Told'
        BY <2>0, <4>2 DEF TypeOK, Owned, Once, Saved, Told, Early, Up, Launched
      <4>4. \A s \in due : s >= 1 /\ s < session
        BY <2>0 DEF Carried, Sessions
      <4>5. due = {}
        BY <2>0, <3>3, <4>4 DEF Sessions
      <4> QED BY <2>0, <4>3, <4>5 DEF Carried
    <3>4. CASE session > 1
      <4>1. session - 1 \in Sessions
        BY <3>2, <3>4, <2>0 DEF Sessions
      <4>2. reports[session - 1] = 0 /\ 1 \in 0 .. MaxSessions
        BY <4>1, <2>0 DEF Once, Early, Sessions, MemoryAssumption
      <4>3. reports' = [reports EXCEPT ![session - 1] = 1]
        BY <1>4, <2>2, <3>2, <4>2 DEF Check
      <4>4. /\ reports' \in [Sessions -> 0 .. MaxSessions] /\ reports'[session - 1] = 1
            /\ \A s \in Sessions : s # session - 1 => reports'[s] = reports[s]
        BY <2>0, <4>1, <4>2, <4>3
      <4>5. TypeOK' /\ Owned' /\ Saved' /\ Told'
        BY <2>0, <4>4 DEF TypeOK, Owned, Saved, Told, Up, Launched
      <4>6. Once'
        BY <2>0, <4>4 DEF Once, Early
      <4>7. \A s \in due : s < session
        BY <2>0 DEF Carried
      <4>8. session \notin due
        BY <2>0, <4>7
      <4>9. Carried'
        BY <2>0, <4>4, <4>7, <4>8 DEF Carried, Early
      <4> QED BY <4>5, <4>6, <4>9
    <3> QED BY <2>0, <3>2, <3>3, <3>4
  <2> QED BY <2>1, <2>2
<1>5. CASE RemoveBreadcrumb
  <2>1. TypeOK'
    BY <1>5 DEF TypeOK, RemoveBreadcrumb, Up, Launched, app, history
  <2>2. Owned'
    BY <1>5 DEF Owned, RemoveBreadcrumb, Up, Launched
  <2>3. Once'
    BY <1>5 DEF Once, Early, RemoveBreadcrumb, history
  <2>4. Carried'
    BY <1>5, CarriedKept DEF Early, RemoveBreadcrumb, Up, Launched, history
  <2>5. Saved'
    BY <1>5 DEF Saved, RemoveBreadcrumb, Launched, app
  <2>6. Told'
    BY <1>5 DEF Told, RemoveBreadcrumb, app
  <2> QED BY <2>1, <2>2, <2>3, <2>4, <2>5, <2>6
<1>6. CASE WriteBreadcrumb
  <2>0. /\ phase \in Up /\ file' \in Memory
        /\ file'.of = file.of /\ file'.critical = file.critical /\ file'.state = file.state
        /\ file' = NoMemory <=> file = NoMemory
        /\ file'.fatal \in {file.fatal, FALSE}
    BY <1>6, FatalSet DEF WriteBreadcrumb, Up, Launched
  <2>1. TypeOK'
    BY <1>6, <2>0 DEF TypeOK, WriteBreadcrumb, Up, Launched, app, history
  <2>2. Owned'
    BY <1>6, <2>0 DEF Owned, WriteBreadcrumb
  <2>3. Once'
    BY <1>6, <2>0 DEF Once, Early, WriteBreadcrumb, history
  <2>4. Carried'
    BY <1>6, <2>0, CarriedKept DEF Early, WriteBreadcrumb, history
  <2>5. Saved'
    BY <1>6, <2>0 DEF Saved, WriteBreadcrumb, Up, app
  <2>6. Told'
    BY <1>6, <2>0 DEF Told, WriteBreadcrumb, app
  <2> QED BY <2>1, <2>2, <2>3, <2>4, <2>5, <2>6
<1>7. CASE Heartbeat
  <2>0. /\ phase \in Up /\ phase # "initialized"
        /\ file' \in Memory /\ footprint' \in Footprints /\ noted' \in Footprints
        /\ footprint' <= noted' /\ noted' <= footprint' + MinChange
        /\ \/ file' = file /\ noted' = noted
           \/ file' = file /\ ~mapped
           \/ /\ mapped /\ file'.of = session /\ file' # NoMemory /\ ~file'.fatal /\ file'.state = state
              /\ noted' >= Critical => file'.critical
    <3>1. phase \in Up /\ phase # "initialized"
      BY <1>7 DEF Heartbeat, Observing, Up, Launched
    <3>2. PICK f \in Footprints :
            /\ footprint' = f
            /\ IF FootprintChanged(f)
               THEN noted' = f /\ file' = (IF mapped THEN AppMemory(f) ELSE file)
               ELSE UNCHANGED <<noted, file>>
      BY <1>7 DEF Heartbeat
    <3>3. f \in Nat /\ noted \in Nat /\ noted \in Footprints /\ file \in Memory /\ MinChange \in Nat
      BY DEF TypeOK, Footprints, MemoryAssumption
    <3>4. CASE FootprintChanged(f)
      BY <3>1, <3>2, <3>3, <3>4, AppMemorySaved
    <3>5. CASE ~FootprintChanged(f)
      BY <3>1, <3>2, <3>3, <3>5 DEF FootprintChanged
    <3> QED BY <3>4, <3>5
  <2>1. TypeOK'
    BY <1>7, <2>0 DEF TypeOK, Heartbeat, history
  <2>2. Owned'
    BY <1>7, <2>0 DEF Owned, Heartbeat
  <2>3. Once'
    BY <1>7, <2>0 DEF Once, Heartbeat, history
  <2>4. Carried'
    BY <1>7, <2>0, CarriedKept DEF Heartbeat, history
  <2>5. Saved'
    BY <1>7, <2>0 DEF Saved, Heartbeat, MemoryAssumption, Footprints
  <2>6. Told'
    BY <1>7, <2>0 DEF Told, Heartbeat
  <2> QED BY <2>1, <2>2, <2>3, <2>4, <2>5, <2>6
<1>8. CASE PressureChanged
  <2>1. TypeOK'
    BY <1>8 DEF TypeOK, PressureChanged, disk, history
  <2>2. Owned'
    BY <1>8 DEF Owned, PressureChanged, disk
  <2>3. Once'
    BY <1>8 DEF Once, PressureChanged, disk, history
  <2>4. Carried'
    BY <1>8, CarriedKept DEF PressureChanged, disk, history
  <2>5. Saved'
    BY <1>8 DEF Saved, PressureChanged, disk
  <2>6. Told'
    BY <1>8 DEF Told, PressureChanged, disk
  <2> QED BY <2>1, <2>2, <2>3, <2>4, <2>5, <2>6
<1>9. CASE Transition
  <2>1. TypeOK'
    <3>1. session \in Sessions
      BY <1>9 DEF Transition, Owned, TypeOK, Sessions
    <3>2. disturbed' \in SUBSET Sessions
      BY <1>9, <3>1 DEF Transition, TypeOK
    <3> QED BY <1>9, <3>2 DEF TypeOK, Transition, SetTransitionState, disk, States
  <2>2. Owned'
    BY <1>9 DEF Owned, Transition, SetTransitionState, disk
  <2>3. Once'
    BY <1>9 DEF Once, Transition, SetTransitionState, disk, history
  <2>4. Carried'
    BY <1>9, CarriedKept DEF Transition, SetTransitionState, disk, history
  <2>5. Saved'
    BY <1>9 DEF Saved, Transition, SetTransitionState, disk
  <2>6. Told'
    BY <1>9 DEF Told, TypeOK, Transition, SetTransitionState, Up, disk, None, Notifiers, Saved, Observing
  <2> QED BY <2>1, <2>2, <2>3, <2>4, <2>5, <2>6
<1>10. ASSUME NEW n \in Notifiers, Tell(n) PROVE MemoryInv'
  <2>0. /\ phase \in Up /\ telling[n] \in States
        /\ file' \in Memory
        /\ file'.of = file.of /\ file'.critical = file.critical /\ file'.fatal = file.fatal
        /\ file' = NoMemory <=> file = NoMemory
        /\ mapped /\ file # NoMemory => file'.state = telling[n]
        /\ ~mapped => file' = file
    <3>1. phase \in Up /\ telling[n] \in States /\ SetField("state", telling[n])
      BY <1>10 DEF Tell, TypeOK
    <3> QED BY <3>1, StateSet
  <2>1. TypeOK'
    BY <1>10, <2>0 DEF TypeOK, Tell, history
  <2>2. Owned'
    BY <1>10, <2>0 DEF Owned, Tell
  <2>3. Once'
    BY <1>10, <2>0 DEF Once, Tell, history
  <2>4. Carried'
    BY <1>10, <2>0, CarriedKept DEF Tell, history
  <2>5. Saved'
    BY <1>10, <2>0 DEF Saved, Tell
  <2>6. Told'
    BY <1>10, <2>0 DEF Told, Tell, Notifiers
  <2> QED BY <2>1, <2>2, <2>3, <2>4, <2>5, <2>6
<1>11. CASE NonFatalEvent
  <2>0. /\ phase \in Up /\ file' \in Memory
        /\ file'.of = file.of /\ file'.critical = file.critical /\ file'.state = file.state
        /\ file' = NoMemory <=> file = NoMemory
        /\ file'.fatal \in {file.fatal, FALSE}
    BY <1>11, FatalSet DEF NonFatalEvent, Up
  <2>1. TypeOK'
    BY <1>11, <2>0 DEF TypeOK, NonFatalEvent, app, history
  <2>2. Owned'
    BY <1>11, <2>0 DEF Owned, NonFatalEvent
  <2>3. Once'
    BY <1>11, <2>0 DEF Once, NonFatalEvent, history
  <2>4. Carried'
    BY <1>11, <2>0, CarriedKept DEF NonFatalEvent, history
  <2>5. Saved'
    BY <1>11, <2>0 DEF Saved, NonFatalEvent, app
  <2>6. Told'
    BY <1>11, <2>0 DEF Told, NonFatalEvent, app
  <2> QED BY <2>1, <2>2, <2>3, <2>4, <2>5, <2>6
<1>12. CASE FatalEvent
  <2>0. /\ phase \in Up /\ file' \in Memory
        /\ file'.of = file.of /\ file'.critical = file.critical /\ file'.state = file.state
        /\ file' = NoMemory <=> file = NoMemory
        /\ file'.fatal \in {file.fatal, TRUE}
    BY <1>12, FatalSet DEF FatalEvent, Up
  <2>1. TypeOK'
    BY <1>12, <2>0 DEF TypeOK, FatalEvent, Up, app, history
  <2>2. Owned'
    BY <1>12, <2>0 DEF Owned, FatalEvent
  <2>3. Once'
    BY <1>12, <2>0 DEF Once, Early, FatalEvent, history
  <2>4. Carried'
    BY <1>12, <2>0, CarriedKept DEF Early, FatalEvent, history
  <2>5. Saved'
    BY <1>12, <2>0 DEF Saved, FatalEvent, Launched, app
  <2>6. Told'
    BY <1>12, <2>0 DEF Told, FatalEvent, app
  <2> QED BY <2>1, <2>2, <2>3, <2>4, <2>5, <2>6
<1>13. CASE Disable
  <2>1. TypeOK'
    BY <1>13 DEF TypeOK, Disable, Up, disk, app, history
  <2>2. Owned'
    BY <1>13 DEF Owned, Disable, Up, disk
  <2>3. Once'
    BY <1>13 DEF Once, Early, Disable, disk, history
  <2>4. Carried'
    BY <1>13, CarriedKept DEF Early, Disable, Up, disk, history
  <2>5. Saved'
    BY <1>13 DEF Saved, Disable, Launched, disk, app
  <2>6. Told'
    BY <1>13 DEF Told, Disable, disk, app
  <2> QED BY <2>1, <2>2, <2>3, <2>4, <2>5, <2>6
<1>14. CASE FatalEnd
  <2>1. TypeOK'
    BY <1>14 DEF TypeOK, FatalEnd, Ends, disk, app
  <2>2. Owned'
    BY <1>14 DEF Owned, FatalEnd, Ends, Up, disk
  <2>3. Once'
    BY <1>14 DEF Once, Early, FatalEnd, Ends, disk
  <2>4. Carried'
    BY <1>14, CarriedKept DEF Early, FatalEnd, Ends, Up, disk
  <2>5. Saved'
    BY <1>14 DEF Saved, FatalEnd, Ends, Launched, disk, app
  <2>6. Told'
    BY <1>14 DEF Told, FatalEnd, Ends, disk, app
  <2> QED BY <2>1, <2>2, <2>3, <2>4, <2>5, <2>6
<1>15. CASE Exit
  <2>1. TypeOK'
    <3>1. session \in Sessions
      BY <1>15 DEF Exit, Owned, TypeOK, Sessions, Up
    <3>2. disturbed' \in SUBSET Sessions
      BY <1>15, <3>1 DEF Exit, TypeOK
    <3> QED BY <1>15, <3>2 DEF TypeOK, Exit, SetTransitionState, disk, Notifiers, States
  <2>2. Owned'
    BY <1>15 DEF Owned, Exit, SetTransitionState, disk
  <2>3. Once'
    BY <1>15 DEF Once, Exit, SetTransitionState, disk, history
  <2>4. Carried'
    BY <1>15, CarriedKept DEF Exit, SetTransitionState, Up, disk, history
  <2>5. Saved'
    BY <1>15 DEF Saved, Exit, SetTransitionState, disk
  <2>6. Told'
    BY <1>15 DEF Told, TypeOK, Exit, SetTransitionState, disk, None, Notifiers, Observing
  <2> QED BY <2>1, <2>2, <2>3, <2>4, <2>5, <2>6
<1>16. CASE ExitEnd
  <2>1. TypeOK'
    BY <1>16 DEF TypeOK, ExitEnd, Ends, disk, app
  <2>2. Owned'
    BY <1>16 DEF Owned, ExitEnd, Ends, disk
  <2>3. Once'
    BY <1>16 DEF Once, Early, ExitEnd, Ends, disk
  <2>4. Carried'
    BY <1>16, CarriedKept DEF Early, ExitEnd, Ends, disk
  <2>5. Saved'
    BY <1>16 DEF Saved, ExitEnd, Ends, Launched, disk, app
  <2>6. Told'
    BY <1>16 DEF Told, ExitEnd, Ends, disk, app
  <2> QED BY <2>1, <2>2, <2>3, <2>4, <2>5, <2>6
<1>17. CASE Kill
  <2>1. TypeOK'
    <3>1. session \in Sessions
      BY <1>17 DEF Kill, Owned, TypeOK, Sessions
    <3>2. due' \subseteq Sessions
      BY <1>17, <3>1 DEF Kill, TypeOK
    <3> QED BY <1>17, <3>2 DEF TypeOK, Kill, Ends, disk, app
  <2>2. Owned'
    BY <1>17 DEF Owned, Kill, Ends, disk
  <2>3. Once'
    BY <1>17 DEF Once, Early, Kill, Ends, disk
  <2>4. Carried'
    <3>1. /\ session \in Nat /\ phase \in Up /\ phase # "down" /\ phase' = "down"
          /\ UNCHANGED <<session, file, breadcrumb, previous, reports>>
      BY <1>17 DEF Kill, Ends, TypeOK, Up, Launched, disk
    <3>2. \A s \in due : s < session
      BY <3>1 DEF Carried
    <3>3. session \notin due
      BY <3>1, <3>2
    <3>4. CASE due' = due
      BY <3>1, <3>2, <3>3, <3>4 DEF Carried, Early
    <3>5. CASE due' # due
      <4>1. /\ due' = due \cup {session} /\ phase = "running" /\ mapped /\ Perceptible(state)
            /\ footprint >= Critical + MinChange /\ exiting = None /\ telling["main"] = None
        BY <1>17, <3>5 DEF Kill
      <4>2. noted >= Critical + MinChange /\ noted # 0
        BY <4>1 DEF Saved, TypeOK, Footprints, MemoryAssumption
      <4>3. file # NoMemory /\ file.critical /\ ~file.fatal /\ breadcrumb
        BY <4>1, <4>2 DEF Saved, Launched
      <4>4. file.state = state
        BY <4>1, <4>3 DEF Told, None
      <4>5. WasOOM(file) /\ breadcrumb
        BY <4>1, <4>3, <4>4 DEF WasOOM
      <4>6. \A s \in due' : s < session \/ s = session
        BY <3>2, <4>1
      <4> QED BY <3>1, <4>5, <4>6 DEF Carried, Early, WasOOM
    <3> QED BY <3>4, <3>5
  <2>5. Saved'
    BY <1>17 DEF Saved, Kill, Ends, Launched, disk, app
  <2>6. Told'
    BY <1>17 DEF Told, Kill, Ends, disk, app
  <2> QED BY <2>1, <2>2, <2>3, <2>4, <2>5, <2>6
<1>18. CASE OtherKill
  <2>1. TypeOK'
    BY <1>18 DEF TypeOK, OtherKill, Ends, disk, app
  <2>2. Owned'
    BY <1>18 DEF Owned, OtherKill, Ends, disk
  <2>3. Once'
    BY <1>18 DEF Once, Early, OtherKill, Ends, disk
  <2>4. Carried'
    BY <1>18, CarriedKept DEF Early, OtherKill, Ends, disk
  <2>5. Saved'
    BY <1>18 DEF Saved, OtherKill, Ends, Launched, disk, app
  <2>6. Told'
    BY <1>18 DEF Told, OtherKill, Ends, disk, app
  <2> QED BY <2>1, <2>2, <2>3, <2>4, <2>5, <2>6
<1>19. CASE UNCHANGED vars
  BY <1>19 DEF vars, disk, app, history, TypeOK, Owned, Once, Carried, Saved, Told, WasOOM
<1> QED BY <1>1, <1>2, <1>3, <1>4, <1>5, <1>6, <1>7, <1>8, <1>9, <1>10, <1>11, <1>12, <1>13, <1>14, <1>15,
   <1>16, <1>17, <1>18, <1>19 DEF Next, Done

\* A step that leaves the ends of sessions, the state and its observers, and what
\* was read, as they are.
LEMMA ExitedKept ==
  ASSUME MemoryInv, Exited, ExitNotOOM,
         UNCHANGED <<session, previous, ending, disturbed, reports, exiting, state, telling>>,
         phase \in Up, phase' \in Up, phase \in Launched /\ exiting # None => phase' \in Launched,
         file' = NoMemory \/ file'.state \in {file.state, state},
         phase \in Launched /\ file' # NoMemory => file # NoMemory \/ file'.state = state
  PROVE  Exited' /\ ExitNotOOM'
  BY DEF Exited, ExitNotOOM, Undisturbed, WasOOM, Up, Launched

LEMMA ExitedStep ==
  ASSUME MemoryAssumption, MemoryInv, Exited, ExitNotOOM, [Next]_vars
  PROVE  Exited' /\ ExitNotOOM'
<1> USE DEF MemoryInv
<1>1. CASE Initialize
  <2>1. /\ session \in Nat /\ session' = session + 1 /\ phase = "down" /\ phase' = "initialized" /\ previous' = file
        /\ exiting' = None /\ state' # "exiting" /\ UNCHANGED <<ending, disturbed, reports>>
    BY <1>1 DEF Initialize, Launch, TypeOK, MemoryAssumption, history
  <2>2. \A s \in Sessions : s = session' - 1 => s = session
    BY <2>1
  <2>3. \A s \in disturbed : s \in Nat /\ s <= session
    BY DEF Exited, TypeOK, Sessions
  <2> QED BY <2>1, <2>2, <2>3 DEF Exited, ExitNotOOM, Undisturbed, WasOOM
<1>2. CASE Map \/ MapUpdate \/ RemoveBreadcrumb
  <2>1. /\ UNCHANGED <<session, previous, ending, disturbed, reports, exiting, state, telling>>
        /\ phase \in Up /\ phase' \in Up /\ (phase \in Launched => phase' \in Launched)
    BY <1>2 DEF Map, MapUpdate, RemoveBreadcrumb, Up, Launched, app, history
  <2>2. /\ file' = file \/ file' = NoMemory \/ file'.state = state
        /\ phase \in Launched => file' = file
    BY <1>2 DEF Map, MapUpdate, RemoveBreadcrumb, AppMemory, Launched
  <2> QED BY <2>1, <2>2, ExitedKept
<1>3. CASE Check
  <2>1. /\ session \in Nat /\ reports \in [Sessions -> 0 .. MaxSessions] /\ phase = "enabled" /\ phase' = "reported"
        /\ UNCHANGED <<session, previous, file, exiting, state, telling, ending, disturbed>>
    BY <1>3 DEF Check, TypeOK, MemoryAssumption, app, disk
  <2>2. Exited'
    BY <2>1 DEF Exited, Undisturbed, WasOOM, Launched
  <2>3. ASSUME NEW s \in Sessions, reports'[s] # reports[s] PROVE s = session - 1 /\ WasOOM(previous)
    <3>1. WasOOM(previous) /\ s = previous.of
      BY <1>3, <2>1, <2>3 DEF Check
    <3>2. s = session - 1
      BY <3>1, NoMemoryNoOOM DEF Owned
    <3> QED BY <3>1, <3>2
  <2> QED BY <2>1, <2>2, <2>3 DEF Exited, ExitNotOOM
<1>4. CASE WriteBreadcrumb \/ NonFatalEvent
  <2>1. /\ UNCHANGED <<session, previous, ending, disturbed, reports, exiting, state, telling>>
        /\ phase \in Up /\ phase' \in Up /\ (phase \in Launched => phase' \in Launched)
        /\ SetField("fatal", FALSE)
    BY <1>4 DEF WriteBreadcrumb, NonFatalEvent, Up, Launched, app, history
  <2>2. file'.state = file.state /\ (file' = NoMemory <=> file = NoMemory)
    BY <2>1, FatalSet
  <2> QED BY <2>1, <2>2, ExitedKept
<1>5. CASE Heartbeat
  <2>1. /\ UNCHANGED <<session, previous, ending, disturbed, reports, exiting, state, telling, phase>>
        /\ phase \in Up
    BY <1>5 DEF Heartbeat, Observing, Up, Launched, history
  <2>2. file' = file \/ file'.state = state
    BY <1>5 DEF Heartbeat, AppMemory
  <2> QED BY <2>1, <2>2, ExitedKept
<1>6. CASE PressureChanged
  <2>1. UNCHANGED <<session, previous, ending, disturbed, reports, exiting, state, telling, phase, file>> /\ phase \in Up
    BY <1>6 DEF PressureChanged, disk, history
  <2> QED BY <2>1, ExitedKept
<1>7. CASE Transition
  <2>1. /\ UNCHANGED <<session, previous, file, ending, reports, exiting, phase>>
        /\ phase \in Up /\ state' # "exiting" /\ session \in Sessions
        /\ disturbed' = IF exiting = None THEN disturbed ELSE disturbed \cup {session}
    BY <1>7 DEF Transition, SetTransitionState, disk, history, Owned, TypeOK, Sessions
  <2>2. exiting # None => session \in disturbed'
    BY <2>1
  <2>3. \A s \in disturbed' : s \in disturbed \/ s = session
    BY <2>1
  <2>4. phase # "down"
    BY <2>1 DEF Up, Launched
  <2>5. session <= session
    BY <2>1 DEF Sessions
  <2>6. disturbed \subseteq disturbed'
    BY <2>1
  <2> QED BY <2>1, <2>2, <2>3, <2>4, <2>5, <2>6 DEF Exited, ExitNotOOM, Undisturbed, WasOOM
<1>8. ASSUME NEW n \in Notifiers, Tell(n) PROVE Exited' /\ ExitNotOOM'
  <2>1. /\ UNCHANGED <<session, previous, ending, disturbed, reports, exiting, state, phase>> /\ phase \in Up
        /\ telling[n] # None /\ telling[n] \in States /\ telling' = [telling EXCEPT ![n] = None]
        /\ SetField("state", telling[n]) /\ phase # "down"
    BY <1>8 DEF Tell, TypeOK, history, Up, Launched
  <2>2. /\ file' = NoMemory <=> file = NoMemory
        /\ mapped /\ file # NoMemory => file'.state = telling[n]
        /\ ~mapped => file' = file
    BY <2>1, StateSet
  <2>3. telling'[n] = None /\ \A m \in Notifiers : m # n => telling'[m] = telling[m]
    BY <2>1 DEF TypeOK
  <2>4. Undisturbed => n = exiting /\ telling[n] = "exiting"
    BY <2>1 DEF Exited
  <2>5. Undisturbed /\ file' # NoMemory => file'.state = "exiting"
    <3>1. Undisturbed => phase \in Launched
      BY <2>1 DEF Exited, Undisturbed
    <3> QED BY <2>2, <2>4, <3>1 DEF Saved
  <2> QED BY <2>1, <2>3, <2>4, <2>5 DEF Exited, ExitNotOOM, Undisturbed, WasOOM
<1>9. CASE FatalEvent
  <2>1. /\ UNCHANGED <<session, previous, ending, disturbed, reports, exiting, state, telling>>
        /\ phase \in Up /\ phase' \in Up /\ exiting = None /\ SetField("fatal", TRUE)
    BY <1>9 DEF FatalEvent, Up, Launched, app, history
  <2>2. file'.state = file.state /\ (file' = NoMemory <=> file = NoMemory)
    BY <2>1, FatalSet
  <2> QED BY <2>1, <2>2, ExitedKept
<1>10. CASE Disable
  <2>1. /\ UNCHANGED <<session, previous, ending, disturbed, reports, exiting, state, telling, file>>
        /\ phase \in Up /\ phase' \in Up /\ phase \notin Launched
    BY <1>10 DEF Disable, Up, Launched, disk, app, history
  <2> QED BY <2>1, ExitedKept
<1>11. CASE Exit
  <2>1. PICK n \in Notifiers :
          /\ telling[n] = None /\ exiting' = n
          /\ IF UIApplication THEN SetTransitionState(n, "exiting") ELSE UNCHANGED <<state, telling>>
          /\ disturbed' = IF \E m \in Notifiers \ {n} : telling[m] # None
                          THEN disturbed \cup {session} ELSE disturbed
    BY <1>11 DEF Exit, Notifiers
  <2>2. /\ UNCHANGED <<session, previous, file, ending, reports, phase>> /\ phase \in Launched /\ exiting = None
        /\ session \in Sessions /\ n # None /\ phase # "down"
    BY <1>11, <2>1 DEF Exit, disk, Owned, TypeOK, Sessions, Up, Launched, Notifiers, None
  <2>3. disturbed \subseteq disturbed' /\ \A s \in disturbed' : s \in disturbed \/ s = session
    BY <2>1
  <2>4. UIApplication =>
          /\ state' = "exiting" /\ telling'[n] = "exiting"
          /\ \A m \in Notifiers : m # n => telling'[m] = telling[m]
    BY <2>1, <2>2 DEF SetTransitionState, TypeOK, Exited, Observing
  <2>5. session \notin disturbed' => \A m \in Notifiers : m # n => telling[m] = None
    BY <2>1
  <2>6. "exiting" # None /\ session <= session
    BY <2>2 DEF None, Sessions
  <2> QED BY <2>1, <2>2, <2>3, <2>4, <2>5, <2>6 DEF Exited, ExitNotOOM, Undisturbed, WasOOM
<1>12. CASE ExitEnd
  <2>1. /\ session \in Sessions /\ ending \in [Sessions -> {None, "exit", "other"}]
        /\ phase \in Up /\ phase # "down" /\ phase' = "down" /\ ending' = [ending EXCEPT ![session] = "exit"]
        /\ UNCHANGED <<session, file, previous, disturbed, reports, exiting, state>>
    BY <1>12 DEF ExitEnd, Ends, Owned, TypeOK, Sessions, disk, app, Up, Launched
  <2>2. exiting # None /\ telling[exiting] = None
    BY <1>12 DEF ExitEnd
  <2>3. UIApplication /\ session \notin disturbed => file = NoMemory \/ file.state = "exiting"
    BY <2>1, <2>2 DEF Exited, Undisturbed
  <2>4. UIApplication /\ session \notin disturbed => ~WasOOM(file)
    BY <2>3, NoMemoryNoOOM DEF WasOOM, Perceptible
  <2>5. reports[session] = 0
    BY <2>1 DEF Once, Sessions
  <2>6. \A s \in Sessions : s # session => ending'[s] = ending[s]
    BY <2>1
  <2>7. \A s \in Sessions : s = session - 1 => s # session
    BY DEF Sessions
  <2> QED BY <2>1, <2>2, <2>4, <2>5, <2>6, <2>7 DEF Exited, ExitNotOOM, WasOOM
<1>13. ASSUME Ends("other"), phase \in Up PROVE Exited' /\ ExitNotOOM'
  <2>1. /\ session \in Sessions /\ ending \in [Sessions -> {None, "exit", "other"}]
        /\ phase' = "down" /\ ending' = [ending EXCEPT ![session] = "other"]
        /\ UNCHANGED <<session, file, previous, disturbed, reports, exiting, state>>
    BY <1>13 DEF Ends, Owned, TypeOK, Sessions, disk, app
  <2>2. ending'[session] # "exit" /\ \A s \in Sessions : s # session => ending'[s] = ending[s]
    BY <2>1
  <2>3. \A s \in Sessions : ending'[s] = "exit" => ending[s] = "exit" /\ s # session
    BY <2>2
  <2> QED BY <2>1, <2>3 DEF Exited, ExitNotOOM, WasOOM
<1>14. CASE FatalEnd \/ Kill \/ OtherKill
  BY <1>13, <1>14 DEF FatalEnd, Kill, OtherKill, Up
<1>15. CASE UNCHANGED vars
  BY <1>15 DEF vars, disk, app, history, Exited, ExitNotOOM, Undisturbed, WasOOM
<1> QED BY <1>1, <1>2, <1>3, <1>4, <1>5, <1>6, <1>7, <1>8, <1>9, <1>10, <1>11, <1>12, <1>14, <1>15 DEF Next, Done

-----------------------------------------------------------------------------
(***************************************************************************)
(* The theorems                                                            *)
(***************************************************************************)

\* The invariant says what the run checks.
LEMMA MemoryMeans == ASSUME MemoryInv PROVE OOMReported /\ ReportedOnce
<1>1. ReportedOnce
  BY DEF MemoryInv, Once, ReportedOnce
<1>2. due \subseteq Sessions /\ \A s \in due : session = s + 1 => s = session - 1
  BY DEF MemoryInv, TypeOK, Sessions
<1>3. OOMReported
  BY <1>2 DEF MemoryInv, Carried, OOMReported
<1> QED BY <1>1, <1>3

\* Wherever exit() is called, and with or without UIApplication: a session that
\* was killed for its footprint in the user's sight is reported by the next one
\* that gets as far as kscm_memory_check_for_oom_in_previous_session(), and none
\* is reported twice, wherever sessions are cut short.
THEOREM OOMsReportedOnce == MemoryAssumption /\ Spec => [](OOMReported /\ ReportedOnce)
<1>1. SUFFICES ASSUME MemoryAssumption PROVE Spec => [](OOMReported /\ ReportedOnce)
  OBVIOUS
<1>2. Init => MemoryInv
  BY <1>1, MemoryInit
<1>3. MemoryInv /\ [Next]_vars => MemoryInv'
  BY <1>1, MemoryStep
<1>4. MemoryInv => OOMReported /\ ReportedOnce
  BY MemoryMeans
<1> QED BY <1>2, <1>3, <1>4, PTL DEF Spec

\* On whichever thread exit() is called: a session of an application with
\* UIApplication that ends with it is not reported as an OOM either, unless the
\* state changed on another thread meanwhile.
THEOREM OOMsExact == MemoryAssumption /\ Spec => []OOMExact
<1>1. SUFFICES ASSUME MemoryAssumption PROVE Spec => []OOMExact
  OBVIOUS
<1> DEFINE Inv == MemoryInv /\ Exited /\ ExitNotOOM
<1>2. Init => Inv
  <2>1. Init => Exited /\ ExitNotOOM
    BY DEF Init, Exited, ExitNotOOM, Undisturbed, None, Sessions
  <2> QED BY <1>1, <2>1, MemoryInit
<1>3. Inv /\ [Next]_vars => Inv'
  BY <1>1, MemoryStep, ExitedStep
<1>4. Inv => OOMExact
  BY MemoryMeans DEF OOMExact
<1> QED BY <1>2, <1>3, <1>4, PTL DEF Spec
=============================================================================
