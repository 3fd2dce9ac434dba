----------------------------- MODULE TrapProofs -----------------------------
(***************************************************************************)
(* Proofs about the two ways in which the system tells of a fault, signals *)
(* and Mach exceptions: what was there before is put back and told.        *)
(***************************************************************************)
EXTENDS KSCrashMonitor_Signal, KSCrashMonitor_MachException, SequenceTheorems, TLAPS

-----------------------------------------------------------------------------
(***************************************************************************)
(* Signals come at any time, on any thread: whoever restores the handlers  *)
(* restores all of them, and a signal that is raised again gets past our   *)
(* handler.                                                                *)
(***************************************************************************)
\* Where install() has not been yet, the handlers are not ours.
Untouched(s) ==
  \/ state = "NotInstalled" \/ install.at = "stack"
  \/ install.at = "handlers" /\ s >= install.i

\* Our handlers are put in place once, by install().
OnceOurs ==
  /\ state = "NotInstalled" => install.at = "idle"
  /\ \A s \in Signals : Untouched(s) => action[s] # "ours"
  /\ install.at = "stack" => install.i = 1
  /\ install.at = "handlers" => install.i >= 1
  /\ install.at = "undo" => install.i <= Count

\* There is one handler at a time, unless two have met.
Alone ==
  ~ crowded =>
    /\ \A t \in Receivers : Len(frames[t]) <= 1
    /\ \A t, u \in Receivers : Running(t) /\ Running(u) => t = u

AllOriginal == \A s \in Signals : action[s] = "original"

\* What install() has done so far, if nothing has interrupted it
InstallSteps ==
  /\ state \in {"NotInstalled", "FailedInstall"} \/ install.at = "stack" => AllOriginal
  /\ state \in {"NotInstalled", "FailedInstall"} \/ install.at # "idle" => \A t \in Receivers : ~ Running(t)
  /\ install.at # "idle" => state = "Installed"
  /\ install.at = "handlers" => \A s \in Signals :
       IF s < install.i THEN action[s] = "ours" /\ previous[s] = "original" ELSE action[s] = "original"
  /\ install.at = "undo" => \A s \in Signals :
       IF s <= install.i THEN action[s] = "ours" /\ previous[s] = "original" ELSE action[s] = "original"
  /\ install.at = "idle" /\ state = "Installed" => \A s \in Signals : action[s] = "ours"
  /\ install.at = "idle" /\ state \in {"Installed", "Uninstalled"} => \A s \in Signals : previous[s] = "original"

\* A handler that restores what there was before is the innermost of its
\* thread, and knows how far it has come.
Restoring ==
  \A t \in Receivers : \A j \in DOMAIN frames[t] :
    LET f == frames[t][j] IN
    /\ f.at \in {"restore", "free", "raise"} \/ f.again => state = "Uninstalled"
    /\ f.at \in {"check", "report", "uninstall"} => f.i = 1
    /\ Uninstalling(f) => j = Len(frames[t]) /\ ~ f.again
    /\ f.at = "restore" => \A s \in Signals : action[s] = IF s < f.i THEN "original" ELSE "ours"
    /\ f.at = "free" => AllOriginal

\* There is one such handler, until everything is restored.
OneRestores ==
  /\ \A t, u \in Receivers : Running(t) /\ Uninstalling(Top(t)) /\ Running(u) /\ Uninstalling(Top(u)) => t = u
  /\ state = "Uninstalled" => AllOriginal \/ \E t \in Receivers : Running(t) /\ Top(t).at = "restore"
  /\ stack = "freed" => state = "Uninstalled" /\ \A t \in Receivers : Running(t) => ~ Uninstalling(Top(t))

\* A lone handler does not report from a stack that has been freed.
StackShared ==
  Running(Installer) /\ Top(Installer).at \in {"check", "report"} /\ stack = "freed" => crowded

SignalInv ==
  /\ SignalTypeOK /\ OnceOurs /\ Alone
  /\ ~ interrupted /\ ~ nested => InstallSteps /\ Restoring /\ OneRestores /\ StackShared

-----------------------------------------------------------------------------
(***************************************************************************)
(* The handlers of a thread                                                *)
(***************************************************************************)
\* The handlers without the innermost one
LEMMA Popped ==
  ASSUME NEW s \in Seq(Frames), s # <<>>
  PROVE  /\ Len(s) \in Nat \ {0} /\ DOMAIN s = 1 .. Len(s) /\ \A j \in 1 .. Len(s) : s[j] \in Frames
         /\ Front(s) \in Seq(Frames) /\ Len(Front(s)) = Len(s) - 1
         /\ \A j \in 1 .. Len(s) - 1 : Front(s)[j] = s[j]
<1>1. Len(s) \in Nat \ {0} /\ DOMAIN s = 1 .. Len(s) /\ \A j \in 1 .. Len(s) : s[j] \in Frames
  OBVIOUS
<1> DEFINE m == Len(s) - 1
<1>2. m \in 0 .. Len(s) /\ Front(s) = SubSeq(s, 1, m)
  BY <1>1 DEF Front
<1>3. /\ SubSeq(s, 1, m) \in Seq(Frames)
      /\ Len(SubSeq(s, 1, m)) = IF 1 <= m THEN m - 1 + 1 ELSE 0
      /\ \A j \in 1 .. m - 1 + 1 : SubSeq(s, 1, m)[j] = s[1 + j - 1]
  <2>1. \A j \in 1 .. m : s[j] \in Frames
    BY <1>1
  <2> HIDE DEF m
  <2> QED BY ONLY <1>2, <2>1, s \in Seq(Frames), 1 \in Nat, SubSeqProperties, <1>1
<1> QED BY <1>1, <1>2, <1>3

\* A handler on top of others
LEMMA Pushed ==
  ASSUME NEW s \in Seq(Frames), NEW f \in Frames
  PROVE  /\ Append(s, f) \in Seq(Frames) /\ Len(Append(s, f)) = Len(s) + 1 /\ Append(s, f) # <<>>
         /\ \A j \in 1 .. Len(s) : Append(s, f)[j] = s[j]
         /\ Append(s, f)[Len(s) + 1] = f
<1> HIDE DEF Frames
<1>1. Len(Append(s, f)) = Len(s) + 1 /\ Len(s) \in Nat
  OBVIOUS
<1> QED BY <1>1

\* A handler in place of the innermost one
LEMMA Replaced ==
  ASSUME NEW s \in Seq(Frames), s # <<>>, NEW f \in Frames, NEW r, r = Append(Front(s), f)
  PROVE  /\ r \in Seq(Frames) /\ Len(r) = Len(s) /\ Len(s) \in Nat \ {0} /\ r # <<>>
         /\ DOMAIN r = 1 .. Len(s) /\ DOMAIN s = 1 .. Len(s)
         /\ s[Len(s)] \in Frames /\ r[Len(s)] = f
         /\ \A j \in 1 .. Len(s) : r[j] = IF j = Len(s) THEN f ELSE s[j]
<1> HIDE DEF Frames
<1>1. PICK n \in Nat : n = Len(s)
  OBVIOUS
<1>2. n # 0 /\ DOMAIN s = 1 .. n /\ s[n] \in Frames
  BY <1>1, Popped
<1>3. PICK front : front = Front(s) /\ front \in Seq(Frames) /\ Len(front) = n - 1
                   /\ \A j \in 1 .. n - 1 : front[j] = s[j]
  BY <1>1, Popped
<1>4. r = Append(front, f)
  BY <1>3
<1>5. r \in Seq(Frames) /\ Len(r) = n /\ r # <<>> /\ r[n] = f /\ \A j \in 1 .. n - 1 : r[j] = front[j]
  <2>1. /\ r \in Seq(Frames) /\ Len(r) = n - 1 + 1 /\ r # <<>> /\ r[n - 1 + 1] = f
        /\ \A j \in 1 .. n - 1 : r[j] = front[j]
    BY <1>3, <1>4, Pushed
  <2>2. n - 1 + 1 = n
    OBVIOUS
  <2> QED BY <2>1, <2>2
<1>6. DOMAIN r = 1 .. n
  BY <1>5
<1>7. ASSUME NEW j \in 1 .. n PROVE r[j] = IF j = n THEN f ELSE s[j]
  <2>1. j = n \/ j \in 1 .. n - 1
    BY ONLY n \in Nat, j \in 1 .. n
  <2> QED BY <1>3, <1>5, <2>1
<1> QED BY <1>1, <1>2, <1>5, <1>6, <1>7

\* The innermost handler of a thread goes on.
LEMMA TopMoves ==
  ASSUME SignalTypeOK, NEW t \in Receivers, Running(t), NEW f \in Frames, SetTop(t, f)
  PROVE  /\ frames' \in [Receivers -> Seq(Frames)]
         /\ Top(t)' = f /\ Top(t) \in Frames /\ Running(t)'
         /\ \A u \in Receivers \ {t} : frames'[u] = frames[u]
         /\ Len(frames'[t]) = Len(frames[t]) /\ Len(frames[t]) \in Nat \ {0} /\ Len(frames[t]) \in DOMAIN frames[t]
         /\ \A j \in DOMAIN frames'[t] :
              j \in DOMAIN frames[t] /\ frames'[t][j] = IF j = Len(frames[t]) THEN f ELSE frames[t][j]
<1> HIDE DEF Frames
<1>1. frames \in [Receivers -> Seq(Frames)] /\ frames[t] \in Seq(Frames) /\ frames[t] # <<>>
  BY DEF SignalTypeOK, Running
<1>2. PICK r : r = Append(Front(frames[t]), f)
  OBVIOUS
<1>3. frames' = [frames EXCEPT ![t] = r]
  BY <1>2 DEF SetTop
<1>4. /\ r \in Seq(Frames) /\ Len(r) = Len(frames[t]) /\ Len(frames[t]) \in Nat \ {0} /\ r # <<>>
      /\ DOMAIN r = 1 .. Len(frames[t]) /\ DOMAIN frames[t] = 1 .. Len(frames[t])
      /\ frames[t][Len(frames[t])] \in Frames /\ r[Len(frames[t])] = f
      /\ \A j \in 1 .. Len(frames[t]) : r[j] = IF j = Len(frames[t]) THEN f ELSE frames[t][j]
  <2>1. PICK s : s = frames[t]
    OBVIOUS
  <2>2. /\ r \in Seq(Frames) /\ Len(r) = Len(s) /\ Len(s) \in Nat \ {0} /\ r # <<>>
        /\ DOMAIN r = 1 .. Len(s) /\ DOMAIN s = 1 .. Len(s)
        /\ s[Len(s)] \in Frames /\ r[Len(s)] = f
        /\ \A j \in 1 .. Len(s) : r[j] = IF j = Len(s) THEN f ELSE s[j]
    <3>1. s \in Seq(Frames) /\ s # <<>> /\ r = Append(Front(s), f)
      BY <1>1, <1>2, <2>1
    <3>2. r \in Seq(Frames)
      BY <3>1, Replaced
    <3>3. Len(r) = Len(s)
      BY <3>1, Replaced
    <3>4. Len(s) \in Nat \ {0}
      BY <3>1, Replaced
    <3>5. r # <<>>
      BY <3>1, Replaced
    <3>6. DOMAIN r = 1 .. Len(s) /\ DOMAIN s = 1 .. Len(s)
      BY <3>1, Replaced
    <3>7. s[Len(s)] \in Frames /\ r[Len(s)] = f
      BY <3>1, Replaced
    <3>8. \A j \in 1 .. Len(s) : r[j] = IF j = Len(s) THEN f ELSE s[j]
      BY <3>1, Replaced
    <3> QED BY <3>2, <3>3, <3>4, <3>5, <3>6, <3>7, <3>8
  <2> QED BY <2>1, <2>2
<1>5. frames'[t] = r /\ frames' \in [Receivers -> Seq(Frames)] /\ \A u \in Receivers \ {t} : frames'[u] = frames[u]
  BY <1>1, <1>3, <1>4
<1>6. Top(t)' = f /\ Top(t) \in Frames /\ Running(t)'
  BY <1>4, <1>5 DEF Top, Running
<1> QED BY <1>4, <1>5, <1>6

\* A signal is delivered on top of the handlers fs, which are all of the
\* thread's or all but the innermost.
LEMMA Arrived ==
  ASSUME SignalTypeOK, NEW s \in Signals, NEW t \in Receivers, NEW again \in BOOLEAN, NEW fs \in Seq(Frames),
         Len(fs) <= Len(frames[t]), \A j \in 1 .. Len(fs) : fs[j] = frames[t][j],
         Deliver(s, t, fs, again)
  PROVE  /\ frames' \in [Receivers -> Seq(Frames)]
         /\ \A u \in Receivers \ {t} : frames'[u] = frames[u]
         /\ {ended', interrupted', crowded'} \subseteq BOOLEAN
         /\ interrupted => interrupted'
         /\ crowded => crowded'
         /\ \/ /\ action[s] = "ours"
               /\ Len(frames'[t]) = Len(fs) + 1
               /\ \A j \in DOMAIN frames'[t] :
                    IF j = Len(fs) + 1 THEN frames'[t][j] = Frame(s, again)
                    ELSE j \in DOMAIN frames[t] /\ j <= Len(fs) /\ frames'[t][j] = frames[t][j]
               /\ Running(t)' /\ Top(t)' = Frame(s, again)
               /\ interrupted' = (interrupted \/ install.at # "idle")
               /\ crowded' = (crowded \/ fs # <<>> \/ \E u \in Receivers \ {t} : Running(u))
            \/ /\ action[s] # "ours"
               /\ frames'[t] = fs /\ Len(frames'[t]) = Len(fs)
               /\ \A j \in DOMAIN frames'[t] :
                    j \in DOMAIN frames[t] /\ j <= Len(fs) /\ frames'[t][j] = frames[t][j]
               /\ Running(t)' => Len(fs) > 0 /\ Len(fs) \in DOMAIN frames[t] /\ Top(t)' = frames[t][Len(fs)]
               /\ interrupted' = interrupted /\ crowded' = crowded
<1> DEFINE f == Frame(s, again)
           r == Append(fs, f)
<1>1. frames \in [Receivers -> Seq(Frames)] /\ frames[t] \in Seq(Frames) /\ {ended, interrupted, crowded} \subseteq BOOLEAN
  BY DEF SignalTypeOK
<1>2. f \in Frames
  BY SignalAssumption DEF Frame, Frames, Signals
<1> HIDE DEF f, Frames
<1>3. /\ r \in Seq(Frames) /\ Len(r) = Len(fs) + 1 /\ r # <<>>
      /\ \A j \in 1 .. Len(fs) : r[j] = fs[j]
      /\ r[Len(fs) + 1] = f
  BY <1>2, Pushed
<1>4. /\ Len(fs) \in Nat /\ DOMAIN fs = 1 .. Len(fs) /\ DOMAIN frames[t] = 1 .. Len(frames[t])
      /\ Len(frames[t]) \in Nat /\ DOMAIN r = 1 .. Len(r)
  BY <1>1, <1>3
<1>5. CASE action[s] = "ours"
  <2>1. /\ frames' = [frames EXCEPT ![t] = r]
        /\ interrupted' = (interrupted \/ install.at # "idle")
        /\ crowded' = (crowded \/ fs # <<>> \/ \E u \in Receivers \ {t} : Running(u))
        /\ ended' = ended
    BY <1>5 DEF Deliver, f
  <2>2. frames' \in [Receivers -> Seq(Frames)] /\ frames'[t] = r /\ \A u \in Receivers \ {t} : frames'[u] = frames[u]
    BY <1>1, <1>3, <2>1
  <2> HIDE DEF r
  <2>3. \A j \in DOMAIN frames'[t] :
          IF j = Len(fs) + 1 THEN frames'[t][j] = f
          ELSE j \in DOMAIN frames[t] /\ j <= Len(fs) /\ frames'[t][j] = frames[t][j]
    BY <1>3, <1>4, <2>2
  <2>4. Running(t)' /\ Top(t)' = f
    BY <1>3, <2>2 DEF Running, Top
  <2>5. ended' \in BOOLEAN /\ interrupted' \in BOOLEAN /\ crowded' \in BOOLEAN
    BY <1>1, <2>1
  <2> QED BY <1>1, <1>3, <1>5, <2>1, <2>2, <2>3, <2>4, <2>5 DEF f
<1>6. CASE action[s] # "ours"
  <2>1. frames' = [frames EXCEPT ![t] = fs] /\ interrupted' = interrupted /\ crowded' = crowded /\ ended' \in BOOLEAN
    BY <1>1, <1>6 DEF Deliver
  <2>2. frames' \in [Receivers -> Seq(Frames)] /\ frames'[t] = fs /\ \A u \in Receivers \ {t} : frames'[u] = frames[u]
    BY <1>1, <2>1
  <2>3. Running(t)' => Len(fs) > 0 /\ Len(fs) \in DOMAIN frames[t] /\ Top(t)' = frames[t][Len(fs)]
    BY <1>4, <2>2 DEF Running, Top
  <2>4. \A j \in DOMAIN frames'[t] :
          j \in DOMAIN frames[t] /\ j <= Len(fs) /\ frames'[t][j] = frames[t][j]
    BY <1>4, <2>2
  <2>5. {ended', interrupted', crowded'} \subseteq BOOLEAN
    BY <1>1, <2>1
  <2>6. Len(frames'[t]) = Len(fs)
    BY <2>2
  <2> QED BY <1>6, <2>1, <2>2, <2>3, <2>4, <2>5, <2>6
<1> QED BY <1>5, <1>6

-----------------------------------------------------------------------------
(***************************************************************************)
(* install()                                                               *)
(***************************************************************************)
InstallStep ==
  (\E e \in BOOLEAN : setEnabled(e)) \/ SetStack \/ SetHandler \/ UndoHandler \/ InstallReturns

LEMMA SignalInvInit == SignalInit => SignalInv
<1> SUFFICES ASSUME SignalInit PROVE SignalInv
  OBVIOUS
<1>1. SignalTypeOK
  <2>1. install \in [at : {"idle", "stack", "handlers", "undo"}, i : 0 .. Count + 1]
    BY SignalAssumption DEF SignalInit
  <2>2. frames \in [Receivers -> Seq(Frames)]
    <3>1. <<>> \in Seq(Frames)
      OBVIOUS
    <3> HIDE DEF Frames
    <3> QED BY <3>1 DEF SignalInit
  <2>3. action \in [Signals -> {"original", "ours", "garbage"}] /\ previous \in [Signals -> {"original", "garbage"}]
    BY DEF SignalInit
  <2>4. sent \in 0 .. MaxSignals
    BY SignalAssumption DEF SignalInit
  <2>5. state \in {"NotInstalled", "Installed", "Uninstalled", "FailedInstall"} /\ stack \in {"none", "live", "freed"}
    BY DEF SignalInit
  <2>6. enabled \in BOOLEAN /\ ended \in BOOLEAN /\ interrupted \in BOOLEAN /\ nested \in BOOLEAN /\ crowded \in BOOLEAN
    BY DEF SignalInit
  <2> QED BY <2>1, <2>2, <2>3, <2>4, <2>5, <2>6 DEF SignalTypeOK
<1>2. \A t \in Receivers : frames[t] = <<>> /\ ~ Running(t)
  BY DEF SignalInit, Running
<1>3. OnceOurs
  BY DEF SignalInit, OnceOurs
<1>4. Alone
  BY <1>2 DEF Alone
<1>5. InstallSteps
  BY <1>2 DEF SignalInit, InstallSteps, AllOriginal
<1>6. Restoring /\ OneRestores /\ StackShared
  BY <1>2 DEF SignalInit, Restoring, OneRestores, StackShared
<1> QED BY <1>1, <1>3, <1>4, <1>5, <1>6 DEF SignalInv

\* A step of install() moves no handler.
LEMMA InstallFrame ==
  ASSUME InstallStep
  PROVE  /\ UNCHANGED <<frames, sent, ended, interrupted, nested, crowded>>
         /\ Installing
         /\ \A t : Running(t)' = Running(t) /\ Top(t)' = Top(t)
BY DEF InstallStep, setEnabled, SetStack, SetHandler, UndoHandler, InstallReturns, Running, Top

LEMMA InstallBase ==
  ASSUME SignalInv, InstallStep
  PROVE  SignalTypeOK' /\ OnceOurs' /\ Alone'
<1>1. SignalTypeOK /\ OnceOurs /\ Alone
  BY DEF SignalInv
<1>2. /\ UNCHANGED <<frames, sent, ended, interrupted, nested, crowded>>
      /\ \A t : Running(t)' = Running(t) /\ Top(t)' = Top(t)
  BY InstallFrame
<1>3. Alone'
  BY <1>1, <1>2 DEF Alone
<1>4. Count \in Nat
  BY SignalAssumption
<1>5. SUFFICES /\ enabled' \in BOOLEAN
               /\ state' \in {"NotInstalled", "Installed", "Uninstalled", "FailedInstall"}
               /\ action' \in [Signals -> {"original", "ours", "garbage"}]
               /\ previous' \in [Signals -> {"original", "garbage"}]
               /\ stack' \in {"none", "live", "freed"}
               /\ install' \in [at : {"idle", "stack", "handlers", "undo"}, i : 0 .. Count + 1]
               /\ OnceOurs'
  BY <1>1, <1>2, <1>3 DEF SignalTypeOK
<1>6. CASE \E e \in BOOLEAN : setEnabled(e)
  BY <1>1, <1>4, <1>6 DEF setEnabled, SignalTypeOK, OnceOurs, Untouched
<1>7. CASE SetStack
  BY <1>1, <1>4, <1>7 DEF SetStack, InstallFails, SignalTypeOK, OnceOurs, Untouched
<1>8. CASE SetHandler
  <2>1. install.i \in Signals /\ action[install.i] # "ours"
    BY <1>1, <1>4, <1>8 DEF SetHandler, SignalTypeOK, OnceOurs, Untouched, Signals
  <2>2. CASE install' = [at |-> "undo", i |-> install.i - 1] /\ UNCHANGED <<action, previous>>
    BY <1>1, <1>4, <1>8, <2>1, <2>2 DEF SetHandler, SignalTypeOK, OnceOurs, Untouched, Signals
  <2>3. CASE /\ action' = [action EXCEPT ![install.i] = "ours"]
             /\ previous' = [previous EXCEPT ![install.i] = action[install.i]]
             /\ install' = [install EXCEPT !.i = @ + 1]
    BY <1>1, <1>4, <1>8, <2>1, <2>3 DEF SetHandler, SignalTypeOK, OnceOurs, Untouched, Signals
  <2> QED BY <1>8, <2>2, <2>3 DEF SetHandler
<1>9. CASE UndoHandler
  <2>1. install.at = "undo" /\ install.i \in 0 .. Count /\ UNCHANGED <<enabled, previous, stack>>
    BY <1>1, <1>4, <1>9 DEF UndoHandler, SignalTypeOK, OnceOurs
  <2>2. CASE install.i = 0 /\ InstallFails /\ UNCHANGED action
    BY <1>1, <1>4, <2>1, <2>2 DEF InstallFails, SignalTypeOK, OnceOurs, Untouched, Signals
  <2>3. CASE /\ install.i # 0
             /\ action' = [action EXCEPT ![install.i] = previous[install.i]]
             /\ install' = [install EXCEPT !.i = @ - 1]
             /\ UNCHANGED state
    <3>1. install.i \in Signals /\ previous[install.i] \in {"original", "garbage"}
      BY <1>1, <1>4, <2>1, <2>3 DEF SignalTypeOK, Signals
    <3>2. action' \in [Signals -> {"original", "ours", "garbage"}] /\ \A s \in Signals : action'[s] = "ours" => action[s] = "ours"
      BY <1>1, <2>3, <3>1 DEF SignalTypeOK
    <3>3. /\ install' \in [at : {"idle", "stack", "handlers", "undo"}, i : 0 .. Count + 1]
          /\ install'.at = "undo" /\ install'.i <= Count
      BY <1>1, <1>4, <2>1, <2>3 DEF SignalTypeOK
    <3>4. OnceOurs'
      BY <1>1, <2>1, <2>3, <3>2, <3>3 DEF OnceOurs, Untouched
    <3> QED BY <1>1, <2>1, <2>3, <3>2, <3>3, <3>4 DEF SignalTypeOK
  <2> QED BY <1>9, <2>2, <2>3 DEF UndoHandler
<1>10. CASE InstallReturns
  BY <1>1, <1>4, <1>10 DEF InstallReturns, SignalTypeOK, OnceOurs, Untouched, Signals
<1> QED BY <1>6, <1>7, <1>8, <1>9, <1>10 DEF InstallStep

LEMMA InstallKeeps ==
  ASSUME SignalInv, InstallStep
  PROVE  SignalInv'
<1>1. SignalTypeOK' /\ OnceOurs' /\ Alone'
  BY InstallBase
<1>2. SUFFICES ASSUME ~ interrupted, ~ nested
               PROVE  InstallSteps' /\ Restoring' /\ OneRestores' /\ StackShared'
  BY <1>1, InstallFrame DEF SignalInv
<1>3. SignalTypeOK /\ OnceOurs /\ InstallSteps /\ Restoring /\ OneRestores /\ StackShared
  BY <1>2 DEF SignalInv
<1>4. /\ UNCHANGED <<frames, sent, ended, interrupted, nested, crowded>> /\ ~ Running(Installer)
      /\ \A t : Running(t)' = Running(t) /\ Top(t)' = Top(t)
  BY InstallFrame DEF Installing
<1>5. Count \in Nat
  BY SignalAssumption
<1>6. CASE UNCHANGED <<state, action, previous, stack, install>>
  BY <1>3, <1>4, <1>6 DEF InstallSteps, Restoring, OneRestores, StackShared, AllOriginal
<1>7. CASE /\ InstallSteps' /\ state' # "Uninstalled" /\ stack' # "freed"
           /\ \A t \in Receivers : ~ Running(t)
  <2>1. \A t \in Receivers : DOMAIN frames'[t] = {}
    <3>1. \A t \in Receivers : frames'[t] = <<>>
      BY <1>4, <1>7 DEF Running
    <3> QED BY <3>1
  <2> QED BY <1>4, <1>7, <2>1 DEF Restoring, OneRestores, StackShared
<1>8. stack = "freed" => state = "Uninstalled"
  BY <1>3 DEF OneRestores
<1>9. CASE \E e \in BOOLEAN : setEnabled(e)
  <2>1. CASE UNCHANGED <<state, install>>
    BY <1>6, <1>9, <2>1 DEF setEnabled
  <2>2. CASE state = "NotInstalled" /\ state' = "Installed" /\ install' = [at |-> "stack", i |-> 1]
    <3>1. InstallSteps' /\ \A t \in Receivers : ~ Running(t)
      BY <1>3, <1>4, <1>9, <2>2 DEF setEnabled, InstallSteps, AllOriginal
    <3> QED BY <1>7, <1>8, <1>9, <2>2, <3>1 DEF setEnabled
  <2> QED BY <1>9, <2>1, <2>2 DEF setEnabled
<1>10. CASE SetStack
  <2>1. InstallSteps' /\ state' # "Uninstalled" /\ stack' # "freed" /\ \A t \in Receivers : ~ Running(t)
    <3>1. install.at = "stack" /\ state = "Installed" /\ AllOriginal /\ \A t \in Receivers : ~ Running(t)
      BY <1>3, <1>10 DEF SetStack, InstallSteps
    <3>2. CASE stack' = "live" /\ install' = [install EXCEPT !.at = "handlers"] /\ UNCHANGED state
      BY <1>3, <1>4, <1>5, <1>10, <3>1, <3>2 DEF SetStack, InstallSteps, AllOriginal, OnceOurs,
         SignalTypeOK, Signals
    <3>3. CASE InstallFails /\ UNCHANGED stack
      BY <1>3, <1>4, <1>8, <1>10, <3>1, <3>3 DEF SetStack, InstallFails, InstallSteps, AllOriginal,
         SignalTypeOK
    <3> QED BY <1>10, <3>2, <3>3 DEF SetStack
  <2> QED BY <1>7, <2>1
<1>11. CASE SetHandler
  <2>1. install.at = "handlers" /\ install.i \in Signals /\ state = "Installed" /\ \A t \in Receivers : ~ Running(t)
    BY <1>3, <1>5, <1>11 DEF SetHandler, InstallSteps, OnceOurs, SignalTypeOK, Signals
  <2>2. InstallSteps'
    BY <1>3, <1>4, <1>5, <1>11, <2>1 DEF SetHandler, InstallSteps, AllOriginal, SignalTypeOK, Signals
  <2> QED BY <1>7, <1>8, <1>11, <2>1, <2>2 DEF SetHandler
<1>12. CASE UndoHandler
  <2>1. install.at = "undo" /\ state = "Installed" /\ \A t \in Receivers : ~ Running(t)
    BY <1>3, <1>12 DEF UndoHandler, InstallSteps
  <2>2. /\ install.i \in 0 .. Count /\ UNCHANGED previous
        /\ \A s \in Signals :
             IF s <= install.i THEN action[s] = "ours" /\ previous[s] = "original" ELSE action[s] = "original"
    BY <1>3, <1>12 DEF UndoHandler, InstallSteps, OnceOurs, SignalTypeOK
  <2>3. ASSUME install.i = 0, InstallFails, UNCHANGED action
        PROVE  InstallSteps'
    <3>1. state' = "FailedInstall" /\ install'.at = "idle" /\ AllOriginal'
      BY <1>3, <2>2, <2>3 DEF InstallFails, AllOriginal, SignalTypeOK, Signals
    <3>2. \A t \in Receivers : ~ Running(t)'
      BY <1>4, <2>1
    <3> QED BY <3>1, <3>2 DEF InstallSteps
  <2>4. ASSUME install.i # 0,
               action' = [action EXCEPT ![install.i] = previous[install.i]],
               install' = [install EXCEPT !.i = @ - 1],
               UNCHANGED state
        PROVE  InstallSteps'
    <3>1. install.i \in Signals /\ install'.at = "undo" /\ install'.i = install.i - 1
      BY <1>3, <1>5, <2>1, <2>2, <2>4 DEF SignalTypeOK, Signals
    <3>2. \A s \in Signals :
            IF s <= install'.i THEN action'[s] = "ours" /\ previous'[s] = "original" ELSE action'[s] = "original"
      BY <1>3, <1>5, <2>2, <2>4, <3>1 DEF SignalTypeOK, Signals
    <3>3. \A t \in Receivers : ~ Running(t)'
      BY <1>4, <2>1
    <3>4. state' = "Installed"
      BY <2>1, <2>4
    <3> QED BY <3>1, <3>2, <3>3, <3>4 DEF InstallSteps
  <2>5. InstallSteps'
    BY <1>12, <2>3, <2>4 DEF UndoHandler
  <2> QED BY <1>7, <1>8, <1>12, <2>1, <2>5 DEF UndoHandler, InstallFails
<1>13. CASE InstallReturns
  <2>1. install.at = "handlers" /\ state = "Installed" /\ \A t \in Receivers : ~ Running(t)
    BY <1>3, <1>13 DEF InstallReturns, InstallSteps
  <2>2. InstallSteps'
    BY <1>3, <1>4, <1>5, <1>13, <2>1 DEF InstallReturns, InstallSteps, AllOriginal, SignalTypeOK, Signals
  <2> QED BY <1>7, <1>8, <1>13, <2>1, <2>2 DEF InstallReturns
<1> QED BY <1>9, <1>10, <1>11, <1>12, <1>13 DEF InstallStep

-----------------------------------------------------------------------------
(***************************************************************************)
(* A handler's own steps                                                   *)
(***************************************************************************)
\* A handler that runs has been installed, and the previous ones are known.
LEMMA HandlerInstalled ==
  ASSUME SignalInv, ~ interrupted, ~ nested, NEW t \in Receivers, Running(t)
  PROVE  /\ SignalTypeOK /\ OnceOurs /\ Alone /\ InstallSteps /\ Restoring /\ OneRestores /\ StackShared
         /\ install.at = "idle" /\ state \in {"Installed", "Uninstalled"}
         /\ state = "Installed" => \A s \in Signals : action[s] = "ours"
         /\ \A s \in Signals : previous[s] = "original"
<1>1. SignalTypeOK /\ OnceOurs /\ Alone /\ InstallSteps /\ Restoring /\ OneRestores /\ StackShared
  BY DEF SignalInv
<1>2. install.at = "idle" /\ state \in {"Installed", "Uninstalled"}
  BY <1>1 DEF InstallSteps, SignalTypeOK
<1> QED BY <1>1, <1>2 DEF InstallSteps

\* What the innermost handler of a thread does, but for raise()
OwnStep(t) == isEnabled(t) \/ Report(t) \/ Uninstall(t) \/ Restore(t) \/ Free(t)

\* It stays the innermost, and handles the same signal.
LEMMA OwnStepMoves ==
  ASSUME SignalTypeOK, NEW t \in Receivers, Running(t), OwnStep(t)
  PROVE  \E f \in Frames :
           /\ SetTop(t, f) /\ f.again = Top(t).again /\ f.signal = Top(t).signal
           /\ \/ isEnabled(t) /\ f.at \in {"report", "uninstall"} /\ f.i = Top(t).i
              \/ Report(t) /\ f.at = "uninstall" /\ f.i = Top(t).i
              \/ Uninstall(t) /\ f.i = Top(t).i /\ state = "Installed" /\ state' = "Uninstalled" /\ f.at = "restore"
              \/ Uninstall(t) /\ f.i = Top(t).i /\ state # "Installed" /\ state' = state /\ f.at = "raise"
              \/ /\ Restore(t) /\ f.at = "restore" /\ Top(t).i \in Signals /\ f.i = Top(t).i + 1
                 /\ action' = [action EXCEPT ![Top(t).i] = previous[Top(t).i]]
              \/ Restore(t) /\ f.at = "free" /\ Top(t).i = Count + 1 /\ f.i = Top(t).i /\ action' = action
              \/ Free(t) /\ f.at = "raise" /\ f.i = Top(t).i
<1> DEFINE g == Top(t)
<1>1. g \in Frames
  <2>1. frames[t] \in Seq(Frames) /\ frames[t] # <<>>
    BY DEF SignalTypeOK, Running
  <2> HIDE DEF Frames
  <2> QED BY <2>1, Popped DEF Top
<1>2. Count \in Nat
  BY SignalAssumption
<1> HIDE DEF g
<1>3. \A place \in {"check", "report", "uninstall", "restore", "free", "raise"} :
        /\ [g EXCEPT !.at = place] \in Frames
        /\ [g EXCEPT !.at = place].at = place
        /\ [g EXCEPT !.at = place].i = g.i
        /\ [g EXCEPT !.at = place].again = g.again
        /\ [g EXCEPT !.at = place].signal = g.signal
  BY <1>1 DEF Frames
<1>4. g.i <= Count =>
        /\ [g EXCEPT !.i = @ + 1] \in Frames
        /\ [g EXCEPT !.i = @ + 1].at = g.at
        /\ [g EXCEPT !.i = @ + 1].i = g.i + 1
        /\ [g EXCEPT !.i = @ + 1].again = g.again
        /\ [g EXCEPT !.i = @ + 1].signal = g.signal
        /\ g.i \in Signals
  BY <1>1, <1>2 DEF Frames, Signals
<1>5. ~ (g.i <= Count) => g.i = Count + 1
  BY <1>1, <1>2 DEF Frames
<1> HIDE DEF Frames
<1>6. CASE isEnabled(t)
  <2>1. PICK place \in {"report", "uninstall"} : SetTop(t, [g EXCEPT !.at = place])
    BY <1>6 DEF isEnabled, Moves, g
  <2> QED BY <1>3, <1>6, <2>1 DEF g
<1>7. CASE Report(t)
  <2>1. SetTop(t, [g EXCEPT !.at = "uninstall"])
    BY <1>7 DEF Report, Moves, g
  <2> QED BY <1>3, <1>7, <2>1 DEF g
<1>8. CASE Uninstall(t)
  <2>1. CASE state = "Installed"
    <3>1. SetTop(t, [g EXCEPT !.at = "restore"]) /\ state' = "Uninstalled"
      BY <1>8, <2>1 DEF Uninstall, Moves, g
    <3> QED BY <1>3, <1>8, <2>1, <3>1 DEF g
  <2>2. CASE state # "Installed"
    <3>1. SetTop(t, [g EXCEPT !.at = "raise"]) /\ state' = state
      BY <1>8, <2>2 DEF Uninstall, Moves, g
    <3> QED BY <1>3, <1>8, <2>2, <3>1 DEF g
  <2> QED BY <2>1, <2>2
<1>9. CASE Restore(t)
  <2>1. g.at = "restore"
    BY <1>9 DEF Restore, g
  <2>2. CASE g.i <= Count
    <3>1. SetTop(t, [g EXCEPT !.i = @ + 1]) /\ action' = [action EXCEPT ![g.i] = previous[g.i]]
      BY <1>9, <2>2 DEF Restore, g
    <3> QED BY <1>4, <1>9, <2>1, <2>2, <3>1 DEF g
  <2>3. CASE ~ (g.i <= Count)
    <3>1. SetTop(t, [g EXCEPT !.at = "free"]) /\ action' = action
      BY <1>9, <2>3 DEF Restore, Moves, g
    <3> QED BY <1>3, <1>5, <1>9, <2>3, <3>1 DEF g
  <2> QED BY <2>2, <2>3
<1>10. CASE Free(t)
  <2>1. SetTop(t, [g EXCEPT !.at = "raise"])
    BY <1>10 DEF Free, Moves, g
  <2> QED BY <1>3, <1>10, <2>1 DEF g
<1> QED BY <1>6, <1>7, <1>8, <1>9, <1>10 DEF OwnStep

LEMMA OwnStepBase ==
  ASSUME SignalInv, NEW t \in Receivers, Running(t), OwnStep(t),
         UNCHANGED <<enabled, previous, install, sent, nested>>
  PROVE  SignalTypeOK' /\ OnceOurs' /\ Alone'
<1>1. SignalTypeOK /\ OnceOurs /\ Alone
  BY DEF SignalInv
<1>2. PICK f \in Frames : SetTop(t, f)
  BY <1>1, OwnStepMoves
<1>3. /\ frames' \in [Receivers -> Seq(Frames)]
      /\ \A u \in Receivers : (Running(u)' <=> Running(u)) /\ Len(frames'[u]) = Len(frames[u])
  <2> HIDE DEF Frames
  <2>1. /\ frames' \in [Receivers -> Seq(Frames)] /\ Running(t)' /\ Len(frames'[t]) = Len(frames[t])
        /\ \A u \in Receivers \ {t} : frames'[u] = frames[u]
    BY <1>1, <1>2, TopMoves
  <2> QED BY <2>1 DEF Running
<1>4. UNCHANGED <<enabled, previous, install, sent, nested, ended, interrupted, crowded>>
  BY DEF OwnStep, isEnabled, Report, Uninstall, Restore, Free
<1>5. Alone'
  BY <1>1, <1>3, <1>4 DEF Alone
<1>6. /\ state' \in {state, "Uninstalled"}
      /\ stack' \in {"none", "live", "freed"}
      /\ action' \in [Signals -> {"original", "ours", "garbage"}]
      /\ \A s \in Signals : action'[s] = "ours" => action[s] = "ours"
  <2>1. CASE Restore(t)
    <3>1. CASE action' = action
      BY <1>1, <2>1, <3>1 DEF Restore, SignalTypeOK
    <3>2. ASSUME Top(t).i \in Signals, action' = [action EXCEPT ![Top(t).i] = previous[Top(t).i]]
          PROVE  /\ action' \in [Signals -> {"original", "ours", "garbage"}]
                 /\ \A s \in Signals : action'[s] = "ours" => action[s] = "ours"
      <4>1. previous[Top(t).i] \in {"original", "garbage"}
        BY <1>1, <3>2 DEF SignalTypeOK
      <4>2. action \in [Signals -> {"original", "ours", "garbage"}]
        BY <1>1 DEF SignalTypeOK
      <4> QED BY <3>2, <4>1, <4>2
    <3>3. state' = state /\ stack' = stack /\ stack \in {"none", "live", "freed"}
      BY <1>1, <2>1 DEF Restore, SignalTypeOK
    <3>4. Top(t) \in Frames
      <4> HIDE DEF Frames
      <4> QED BY <1>1, <1>2, TopMoves
    <3>5. Top(t).i <= Count => Top(t).i \in Signals
      BY <3>4, SignalAssumption DEF Frames, Signals
    <3> QED BY <2>1, <3>1, <3>2, <3>3, <3>5 DEF Restore
  <2>2. CASE isEnabled(t) \/ Report(t) \/ Uninstall(t) \/ Free(t)
    BY <1>1, <2>2 DEF isEnabled, Report, Uninstall, Free, SignalTypeOK
  <2> QED BY <2>1, <2>2 DEF OwnStep
<1>7. OnceOurs'
  <2>1. install' = install
    BY <1>4
  <2>2. state' = "NotInstalled" => state = "NotInstalled"
    BY <1>6
  <2>3. \A s \in Signals : Untouched(s)' => Untouched(s)
    BY <2>1, <2>2 DEF Untouched
  <2> QED BY <1>1, <1>6, <2>1, <2>2, <2>3 DEF OnceOurs
<1>8. SignalTypeOK'
  <2> HIDE DEF Frames
  <2> QED BY <1>1, <1>3, <1>4, <1>6 DEF SignalTypeOK
<1> QED BY <1>5, <1>7, <1>8

LEMMA OwnStepKeeps ==
  ASSUME SignalInv, NEW t \in Receivers, Running(t), OwnStep(t),
         UNCHANGED <<enabled, previous, install, sent, nested>>
  PROVE  SignalInv'
<1>1. SignalTypeOK' /\ OnceOurs' /\ Alone'
  BY OwnStepBase
<1>2. UNCHANGED <<enabled, previous, install, sent, nested, ended, interrupted, crowded>>
  BY DEF OwnStep, isEnabled, Report, Uninstall, Restore, Free
<1>3. SUFFICES ASSUME ~ interrupted, ~ nested
               PROVE  InstallSteps' /\ Restoring' /\ OneRestores' /\ StackShared'
  BY <1>1, <1>2 DEF SignalInv
<1>4. /\ SignalTypeOK /\ OnceOurs /\ Alone /\ InstallSteps /\ Restoring /\ OneRestores /\ StackShared
      /\ install.at = "idle" /\ state \in {"Installed", "Uninstalled"}
      /\ state = "Installed" => \A s \in Signals : action[s] = "ours"
      /\ \A s \in Signals : previous[s] = "original"
  BY <1>3, HandlerInstalled
<1> HIDE DEF Frames
<1> DEFINE g == Top(t)
<1>5. PICK f \in Frames :
           /\ SetTop(t, f) /\ f.again = g.again /\ f.signal = g.signal
           /\ \/ isEnabled(t) /\ f.at \in {"report", "uninstall"} /\ f.i = g.i
              \/ Report(t) /\ f.at = "uninstall" /\ f.i = g.i
              \/ Uninstall(t) /\ f.i = g.i /\ state = "Installed" /\ state' = "Uninstalled" /\ f.at = "restore"
              \/ Uninstall(t) /\ f.i = g.i /\ state # "Installed" /\ state' = state /\ f.at = "raise"
              \/ /\ Restore(t) /\ f.at = "restore" /\ g.i \in Signals /\ f.i = g.i + 1
                 /\ action' = [action EXCEPT ![g.i] = previous[g.i]]
              \/ Restore(t) /\ f.at = "free" /\ g.i = Count + 1 /\ f.i = g.i /\ action' = action
              \/ Free(t) /\ f.at = "raise" /\ f.i = g.i
  BY <1>4, OwnStepMoves
<1>6. /\ Top(t)' = f /\ g \in Frames /\ Running(t)'
      /\ \A u \in Receivers \ {t} : frames'[u] = frames[u]
      /\ Len(frames'[t]) = Len(frames[t]) /\ Len(frames[t]) \in DOMAIN frames[t]
      /\ \A j \in DOMAIN frames'[t] :
           j \in DOMAIN frames[t] /\ frames'[t][j] = IF j = Len(frames[t]) THEN f ELSE frames[t][j]
  BY <1>4, <1>5, TopMoves
<1>7. \A u \in Receivers \ {t} : (Running(u)' <=> Running(u)) /\ Top(u)' = Top(u)
  BY <1>6 DEF Running, Top
<1>8. frames[t][Len(frames[t])] = g
  BY DEF Top
<1> HIDE DEF g
\* What is known of the innermost handler
<1>9. /\ g.at \in {"restore", "free", "raise"} \/ g.again => state = "Uninstalled"
      /\ g.at \in {"check", "report", "uninstall"} => g.i = 1
      /\ Uninstalling(g) => ~ g.again
      /\ g.at = "restore" => \A s \in Signals : action[s] = IF s < g.i THEN "original" ELSE "ours"
      /\ g.at = "free" => AllOriginal
  BY <1>4, <1>6, <1>8 DEF Restoring
\* Another handler does not restore anything if this one does, and is not
\* below it.
<1>10. ASSUME NEW u \in Receivers, NEW j \in DOMAIN frames'[u], u # t \/ j # Len(frames[t])
       PROVE  /\ j \in DOMAIN frames[u] /\ frames'[u][j] = frames[u][j] /\ Len(frames'[u]) = Len(frames[u])
              /\ Uninstalling(g) \/ state = "Installed" => ~ Uninstalling(frames[u][j])
  <2>1. j \in DOMAIN frames[u] /\ frames'[u][j] = frames[u][j] /\ Len(frames'[u]) = Len(frames[u])
    <3>1. CASE u = t
      BY <1>6, <1>10, <3>1
    <3>2. CASE u # t
      BY <1>6, <3>2
    <3> QED BY <3>1, <3>2
  <2>2. ASSUME Uninstalling(frames[u][j]) PROVE ~ Uninstalling(g) /\ state # "Installed"
    <3>1. j = Len(frames[u]) /\ state = "Uninstalled" /\ u # t
      BY <1>4, <1>10, <2>1, <2>2 DEF Restoring, Uninstalling
    <3>2. Running(u) /\ Top(u) = frames[u][j]
      <4>1. frames[u] # <<>>
        BY <2>1
      <4> QED BY <3>1, <4>1 DEF Running, Top
    <3> QED BY <1>4, <2>2, <3>1, <3>2 DEF OneRestores, g
  <2> QED BY <2>1, <2>2
<1>11. \A s \in Signals : state' = "Installed" => action'[s] = "ours"
  BY <1>4, <1>5, <1>9 DEF isEnabled, Report, Uninstall, Restore, Free, g
<1>12. state' \in {"Installed", "Uninstalled"} /\ (state = "Uninstalled" => state' = "Uninstalled")
  BY <1>4, <1>5 DEF isEnabled, Report, Uninstall, Restore, Free
<1>13. InstallSteps'
  BY <1>2, <1>4, <1>11, <1>12 DEF InstallSteps
\* The handlers are only touched by who restores them.
<1>14. action' = action \/ (Restore(t) /\ Uninstalling(g))
  <2>1. Restore(t) => Uninstalling(g)
    BY DEF Restore, Uninstalling, g
  <2>2. isEnabled(t) \/ Report(t) \/ Uninstall(t) \/ Free(t) => action' = action
    BY DEF isEnabled, Report, Uninstall, Free
  <2>3. CASE Restore(t)
    BY <2>1, <2>3
  <2>4. CASE isEnabled(t) \/ Report(t) \/ Uninstall(t) \/ Free(t)
    BY <2>2, <2>4
  <2> QED BY <2>3, <2>4 DEF OwnStep
<1>15. f.at = "restore" => \A s \in Signals : action'[s] = IF s < f.i THEN "original" ELSE "ours"
  <2>1. CASE Uninstall(t) /\ state = "Installed"
    <3>1. f.i = 1 /\ action' = action
      <4>1. g.at = "uninstall" /\ g.i = 1 /\ action' = action
        BY <1>9, <2>1 DEF Uninstall, g
      <4>2. ~ Restore(t) /\ ~ Free(t)
        BY <4>1 DEF Restore, Free, g
      <4> QED BY <1>5, <4>1, <4>2
    <3>2. \A s \in Signals : ~ (s < 1)
      BY DEF Signals
    <3> QED BY <1>4, <2>1, <3>1, <3>2
  <2>2. CASE Restore(t) /\ g.i \in Signals /\ f.i = g.i + 1 /\ action' = [action EXCEPT ![g.i] = previous[g.i]]
    <3>1. \A s \in Signals : action[s] = IF s < g.i THEN "original" ELSE "ours"
      BY <1>9, <2>2 DEF Restore, g
    <3>2. ASSUME NEW s \in Signals PROVE action'[s] = IF s < g.i + 1 THEN "original" ELSE "ours"
      <4>1. action'[s] = IF s = g.i THEN "original" ELSE action[s]
        BY <1>4, <2>2 DEF SignalTypeOK
      <4>2. (s < g.i + 1) = (s = g.i \/ s < g.i)
        BY <2>2 DEF Signals
      <4> QED BY <3>1, <4>1, <4>2
    <3> QED BY <2>2, <3>2
  <2> QED BY <1>5, <2>1, <2>2
<1>16. f.at = "free" => AllOriginal'
  <2>1. CASE Restore(t) /\ g.i = Count + 1 /\ action' = action
    <3>1. \A s \in Signals : s < g.i
      BY <2>1, SignalAssumption DEF Signals
    <3>2. \A s \in Signals : action[s] = IF s < g.i THEN "original" ELSE "ours"
      BY <1>9, <2>1 DEF Restore, g
    <3> QED BY <2>1, <3>1, <3>2 DEF AllOriginal
  <2> QED BY <1>5, <2>1
<1>17. f.at \in {"restore", "free", "raise"} \/ f.again => state' = "Uninstalled"
  BY <1>4, <1>5, <1>9, <1>12 DEF Restore, Free, g
<1>18. Uninstalling(f) => ~ f.again
  BY <1>4, <1>5, <1>9 DEF Uninstalling, Restore, Free, g
<1>19. f.at \in {"check", "report", "uninstall"} => f.i = 1
  BY <1>5, <1>9 DEF isEnabled, Report, g
<1>20. Restoring'
  <2>1. SUFFICES ASSUME NEW u \in Receivers, NEW j \in DOMAIN frames'[u]
                 PROVE  LET h == frames'[u][j] IN
                        /\ h.at \in {"restore", "free", "raise"} \/ h.again => state' = "Uninstalled"
                        /\ h.at \in {"check", "report", "uninstall"} => h.i = 1
                        /\ Uninstalling(h) => j = Len(frames'[u]) /\ ~ h.again
                        /\ h.at = "restore" => \A s \in Signals : action'[s] = IF s < h.i THEN "original" ELSE "ours"
                        /\ h.at = "free" => AllOriginal'
    BY DEF Restoring, Uninstalling
  <2>2. CASE u = t /\ j = Len(frames[t])
    BY <1>6, <1>15, <1>16, <1>17, <1>18, <1>19, <2>2
  <2>3. CASE u # t \/ j # Len(frames[t])
    <3> DEFINE h == frames[u][j]
    <3>1. /\ j \in DOMAIN frames[u] /\ frames'[u][j] = h /\ Len(frames'[u]) = Len(frames[u])
          /\ Uninstalling(g) \/ state = "Installed" => ~ Uninstalling(h)
      BY <1>10, <2>3
    <3>2. /\ h.at \in {"restore", "free", "raise"} \/ h.again => state = "Uninstalled"
          /\ h.at \in {"check", "report", "uninstall"} => h.i = 1
          /\ Uninstalling(h) => j = Len(frames[u]) /\ ~ h.again
          /\ h.at = "restore" => \A s \in Signals : action[s] = IF s < h.i THEN "original" ELSE "ours"
          /\ h.at = "free" => AllOriginal
      BY <1>4, <3>1 DEF Restoring
    <3> HIDE DEF h
    <3>3. Uninstalling(h) => action' = action
      BY <1>14, <3>1
    <3> QED BY <1>12, <3>1, <3>2, <3>3 DEF Uninstalling, AllOriginal
  <2> QED BY <2>2, <2>3
<1>21. Uninstalling(f) => Uninstalling(g) \/ state = "Installed"
  BY <1>5 DEF Uninstalling, Restore, Free, isEnabled, Report, Uninstall, g
<1>22. OneRestores'
  <2>1. ASSUME NEW u \in Receivers, u # t, Running(u), Uninstalling(Top(u)) PROVE ~ Uninstalling(f)
    <3>1. state = "Uninstalled"
      <4>1. Len(frames[u]) \in DOMAIN frames[u] /\ Top(u) = frames[u][Len(frames[u])]
        <5>1. frames[u] \in Seq(Frames) /\ frames[u] # <<>>
          BY <1>4, <2>1 DEF SignalTypeOK, Running
        <5> QED BY <5>1, Popped DEF Top
      <4> QED BY <1>4, <2>1, <4>1 DEF Restoring, Uninstalling
    <3> QED BY <1>4, <1>21, <2>1, <3>1 DEF OneRestores, g
  <2>2. \A u, v \in Receivers : Running(u)' /\ Uninstalling(Top(u)') /\ Running(v)' /\ Uninstalling(Top(v)') => u = v
    BY <1>4, <1>6, <1>7, <2>1 DEF OneRestores
  <2>3. state' = "Uninstalled" => AllOriginal' \/ \E u \in Receivers : Running(u)' /\ Top(u)'.at = "restore"
    <3>1. CASE f.at = "restore"
      BY <1>6, <3>1
    <3>2. CASE f.at = "free"
      BY <1>16, <3>2
    <3>3. CASE Free(t)
      BY <1>9, <3>3 DEF Free, AllOriginal, g
    <3>4. CASE state' = state /\ g.at # "restore" /\ action' = action
      BY <1>4, <1>7, <3>4 DEF OneRestores, AllOriginal, g
    <3> QED BY <1>5, <3>1, <3>2, <3>3, <3>4 DEF isEnabled, Report, Uninstall, g
  <2>4. stack' = "freed" => state' = "Uninstalled" /\ \A u \in Receivers : Running(u)' => ~ Uninstalling(Top(u)')
    <3>1. CASE Free(t)
      <4>1. Uninstalling(g) /\ ~ Uninstalling(f) /\ state = "Uninstalled"
        BY <1>5, <1>9, <3>1 DEF Free, isEnabled, Report, Uninstall, Restore, Uninstalling, g
      <4>2. \A u \in Receivers \ {t} : Running(u) => ~ Uninstalling(Top(u))
        BY <1>4, <4>1 DEF OneRestores, g
      <4> QED BY <1>6, <1>7, <1>12, <4>1, <4>2
    <3>2. CASE stack' = stack
      <4>1. stack = "freed" => state = "Uninstalled" /\ ~ Uninstalling(g)
        BY <1>4 DEF OneRestores, g
      <4> QED BY <1>4, <1>6, <1>7, <1>12, <1>21, <3>2, <4>1 DEF OneRestores
    <3> QED BY <3>1, <3>2 DEF OwnStep, isEnabled, Report, Uninstall, Restore
  <2> QED BY <2>2, <2>3, <2>4 DEF OneRestores, Uninstalling
<1>23. StackShared'
  <2>1. SUFFICES ASSUME Running(Installer)', Top(Installer)'.at \in {"check", "report"}, stack' = "freed"
                 PROVE  crowded
    BY <1>2 DEF StackShared
  <2>2. Installer \in Receivers
    BY DEF Receivers
  <2>3. CASE Free(t)
    <3>1. Installer # t
      BY <1>5, <1>6, <2>1, <2>3 DEF Free, isEnabled, Report, Uninstall, Restore, g
    <3> QED BY <1>4, <1>7, <2>1, <2>2, <3>1 DEF Alone
  <2>4. CASE stack' = stack
    <3>1. Running(Installer)
      BY <1>7, <2>1, <2>2
    <3>2. Top(Installer).at \in {"check", "report"}
      <4>1. CASE Installer = t
        <5>1. f.at \in {"check", "report"}
          BY <1>6, <2>1, <4>1
        <5>2. isEnabled(t)
          BY <1>5, <5>1
        <5> QED BY <4>1, <5>2 DEF isEnabled
      <4>2. CASE Installer # t
        BY <1>7, <2>1, <2>2, <4>2
      <4> QED BY <4>1, <4>2
    <3> QED BY <1>4, <2>1, <2>4, <3>1, <3>2 DEF StackShared
  <2> QED BY <2>3, <2>4 DEF OwnStep, isEnabled, Report, Uninstall, Restore
<1> QED BY <1>13, <1>20, <1>22, <1>23

-----------------------------------------------------------------------------
(***************************************************************************)
(* A signal is delivered: one that is sent, on top of all handlers fs of   *)
(* its thread, or one that is raised, on top of all but the innermost.     *)
(***************************************************************************)
LEMMA DeliverBase ==
  ASSUME SignalInv, NEW s \in Signals, NEW t \in Receivers, NEW again \in BOOLEAN, NEW fs \in Seq(Frames),
         Len(fs) <= Len(frames[t]), \A j \in 1 .. Len(fs) : fs[j] = frames[t][j],
         Deliver(s, t, fs, again),
         UNCHANGED <<enabled, state, action, previous, stack, install>>,
         sent' \in 0 .. MaxSignals, nested' \in BOOLEAN
  PROVE  SignalTypeOK' /\ OnceOurs' /\ Alone'
<1> HIDE DEF Frames
<1>1. SignalTypeOK /\ OnceOurs /\ Alone
  BY DEF SignalInv
<1> DEFINE Ours  == /\ Len(frames'[t]) = Len(fs) + 1
                    /\ crowded' = (crowded \/ fs # <<>> \/ \E u \in Receivers \ {t} : Running(u))
           Other == /\ Len(frames'[t]) = Len(fs) /\ crowded' = crowded
                    /\ Running(t)' => Len(fs) > 0
<1>2. /\ frames' \in [Receivers -> Seq(Frames)]
      /\ \A u \in Receivers \ {t} : frames'[u] = frames[u]
      /\ {ended', interrupted', crowded'} \subseteq BOOLEAN
      /\ Ours \/ Other
  BY <1>1, Arrived
<1>3. \A u \in Receivers \ {t} : Running(u)' = Running(u) /\ Len(frames'[u]) = Len(frames[u])
  BY <1>2 DEF Running
<1>4. Len(fs) \in Nat /\ Len(frames[t]) \in Nat /\ (Len(frames[t]) > 0 => Running(t))
  BY <1>1 DEF SignalTypeOK, Running
<1>5. Alone'
  <2>1. SUFFICES ASSUME ~ crowded'
                 PROVE  /\ \A u \in Receivers : Len(frames'[u]) <= 1
                        /\ \A u, v \in Receivers : Running(u)' /\ Running(v)' => u = v
    BY DEF Alone
  <2>2. CASE Ours
    <3>1. Len(frames'[t]) <= 1 /\ ~ crowded /\ \A u \in Receivers \ {t} : ~ Running(u)
      <4>1. ~ crowded /\ fs = <<>> /\ \A u \in Receivers \ {t} : ~ Running(u)
        BY <2>1, <2>2, Zenon
      <4>2. Len(fs) = 0
        BY <4>1
      <4> QED BY <2>2, <4>1, <4>2
    <3> QED BY <1>1, <1>3, <3>1 DEF Alone
  <2>3. CASE Other
    <3>1. ~ crowded /\ Len(frames'[t]) <= 1 /\ (Running(t)' => Running(t))
      BY <1>1, <1>4, <2>1, <2>3 DEF Alone
    <3> QED BY <1>1, <1>3, <3>1 DEF Alone
  <2> QED BY <1>2, <2>2, <2>3
<1>6. OnceOurs'
  BY <1>1 DEF OnceOurs, Untouched
<1>7. SignalTypeOK'
  BY <1>1, <1>2 DEF SignalTypeOK
<1> QED BY <1>5, <1>6, <1>7

LEMMA DeliverKeeps ==
  ASSUME SignalInv, NEW s \in Signals, NEW t \in Receivers, NEW again \in BOOLEAN, NEW fs \in Seq(Frames),
         Len(fs) <= Len(frames[t]), \A j \in 1 .. Len(fs) : fs[j] = frames[t][j],
         Deliver(s, t, fs, again),
         UNCHANGED <<enabled, state, action, previous, stack, install>>,
         ~ interrupted', ~ nested,
         again => state = "Uninstalled",
         \A j \in 1 .. Len(fs) : ~ Uninstalling(frames[t][j]),
         Running(t) => ~ Uninstalling(Top(t))
  PROVE  InstallSteps' /\ Restoring' /\ OneRestores' /\ StackShared'
<1> HIDE DEF Frames
<1>1. SignalTypeOK /\ OnceOurs /\ Alone
  BY DEF SignalInv
<1> DEFINE new   == Frame(s, again)
           Ours  == /\ action[s] = "ours"
                    /\ Len(frames'[t]) = Len(fs) + 1
                    /\ \A j \in DOMAIN frames'[t] :
                         IF j = Len(fs) + 1 THEN frames'[t][j] = new
                         ELSE j \in DOMAIN frames[t] /\ j <= Len(fs) /\ frames'[t][j] = frames[t][j]
                    /\ Running(t)' /\ Top(t)' = new
                    /\ interrupted' = (interrupted \/ install.at # "idle")
                    /\ crowded' = (crowded \/ fs # <<>> \/ \E u \in Receivers \ {t} : Running(u))
           Other == /\ action[s] # "ours"
                    /\ frames'[t] = fs /\ Len(frames'[t]) = Len(fs)
                    /\ \A j \in DOMAIN frames'[t] :
                         j \in DOMAIN frames[t] /\ j <= Len(fs) /\ frames'[t][j] = frames[t][j]
                    /\ Running(t)' => Len(fs) > 0 /\ Len(fs) \in DOMAIN frames[t] /\ Top(t)' = frames[t][Len(fs)]
                    /\ interrupted' = interrupted /\ crowded' = crowded
<1>2. /\ frames' \in [Receivers -> Seq(Frames)]
      /\ \A u \in Receivers \ {t} : frames'[u] = frames[u]
      /\ interrupted => interrupted'
      /\ Ours \/ Other
  BY SMTT(30), <1>1, Arrived
<1>3. /\ ~ interrupted /\ InstallSteps /\ Restoring /\ OneRestores /\ StackShared
  BY <1>2 DEF SignalInv
<1>4. new.at = "check" /\ new.i = 1 /\ new.again = again /\ ~ Uninstalling(new)
  BY DEF Frame, Uninstalling
<1> HIDE DEF new
<1>5. Len(fs) \in Nat /\ DOMAIN fs = 1 .. Len(fs) /\ Len(frames[t]) \in Nat /\ (Len(frames[t]) > 0 => Running(t))
      /\ DOMAIN frames[t] = 1 .. Len(frames[t])
  BY <1>1 DEF SignalTypeOK, Running
<1>6. \A u \in Receivers \ {t} : Running(u)' = Running(u) /\ Top(u)' = Top(u)
  BY <1>2 DEF Running, Top
\* What is delivered to us comes after install() and before the last handler
\* is restored.
<1>7. ASSUME Ours
      PROVE  install.at = "idle" /\ state \in {"Installed", "Uninstalled"} /\ ~ AllOriginal
  BY <1>1, <1>3, <1>7 DEF InstallSteps, AllOriginal, SignalTypeOK
<1>8. ASSUME stack = "freed" PROVE AllOriginal
  BY <1>3, <1>8 DEF OneRestores, Uninstalling
<1>9. Running(t)' => ~ Uninstalling(Top(t)')
  BY <1>2, <1>4, <1>5
<1>10. InstallSteps'
  <2>1. CASE \A u \in Receivers : Running(u)' => Running(u)
    BY <1>3, <2>1 DEF InstallSteps, AllOriginal
  <2>2. CASE Ours
    BY <1>3, <1>7, <2>2 DEF InstallSteps, AllOriginal
  <2>3. Other => (Running(t)' => Running(t))
    BY <1>5
  <2> QED BY <1>2, <1>6, <2>1, <2>2, <2>3
<1>11. Restoring'
  <2>1. SUFFICES ASSUME NEW u \in Receivers, NEW j \in DOMAIN frames'[u]
                 PROVE  LET h == frames'[u][j] IN
                        /\ h.at \in {"restore", "free", "raise"} \/ h.again => state = "Uninstalled"
                        /\ h.at \in {"check", "report", "uninstall"} => h.i = 1
                        /\ Uninstalling(h) => j = Len(frames'[u]) /\ ~ h.again
                        /\ h.at = "restore" => \A r \in Signals : action[r] = IF r < h.i THEN "original" ELSE "ours"
                        /\ h.at = "free" => AllOriginal
    BY DEF Restoring, Uninstalling, AllOriginal
  <2>2. CASE Ours /\ u = t /\ j = Len(fs) + 1
    <3>1. frames'[u][j] = new
      BY <2>2
    <3> QED BY <1>4, <3>1
  <2>3. CASE u = t /\ ~ (Ours /\ j = Len(fs) + 1)
    <3>1. j \in DOMAIN frames[t] /\ j <= Len(fs) /\ frames'[t][j] = frames[t][j]
      BY <1>2, <2>3
    <3>2. ~ Uninstalling(frames[t][j])
      BY <1>5, <3>1
    <3> QED BY <1>3, <2>3, <3>1, <3>2 DEF Restoring, Uninstalling
  <2>4. CASE u # t
    BY <1>2, <1>3, <2>4 DEF Restoring
  <2> QED BY <2>2, <2>3, <2>4
<1>12. OneRestores'
  <2>1. \A u \in Receivers : Running(u)' /\ Uninstalling(Top(u)') => u # t /\ Running(u) /\ Uninstalling(Top(u)) /\ Top(u)' = Top(u)
    BY <1>6, <1>9
  <2>2. \A u \in Receivers : Running(u) /\ Uninstalling(Top(u)) => u # t /\ Running(u)' /\ Top(u)' = Top(u)
    BY <1>6
  <2>3. \A u, v \in Receivers : Running(u)' /\ Uninstalling(Top(u)') /\ Running(v)' /\ Uninstalling(Top(v)') => u = v
    BY <1>3, <2>1 DEF OneRestores
  <2>4. state = "Uninstalled" => AllOriginal \/ \E u \in Receivers : Running(u)' /\ Top(u)'.at = "restore"
    BY <1>3, <2>2 DEF OneRestores, Uninstalling
  <2>5. stack = "freed" => state = "Uninstalled" /\ \A u \in Receivers : Running(u)' => ~ Uninstalling(Top(u)')
    BY <1>3, <2>1 DEF OneRestores
  <2> QED BY <2>3, <2>4, <2>5 DEF OneRestores, Uninstalling, AllOriginal
<1>13. StackShared'
  <2>1. SUFFICES ASSUME Running(Installer)', Top(Installer)'.at \in {"check", "report"}, stack = "freed"
                 PROVE  crowded'
    BY DEF StackShared
  <2>2. Installer \in Receivers
    BY DEF Receivers
  <2>3. Other
    BY <1>2, <1>7, <1>8, <2>1
  <2>4. CASE Installer # t
    BY <1>3, <1>6, <2>1, <2>2, <2>3, <2>4 DEF StackShared
  <2>5. CASE Installer = t
    <3>1. Len(fs) > 0 /\ Len(fs) \in DOMAIN frames[t] /\ Top(t)' = frames[t][Len(fs)]
      BY <2>1, <2>3, <2>5
    <3>2. CASE Len(fs) = Len(frames[t])
      <4>1. Running(t) /\ Top(t)' = Top(t)
        BY <1>5, <3>1, <3>2 DEF Top
      <4> QED BY <1>3, <2>1, <2>3, <2>5, <4>1 DEF StackShared
    <3>3. CASE Len(fs) # Len(frames[t])
      <4>1. ~ (Len(frames[t]) <= 1)
        BY <1>5, <3>1, <3>3
      <4> QED BY <1>1, <2>3, <4>1 DEF Alone
    <3> QED BY <3>2, <3>3
  <2> QED BY <2>4, <2>5
<1> QED BY <1>10, <1>11, <1>12, <1>13

LEMMA SendKeeps ==
  ASSUME SignalInv, NEW s \in Signals, NEW t \in Receivers, Send(s, t)
  PROVE  SignalInv'
<1> HIDE DEF Frames
<1>1. SignalTypeOK /\ frames[t] \in Seq(Frames)
  BY DEF SignalInv, SignalTypeOK
<1>2. PICK fs \in Seq(Frames) : fs = frames[t]
  BY <1>1
<1>3. /\ Deliver(s, t, fs, FALSE) /\ UNCHANGED <<enabled, state, action, previous, stack, install>>
      /\ sent' = sent + 1 /\ sent < MaxSignals
      /\ nested' = (nested \/ (Running(t) /\ Uninstalling(Top(t))))
  BY <1>2 DEF Send
<1>4. Len(fs) <= Len(frames[t]) /\ \A j \in 1 .. Len(fs) : fs[j] = frames[t][j]
  BY <1>2
<1>5. sent' \in 0 .. MaxSignals
  BY <1>1, <1>3, SignalAssumption DEF SignalTypeOK
<1>6. nested' \in BOOLEAN
  BY <1>1, <1>3 DEF SignalTypeOK
<1>7. SignalTypeOK' /\ OnceOurs' /\ Alone'
  BY <1>3, <1>4, <1>5, <1>6, DeliverBase
<1>8. SUFFICES ASSUME ~ interrupted', ~ nested'
               PROVE  InstallSteps' /\ Restoring' /\ OneRestores' /\ StackShared'
  BY <1>7 DEF SignalInv
<1>9. ~ nested /\ (Running(t) => ~ Uninstalling(Top(t)))
  BY <1>3, <1>8
<1>10. ~ interrupted
  BY <1>1, <1>3, <1>4, <1>8, Arrived
\* None of the handlers that the new one is on top of restores anything.
<1>11. ASSUME NEW j \in 1 .. Len(fs) PROVE ~ Uninstalling(frames[t][j])
  <2>1. j \in DOMAIN frames[t] /\ frames[t] # <<>>
    BY <1>2
  <2>2. Restoring
    BY <1>9, <1>10 DEF SignalInv
  <2>3. Uninstalling(frames[t][j]) => j = Len(frames[t])
    BY <2>1, <2>2 DEF Restoring
  <2> QED BY <1>9, <2>1, <2>3 DEF Running, Top
<1> QED BY <1>3, <1>4, <1>8, <1>9, <1>11, DeliverKeeps

LEMMA RaiseKeeps ==
  ASSUME SignalInv, NEW t \in Receivers, Running(t), RaiseAgain(t),
         UNCHANGED <<enabled, previous, install, sent, nested>>
  PROVE  SignalInv'
<1> DEFINE s == Top(t).signal
<1>1. SignalTypeOK /\ frames[t] \in Seq(Frames) /\ frames[t] # <<>>
  BY DEF SignalInv, SignalTypeOK, Running
<1> HIDE DEF Frames
<1>2. /\ Len(frames[t]) \in Nat \ {0} /\ DOMAIN frames[t] = 1 .. Len(frames[t]) /\ Top(t) \in Frames
      /\ Front(frames[t]) \in Seq(Frames) /\ Len(Front(frames[t])) = Len(frames[t]) - 1
      /\ \A j \in 1 .. Len(frames[t]) - 1 : Front(frames[t])[j] = frames[t][j]
  BY <1>1, Popped DEF Top
<1>3. s \in Signals
  BY <1>2 DEF Frames
<1>4. PICK fs \in Seq(Frames) : fs = Front(frames[t])
  BY <1>2
<1>5. Top(t).at = "raise" /\ Deliver(s, t, fs, TRUE) /\ UNCHANGED <<enabled, state, action, previous, stack, install>>
  BY <1>4 DEF RaiseAgain
<1> HIDE DEF s
<1>6. Len(fs) = Len(frames[t]) - 1 /\ Len(fs) <= Len(frames[t]) /\ \A j \in 1 .. Len(fs) : fs[j] = frames[t][j]
  BY <1>2, <1>4
<1>7. sent' \in 0 .. MaxSignals /\ nested' \in BOOLEAN
  BY <1>1 DEF SignalTypeOK
<1>8. SignalTypeOK' /\ OnceOurs' /\ Alone'
  BY <1>3, <1>5, <1>6, <1>7, DeliverBase
<1>9. SUFFICES ASSUME ~ interrupted', ~ nested
               PROVE  InstallSteps' /\ Restoring' /\ OneRestores' /\ StackShared'
  BY <1>8 DEF SignalInv
<1>10. ~ interrupted
  BY <1>1, <1>3, <1>5, <1>6, <1>9, Arrived
<1>11. Restoring
  BY <1>9, <1>10 DEF SignalInv
<1>12. state = "Uninstalled"
  <2>1. Len(frames[t]) \in DOMAIN frames[t] /\ Top(t) = frames[t][Len(frames[t])]
    BY <1>2 DEF Top
  <2> QED BY <1>5, <1>11, <2>1 DEF Restoring
<1>13. ~ Uninstalling(Top(t))
  BY <1>5 DEF Uninstalling
<1>14. ASSUME NEW j \in 1 .. Len(fs) PROVE ~ Uninstalling(frames[t][j])
  <2>1. j \in DOMAIN frames[t] /\ j # Len(frames[t])
    BY <1>2, <1>6
  <2> QED BY <1>11, <2>1 DEF Restoring
<1> QED BY <1>3, <1>5, <1>6, <1>9, <1>12, <1>13, <1>14, DeliverKeeps

-----------------------------------------------------------------------------
LEMMA SignalInvNext == SignalInv /\ [SignalNext]_signalVars => SignalInv'
<1> SUFFICES ASSUME SignalInv, [SignalNext]_signalVars PROVE SignalInv'
  OBVIOUS
<1>1. CASE \E s \in Signals, t \in Receivers : Send(s, t)
  BY <1>1, SendKeeps
<1>2. CASE InstallStep
  BY <1>2, InstallKeeps
<1>3. ASSUME NEW t \in Receivers, handleSignal(t) PROVE SignalInv'
  <2>1. Running(t) /\ UNCHANGED <<enabled, previous, install, sent, nested>>
    BY <1>3 DEF handleSignal
  <2>2. CASE OwnStep(t)
    BY <2>1, <2>2, OwnStepKeeps
  <2>3. CASE RaiseAgain(t)
    BY <2>1, <2>3, RaiseKeeps
  <2> QED BY <1>3, <2>2, <2>3 DEF handleSignal, OwnStep
<1>4. CASE UNCHANGED signalVars
  BY <1>4 DEF signalVars, SignalInv, SignalTypeOK, OnceOurs, Untouched, Alone, InstallSteps, AllOriginal,
     Restoring,
              OneRestores, StackShared, Running, Top
<1> QED BY <1>1, <1>2, <1>3, <1>4 DEF SignalNext, InstallStep, Ended

LEMMA SignalInvRestored == SignalInv => SignalsRestored
<1> SUFFICES ASSUME SignalInv, ~ interrupted, ~ nested
             PROVE  /\ install.at = "idle" /\ (\A t \in Receivers : ~ Running(t)) =>
                         \A s \in Signals : action[s] = IF state = "Installed" THEN "ours" ELSE "original"
                    /\ \A t \in Receivers : Running(t) /\ Top(t).again /\ action[Top(t).signal] = "ours" =>
                         \E u \in Receivers \ {t} : Running(u) /\ Top(u).at = "restore" /\ Top(u).i <= Top(t).signal
                    /\ StackShared
  BY DEF SignalsRestored, StackShared
<1> HIDE DEF Frames
<1>1. SignalTypeOK /\ InstallSteps /\ Restoring /\ OneRestores /\ StackShared
  BY DEF SignalInv
<1>2. ASSUME install.at = "idle", \A t \in Receivers : ~ Running(t)
      PROVE  \A s \in Signals : action[s] = IF state = "Installed" THEN "ours" ELSE "original"
  <2>1. CASE state = "Installed"
    BY <1>1, <1>2, <2>1 DEF InstallSteps
  <2>2. CASE state = "Uninstalled"
    BY <1>1, <1>2, <2>2 DEF OneRestores, AllOriginal
  <2>3. CASE state \in {"NotInstalled", "FailedInstall"}
    BY <1>1, <2>3 DEF InstallSteps, AllOriginal
  <2> QED BY <1>1, <2>1, <2>2, <2>3 DEF SignalTypeOK
<1>3. ASSUME NEW t \in Receivers, Running(t), Top(t).again, action[Top(t).signal] = "ours"
      PROVE  \E u \in Receivers \ {t} : Running(u) /\ Top(u).at = "restore" /\ Top(u).i <= Top(t).signal
  \* The innermost handler of a thread is one of its handlers.
  <2>1. ASSUME NEW u \in Receivers, Running(u)
        PROVE  Len(frames[u]) \in DOMAIN frames[u] /\ Top(u) = frames[u][Len(frames[u])] /\ Top(u) \in Frames
    <3>1. frames[u] \in Seq(Frames) /\ frames[u] # <<>>
      BY <1>1, <2>1 DEF SignalTypeOK, Running
    <3> QED BY <3>1, Popped DEF Top
  <2>2. Top(t).signal \in Signals
    BY <1>3, <2>1 DEF Frames
  <2>3. state = "Uninstalled" /\ ~ Uninstalling(Top(t))
    BY <1>1, <1>3, <2>1 DEF Restoring
  <2>4. PICK u \in Receivers : Running(u) /\ Top(u).at = "restore"
    BY <1>1, <1>3, <2>2, <2>3 DEF OneRestores, AllOriginal
  <2>5. u # t
    BY <2>3, <2>4 DEF Uninstalling
  <2>6. action[Top(t).signal] = IF Top(t).signal < Top(u).i THEN "original" ELSE "ours"
    BY <1>1, <2>1, <2>2, <2>4 DEF Restoring
  <2>7. Top(u).i \in Int /\ Top(t).signal \in Int
    BY <2>1, <2>2, <2>4 DEF Frames, Signals
  <2> QED BY <1>3, <2>4, <2>5, <2>6, <2>7
<1> QED BY <1>1, <1>2, <1>3

\* Once our handlers have run, all the original ones are back, whichever
\* thread the handlers ran on and however many there were; and a signal that a
\* handler raises again comes to another of ours only while another thread
\* still restores them.
THEOREM SignalsAlwaysRestored == SignalSpec => []SignalsRestored
BY SignalInvInit, SignalInvNext, SignalInvRestored, PTL DEF SignalSpec

-----------------------------------------------------------------------------
(***************************************************************************)
(* Faults come from any number of threads and from the handlers of Mach    *)
(* exceptions themselves, and the kernel may refuse every call.            *)
(***************************************************************************)
Steps == {"idle", "save", "start", "set", "savePort", "thread"}
Busy(h) == at[h] \notin {"none", "waiting"}

\* install() goes through its steps for the secondary handler and then for the
\* primary one, on the system's ports at first; a thread that runs has a
\* restore point of its own.
Started ==
  /\ machInstall \in [step : Steps, index : Handlers]
  /\ machState = "NotInstalled" => machInstall.step = "idle" /\ machInstall.index = 1 /\ port = System
  /\ machInstall.step = "save" => machInstall.index = 1 /\ port = System
  /\ machInstall.step \in {"start", "set"} /\ machInstall.index = 1 => port = System
  /\ machInstall.step \in {"start", "set", "savePort", "thread"} \/ machInstall.index = 2 => restore[System] = System
  /\ machInstall.step \in {"savePort", "thread"} /\ machInstall.index = 1 => port = 1
  /\ machInstall.step = "thread" /\ machInstall.index = 1 => restore[1] = 1
  /\ machInstall.index = 1 => at[1] = "none" /\ at[2] = "none"
  /\ machInstall.index = 2 => at[1] # "none"
  /\ machInstall.step # "idle" => at[2] = "none"
  /\ at[1] \notin {"none", "gone"} => restore[1] = 1
  /\ restore[System] \in {NoPorts, System}

\* A port exists as long as its handler, and while it is started.
Alive ==
  /\ \A h \in Handlers : at[h] \notin {"none", "gone"} => h \in live
  /\ \A h \in live : at[h] \notin {"none", "gone"} \/ (at[h] = "none" /\ machInstall.index = h /\ machInstall.step \in {"set", "savePort", "thread"})
  /\ machInstall.step \in {"set", "savePort", "thread"} => machInstall.index \in live
  /\ ~ machEnded => \A h \in Handlers : queue[h] # {} => h \in live
  /\ \A h \in handling : at[h] \in {"handled", "faulted"}

\* A handler has received a request, and has reported it before it replies,
\* unless the kernel refuses.
Reporting ==
  /\ \A h \in Handlers : at[h] \in {"received", "next", "handle", "handled", "finish", "original", "reply"} =>
       request[h] \in Faulting
  /\ ~ broken => \A h \in Handlers : at[h] \in {"handled", "finish", "original", "reply"} => request[h] \in reported

\* In order: the secondary handler is called after the primary one has handed on.
InOrder ==
  /\ Busy(1) \/ queue[1] # {} => machInstall.step = "idle" /\ port # 2 /\ at[2] \notin {"waiting", "received", "next"}
  /\ machInstall.step \in {"savePort", "thread"} => port = machInstall.index
  /\ at[2] \in {"waiting", "received", "next"} => port = 2
  /\ at[2] = "handle" => port # 2
  /\ at[1] = "handle" => port = System
  /\ \A h \in Handlers : 1 \notin queue[h] /\ request[h] # 1
  /\ 2 \notin queue[2] /\ request[2] # 2
  /\ \A h \in Handlers : at[h] = "reply" => current = System

HandedBack ==
  /\ \A h \in Handlers : at[h] \in {"reply", "dealloc", "gone"} => port = System
  /\ port # System => port \in live

MachInv ==
  /\ MachTypeOK /\ Started /\ Alive /\ Reporting
  /\ ~ early => InOrder
  /\ ~ early /\ ~ broken => HandedBack
  /\ ChainKept

LEMMA MachInvInit == ASSUME MachInit PROVE MachInv
<1> USE MachAssumption DEF Handlers, System, NoPorts, Faulting, handlers, ports, switching
<1>1. MachTypeOK
  BY DEF MachInit, MachTypeOK, HandlerSteps, Started, Steps, Alive, Reporting, InOrder, Busy, HandedBack,
     ChainKept
<1>2. Started
  BY DEF MachInit, MachTypeOK, HandlerSteps, Started, Steps, Alive, Reporting, InOrder, Busy, HandedBack,
     ChainKept
<1>3. Alive
  BY DEF MachInit, MachTypeOK, HandlerSteps, Started, Steps, Alive, Reporting, InOrder, Busy, HandedBack,
     ChainKept
<1>4. Reporting
  BY DEF MachInit, MachTypeOK, HandlerSteps, Started, Steps, Alive, Reporting, InOrder, Busy, HandedBack,
     ChainKept
<1>5. ~ early => InOrder
  BY DEF MachInit, MachTypeOK, HandlerSteps, Started, Steps, Alive, Reporting, InOrder, Busy, HandedBack,
     ChainKept
<1>6. ~ early /\ ~ broken => HandedBack
  BY DEF MachInit, MachTypeOK, HandlerSteps, Started, Steps, Alive, Reporting, InOrder, Busy, HandedBack,
     ChainKept
<1>7. ChainKept
  BY DEF MachInit, MachTypeOK, HandlerSteps, Started, Steps, Alive, Reporting, InOrder, Busy, HandedBack,
     ChainKept
<1> QED BY <1>1, <1>2, <1>3, <1>4, <1>5, <1>6, <1>7 DEF MachInv

\* What the handlers' threads do
LEMMA HandlerKeeps == ASSUME MachInv, NEW h \in Handlers, Handler(h) PROVE MachInv'
<1> USE MachAssumption DEF Handlers, System, NoPorts, Faulting, handlers, ports, switching
<1> USE DEF Handler
<1>1. CASE Receive(h)
  <2>1. MachTypeOK'
    BY <1>1 DEF MachInv, MachTypeOK, HandlerSteps, Started, Steps, Reporting, Receive, Becomes
  <2>2. Started'
    BY <1>1 DEF MachInv, MachTypeOK, Started, Steps, Receive, Becomes
  <2>3. Alive'
    BY <1>1 DEF MachInv, MachTypeOK, Started, Alive, Steps, Receive, Becomes
  <2>4. Reporting'
    BY <1>1 DEF MachInv, MachTypeOK, Reporting, Alive, Receive, Becomes
  <2>5. (~ early => InOrder)'
    BY <1>1 DEF MachInv, MachTypeOK, Started, Alive, InOrder, Busy, Receive, Becomes
  <2>6. (~ early /\ ~ broken => HandedBack)'
    BY <1>1 DEF MachInv, MachTypeOK, Started, Alive, InOrder, HandedBack, Busy, Receive, Becomes
  <2>7. ChainKept'
    BY <1>1 DEF MachInv, MachTypeOK, Started, Alive, Reporting, InOrder, HandedBack, ChainKept, Busy,
       Receive, Becomes
  <2> QED BY <2>1, <2>2, <2>3, <2>4, <2>5, <2>6, <2>7 DEF MachInv
<1>2. CASE CheckEnabled(h)
  <2>1. MachTypeOK'
    <3>1. (chained \in BOOLEAN /\ machEnabled \in BOOLEAN /\ machEnded \in BOOLEAN /\ broken \in BOOLEAN /\ early \in BOOLEAN)'
      BY <1>2 DEF MachInv, MachTypeOK, HandlerSteps, Started, Steps, Reporting, CheckEnabled, Becomes
    <3>2. (machState \in {"NotInstalled", "Installed", "Uninstalled", "FailedInstall"})'
      BY <1>2 DEF MachInv, MachTypeOK, HandlerSteps, Started, Steps, Reporting, CheckEnabled, Becomes
    <3>3. (port \in {System} \cup Handlers /\ live \subseteq Handlers /\ current \in {System} \cup Handlers)'
      BY <1>2 DEF MachInv, MachTypeOK, HandlerSteps, Started, Steps, Reporting, CheckEnabled, Becomes
    <3>4. (restore \in [{System} \cup Handlers -> {NoPorts, System} \cup Handlers])'
      BY <1>2 DEF MachInv, MachTypeOK, HandlerSteps, Started, Steps, Reporting, CheckEnabled, Becomes
    <3>5. (at \in [Handlers -> HandlerSteps] /\ request \in [Handlers -> Faulting \cup {NoOne}] /\ handling \subseteq Handlers)'
      BY <1>2 DEF MachInv, MachTypeOK, HandlerSteps, Started, Steps, Reporting, CheckEnabled, Becomes
    <3>6. (queue \in [Handlers -> SUBSET Faulting])'
      BY <1>2 DEF MachInv, MachTypeOK, HandlerSteps, Started, Steps, Reporting, CheckEnabled, Becomes
    <3>7. (faults \subseteq Faulting /\ told \subseteq Faulting /\ reported \subseteq Faulting)'
      BY <1>2 DEF MachInv, MachTypeOK, HandlerSteps, Started, Steps, Reporting, CheckEnabled, Becomes
    <3> QED BY <3>1, <3>2, <3>3, <3>4, <3>5, <3>6, <3>7 DEF MachTypeOK
  <2>2. Started'
    BY <1>2 DEF MachInv, MachTypeOK, Started, Steps, CheckEnabled, Becomes
  <2>3. Alive'
    BY <1>2 DEF MachInv, MachTypeOK, Started, Alive, Steps, CheckEnabled, Becomes
  <2>4. Reporting'
    BY <1>2 DEF MachInv, MachTypeOK, Reporting, Alive, CheckEnabled, Becomes
  <2>5. (~ early => InOrder)'
    BY <1>2 DEF MachInv, MachTypeOK, Started, Alive, InOrder, Busy, CheckEnabled, Becomes
  <2>6. (~ early /\ ~ broken => HandedBack)'
    BY <1>2 DEF MachInv, MachTypeOK, Started, Alive, InOrder, HandedBack, Busy, CheckEnabled, Becomes
  <2>7. ChainKept'
    BY <1>2 DEF MachInv, MachTypeOK, Started, Alive, Reporting, InOrder, HandedBack, ChainKept, Busy,
       CheckEnabled, Becomes
  <2> QED BY <2>1, <2>2, <2>3, <2>4, <2>5, <2>6, <2>7 DEF MachInv
<1>3. CASE RestoreNext(h)
  <2>1. MachTypeOK'
    <3>1. (chained \in BOOLEAN /\ machEnabled \in BOOLEAN /\ machEnded \in BOOLEAN /\ broken \in BOOLEAN /\ early \in BOOLEAN)'
      BY <1>3 DEF MachInv, MachTypeOK, HandlerSteps, Started, Steps, Reporting, RestoreNext, Becomes,
         restoreExceptionPorts
    <3>2. (machState \in {"NotInstalled", "Installed", "Uninstalled", "FailedInstall"})'
      BY <1>3 DEF MachInv, MachTypeOK, HandlerSteps, Started, Steps, Reporting, RestoreNext, Becomes,
         restoreExceptionPorts
    <3>3. (port \in {System} \cup Handlers /\ live \subseteq Handlers /\ current \in {System} \cup Handlers)'
      <4>1. h - 1 \in {System} \cup Handlers
        OBVIOUS
      <4>2. restore[h - 1] \in {NoPorts, System} \cup Handlers
        BY <4>1 DEF MachInv, MachTypeOK
      <4>3. port' \in {System} \cup Handlers
        BY <1>3, <4>2 DEF MachInv, MachTypeOK, RestoreNext, restoreExceptionPorts
      <4> QED BY <1>3, <4>1, <4>3 DEF MachInv, MachTypeOK, RestoreNext, restoreExceptionPorts
    <3>4. (restore \in [{System} \cup Handlers -> {NoPorts, System} \cup Handlers])'
      BY <1>3 DEF MachInv, MachTypeOK, HandlerSteps, Started, Steps, Reporting, RestoreNext, Becomes,
         restoreExceptionPorts
    <3>5. (at \in [Handlers -> HandlerSteps] /\ request \in [Handlers -> Faulting \cup {NoOne}] /\ handling \subseteq Handlers)'
      BY <1>3 DEF MachInv, MachTypeOK, HandlerSteps, Started, Steps, Reporting, RestoreNext, Becomes,
         restoreExceptionPorts
    <3>6. (queue \in [Handlers -> SUBSET Faulting])'
      BY <1>3 DEF MachInv, MachTypeOK, HandlerSteps, Started, Steps, Reporting, RestoreNext, Becomes,
         restoreExceptionPorts
    <3>7. (faults \subseteq Faulting /\ told \subseteq Faulting /\ reported \subseteq Faulting)'
      BY <1>3 DEF MachInv, MachTypeOK, HandlerSteps, Started, Steps, Reporting, RestoreNext, Becomes,
         restoreExceptionPorts
    <3> QED BY <3>1, <3>2, <3>3, <3>4, <3>5, <3>6, <3>7 DEF MachTypeOK
  <2>2. Started'
    BY <1>3 DEF MachInv, MachTypeOK, Started, Steps, RestoreNext, Becomes, restoreExceptionPorts
  <2>3. Alive'
    <3>1. at' \in [Handlers -> HandlerSteps] /\ at'[h] \in {"handle", "finish"} /\ at[h] = "next"
      BY <1>3 DEF MachInv, MachTypeOK, HandlerSteps, RestoreNext, Becomes
    <3>2. \A k \in Handlers : k # h => at'[k] = at[k]
      BY <1>3 DEF MachInv, MachTypeOK, RestoreNext, Becomes
    <3>3. UNCHANGED <<live, queue, handling, machInstall, machEnded>>
      BY <1>3 DEF RestoreNext, restoreExceptionPorts
    <3>4. live \subseteq Handlers /\ handling \subseteq Handlers
      BY DEF MachInv, MachTypeOK
    <3> QED BY <3>1, <3>2, <3>3, <3>4 DEF MachInv, Alive
  <2>4. Reporting'
    BY <1>3 DEF MachInv, MachTypeOK, Reporting, Alive, RestoreNext, Becomes, restoreExceptionPorts
  <2>5. (~ early => InOrder)'
    BY <1>3 DEF MachInv, MachTypeOK, Started, Alive, InOrder, Busy, RestoreNext, Becomes,
       restoreExceptionPorts
  <2>6. (~ early /\ ~ broken => HandedBack)'
    <3>1. CASE h = 1
      BY <1>3, <3>1 DEF MachInv, MachTypeOK, Started, Alive, InOrder, HandedBack, Busy, RestoreNext,
         Becomes, restoreExceptionPorts
    <3>2. CASE h = 2
      BY <1>3, <3>2 DEF MachInv, MachTypeOK, Started, Alive, InOrder, HandedBack, Busy, RestoreNext,
         Becomes, restoreExceptionPorts
    <3> QED BY <3>1, <3>2 DEF Handlers
  <2>7. ChainKept'
    BY <1>3 DEF MachInv, MachTypeOK, Started, Alive, Reporting, InOrder, HandedBack, ChainKept, Busy,
       RestoreNext, Becomes, restoreExceptionPorts
  <2> QED BY <2>1, <2>2, <2>3, <2>4, <2>5, <2>6, <2>7 DEF MachInv
<1>4. CASE HandleRequest(h)
  <2>1. MachTypeOK'
    <3>1. (chained \in BOOLEAN /\ machEnabled \in BOOLEAN /\ machEnded \in BOOLEAN /\ broken \in BOOLEAN /\ early \in BOOLEAN)'
      BY <1>4 DEF MachInv, MachTypeOK, HandlerSteps, Started, Steps, Reporting, HandleRequest, Becomes,
         Delivered
    <3>2. (machState \in {"NotInstalled", "Installed", "Uninstalled", "FailedInstall"})'
      BY <1>4 DEF MachInv, MachTypeOK, HandlerSteps, Started, Steps, Reporting, HandleRequest, Becomes,
         Delivered
    <3>3. (port \in {System} \cup Handlers /\ live \subseteq Handlers /\ current \in {System} \cup Handlers)'
      BY <1>4 DEF MachInv, MachTypeOK, HandlerSteps, Started, Steps, Reporting, HandleRequest, Becomes,
         Delivered
    <3>4. (restore \in [{System} \cup Handlers -> {NoPorts, System} \cup Handlers])'
      BY <1>4 DEF MachInv, MachTypeOK, HandlerSteps, Started, Steps, Reporting, HandleRequest, Becomes,
         Delivered
    <3>5. (at \in [Handlers -> HandlerSteps] /\ request \in [Handlers -> Faulting \cup {NoOne}] /\ handling \subseteq Handlers)'
      BY <1>4 DEF MachInv, MachTypeOK, HandlerSteps, Started, Steps, Reporting, HandleRequest, Becomes,
         Delivered
    <3>6. (queue \in [Handlers -> SUBSET Faulting])'
      BY <1>4 DEF MachInv, MachTypeOK, HandlerSteps, Started, Steps, Reporting, HandleRequest, Becomes,
         Delivered
    <3>7. (faults \subseteq Faulting /\ told \subseteq Faulting /\ reported \subseteq Faulting)'
      BY <1>4 DEF MachInv, MachTypeOK, HandlerSteps, Started, Steps, Reporting, HandleRequest, Becomes,
         Delivered
    <3> QED BY <3>1, <3>2, <3>3, <3>4, <3>5, <3>6, <3>7 DEF MachTypeOK
  <2>2. Started'
    BY <1>4 DEF MachInv, MachTypeOK, Started, Steps, HandleRequest, Becomes, Delivered
  <2>3. Alive'
    BY <1>4 DEF MachInv, MachTypeOK, Started, Alive, Steps, HandleRequest, Becomes, Delivered
  <2>4. Reporting'
    BY <1>4 DEF MachInv, MachTypeOK, Reporting, Alive, HandleRequest, Becomes, Delivered
  <2>5. (~ early => InOrder)'
    BY <1>4 DEF MachInv, MachTypeOK, Started, Alive, InOrder, Busy, HandleRequest, Becomes, Delivered
  <2>6. (~ early /\ ~ broken => HandedBack)'
    BY <1>4 DEF MachInv, MachTypeOK, Started, Alive, InOrder, HandedBack, Busy, HandleRequest, Becomes,
       Delivered
  <2>7. ChainKept'
    BY <1>4 DEF MachInv, MachTypeOK, Started, Alive, Reporting, InOrder, HandedBack, ChainKept, Busy,
       HandleRequest, Becomes, Delivered
  <2> QED BY <2>1, <2>2, <2>3, <2>4, <2>5, <2>6, <2>7 DEF MachInv
<1>5. CASE Handled(h)
  <2>1. MachTypeOK'
    BY <1>5 DEF MachInv, MachTypeOK, HandlerSteps, Started, Steps, Reporting, Handled, Becomes
  <2>2. Started'
    BY <1>5 DEF MachInv, MachTypeOK, Started, Steps, Handled, Becomes
  <2>3. Alive'
    BY <1>5 DEF MachInv, MachTypeOK, Started, Alive, Steps, Handled, Becomes
  <2>4. Reporting'
    BY <1>5 DEF MachInv, MachTypeOK, Reporting, Alive, Handled, Becomes
  <2>5. (~ early => InOrder)'
    BY <1>5 DEF MachInv, MachTypeOK, Started, Alive, InOrder, Busy, Handled, Becomes
  <2>6. (~ early /\ ~ broken => HandedBack)'
    BY <1>5 DEF MachInv, MachTypeOK, Started, Alive, InOrder, HandedBack, Busy, Handled, Becomes
  <2>7. ChainKept'
    BY <1>5 DEF MachInv, MachTypeOK, Started, Alive, Reporting, InOrder, HandedBack, ChainKept, Busy,
       Handled, Becomes
  <2> QED BY <2>1, <2>2, <2>3, <2>4, <2>5, <2>6, <2>7 DEF MachInv
<1>6. CASE Finish(h)
  <2>1. MachTypeOK'
    BY <1>6 DEF MachInv, MachTypeOK, HandlerSteps, Started, Steps, Reporting, Finish, Becomes
  <2>2. Started'
    BY <1>6 DEF MachInv, MachTypeOK, Started, Steps, Finish, Becomes
  <2>3. Alive'
    BY <1>6 DEF MachInv, MachTypeOK, Started, Alive, Steps, Finish, Becomes
  <2>4. Reporting'
    BY <1>6 DEF MachInv, MachTypeOK, Reporting, Alive, Finish, Becomes
  <2>5. (~ early => InOrder)'
    BY <1>6 DEF MachInv, MachTypeOK, Started, Alive, InOrder, Busy, Finish, Becomes
  <2>6. (~ early /\ ~ broken => HandedBack)'
    BY <1>6 DEF MachInv, MachTypeOK, Started, Alive, InOrder, HandedBack, Busy, Finish, Becomes
  <2>7. ChainKept'
    BY <1>6 DEF MachInv, MachTypeOK, Started, Alive, Reporting, InOrder, HandedBack, ChainKept, Busy,
       Finish, Becomes
  <2> QED BY <2>1, <2>2, <2>3, <2>4, <2>5, <2>6, <2>7 DEF MachInv
<1>7. CASE RestoreOriginal(h)
  <2>1. MachTypeOK'
    BY <1>7 DEF MachInv, MachTypeOK, HandlerSteps, Started, Steps, Reporting, RestoreOriginal, Becomes,
       restoreExceptionPorts
  <2>2. Started'
    BY <1>7 DEF MachInv, MachTypeOK, Started, Steps, RestoreOriginal, Becomes, restoreExceptionPorts
  <2>3. Alive'
    BY <1>7 DEF MachInv, MachTypeOK, Started, Alive, Steps, RestoreOriginal, Becomes, restoreExceptionPorts
  <2>4. Reporting'
    BY <1>7 DEF MachInv, MachTypeOK, Reporting, Alive, RestoreOriginal, Becomes, restoreExceptionPorts
  <2>5. (~ early => InOrder)'
    BY <1>7 DEF MachInv, MachTypeOK, Started, Alive, InOrder, Busy, RestoreOriginal, Becomes,
       restoreExceptionPorts
  <2>6. (~ early /\ ~ broken => HandedBack)'
    BY <1>7 DEF MachInv, MachTypeOK, Started, Alive, InOrder, HandedBack, Busy, RestoreOriginal, Becomes,
       restoreExceptionPorts
  <2>7. ChainKept'
    BY <1>7 DEF MachInv, MachTypeOK, Started, Alive, Reporting, InOrder, HandedBack, ChainKept, Busy,
       RestoreOriginal, Becomes, restoreExceptionPorts
  <2> QED BY <2>1, <2>2, <2>3, <2>4, <2>5, <2>6, <2>7 DEF MachInv
<1>8. CASE Reply(h)
  <2>1. MachTypeOK'
    <3>1. (chained \in BOOLEAN /\ machEnabled \in BOOLEAN /\ machEnded \in BOOLEAN /\ broken \in BOOLEAN /\ early \in BOOLEAN)'
      BY <1>8 DEF MachInv, MachTypeOK, HandlerSteps, Started, Steps, Reporting, Reply, Becomes, Delivered,
         canCurrentPortsHandle
    <3>2. (machState \in {"NotInstalled", "Installed", "Uninstalled", "FailedInstall"})'
      BY <1>8 DEF MachInv, MachTypeOK, HandlerSteps, Started, Steps, Reporting, Reply, Becomes, Delivered,
         canCurrentPortsHandle
    <3>3. (port \in {System} \cup Handlers /\ live \subseteq Handlers /\ current \in {System} \cup Handlers)'
      BY <1>8 DEF MachInv, MachTypeOK, HandlerSteps, Started, Steps, Reporting, Reply, Becomes, Delivered,
         canCurrentPortsHandle
    <3>4. (restore \in [{System} \cup Handlers -> {NoPorts, System} \cup Handlers])'
      BY <1>8 DEF MachInv, MachTypeOK, HandlerSteps, Started, Steps, Reporting, Reply, Becomes, Delivered,
         canCurrentPortsHandle
    <3>5. (at \in [Handlers -> HandlerSteps] /\ request \in [Handlers -> Faulting \cup {NoOne}] /\ handling \subseteq Handlers)'
      BY <1>8 DEF MachInv, MachTypeOK, HandlerSteps, Started, Steps, Reporting, Reply, Becomes, Delivered,
         canCurrentPortsHandle
    <3>6. (queue \in [Handlers -> SUBSET Faulting])'
      BY <1>8 DEF MachInv, MachTypeOK, HandlerSteps, Started, Steps, Reporting, Reply, Becomes, Delivered,
         canCurrentPortsHandle
    <3>7. (faults \subseteq Faulting /\ told \subseteq Faulting /\ reported \subseteq Faulting)'
      BY <1>8 DEF MachInv, MachTypeOK, HandlerSteps, Started, Steps, Reporting, Reply, Becomes, Delivered,
         canCurrentPortsHandle
    <3> QED BY <3>1, <3>2, <3>3, <3>4, <3>5, <3>6, <3>7 DEF MachTypeOK
  <2>2. Started'
    BY <1>8 DEF MachInv, MachTypeOK, Started, Steps, Reply, Becomes, Delivered, canCurrentPortsHandle
  <2>3. Alive'
    BY <1>8 DEF MachInv, MachTypeOK, Started, Alive, Steps, Reply, Becomes, Delivered, canCurrentPortsHandle
  <2>4. Reporting'
    BY <1>8 DEF MachInv, MachTypeOK, Reporting, Alive, Reply, Becomes, Delivered, canCurrentPortsHandle
  <2>5. (~ early => InOrder)'
    BY <1>8 DEF MachInv, MachTypeOK, Started, Alive, InOrder, Busy, Reply, Becomes, Delivered,
       canCurrentPortsHandle
  <2>6. (~ early /\ ~ broken => HandedBack)'
    BY <1>8 DEF MachInv, MachTypeOK, Started, Alive, InOrder, HandedBack, Busy, Reply, Becomes, Delivered,
       canCurrentPortsHandle
  <2>7. ChainKept'
    BY <1>8 DEF MachInv, MachTypeOK, Started, Alive, Reporting, InOrder, HandedBack, ChainKept, Busy,
       Reply, Becomes, Delivered, canCurrentPortsHandle
  <2> QED BY <2>1, <2>2, <2>3, <2>4, <2>5, <2>6, <2>7 DEF MachInv
<1>9. CASE DeallocHandler(h)
  <2>1. MachTypeOK'
    BY <1>9 DEF MachInv, MachTypeOK, HandlerSteps, Started, Steps, Reporting, DeallocHandler, Becomes,
       deallocExceptionHandler
  <2>2. Started'
    BY <1>9 DEF MachInv, MachTypeOK, Started, Steps, DeallocHandler, Becomes, deallocExceptionHandler
  <2>3. Alive'
    BY ZenonT(40), <1>9
    DEF MachInv, MachTypeOK, Started, Alive, Steps, DeallocHandler, Becomes, deallocExceptionHandler
  <2>4. Reporting'
    BY <1>9 DEF MachInv, MachTypeOK, Reporting, Alive, DeallocHandler, Becomes, deallocExceptionHandler
  <2>5. (~ early => InOrder)'
    BY <1>9 DEF MachInv, MachTypeOK, Started, Alive, InOrder, Busy, DeallocHandler, Becomes,
       deallocExceptionHandler
  <2>6. (~ early /\ ~ broken => HandedBack)'
    BY <1>9 DEF MachInv, MachTypeOK, Started, Alive, InOrder, HandedBack, Busy, DeallocHandler, Becomes,
       deallocExceptionHandler
  <2>7. ChainKept'
    BY <1>9 DEF MachInv, MachTypeOK, Started, Alive, Reporting, InOrder, HandedBack, ChainKept, Busy,
       DeallocHandler, Becomes, deallocExceptionHandler
  <2> QED BY <2>1, <2>2, <2>3, <2>4, <2>5, <2>6, <2>7 DEF MachInv
<1> QED BY <1>1, <1>2, <1>3, <1>4, <1>5, <1>6, <1>7, <1>8, <1>9 DEF Handler

LEMMA MachInvNext == ASSUME MachInv, [MachNext]_machVars PROVE MachInv'
<1> USE MachAssumption DEF Handlers, System, NoPorts, Faulting, handlers, ports, switching
<1>1. ASSUME NEW t \in Faulters, Fault(t) PROVE MachInv'
  <2>1. MachTypeOK'
    <3>1. (chained \in BOOLEAN /\ machEnabled \in BOOLEAN /\ machEnded \in BOOLEAN /\ broken \in BOOLEAN /\ early \in BOOLEAN)'
      BY <1>1 DEF MachInv, MachTypeOK, HandlerSteps, Started, Steps, Reporting, Fault, Delivered
    <3>2. (machState \in {"NotInstalled", "Installed", "Uninstalled", "FailedInstall"})'
      BY <1>1 DEF MachInv, MachTypeOK, HandlerSteps, Started, Steps, Reporting, Fault, Delivered
    <3>3. (port \in {System} \cup Handlers /\ live \subseteq Handlers /\ current \in {System} \cup Handlers)'
      BY <1>1 DEF MachInv, MachTypeOK, HandlerSteps, Started, Steps, Reporting, Fault, Delivered
    <3>4. (restore \in [{System} \cup Handlers -> {NoPorts, System} \cup Handlers])'
      BY <1>1 DEF MachInv, MachTypeOK, HandlerSteps, Started, Steps, Reporting, Fault, Delivered
    <3>5. (at \in [Handlers -> HandlerSteps] /\ request \in [Handlers -> Faulting \cup {NoOne}] /\ handling \subseteq Handlers)'
      BY <1>1 DEF MachInv, MachTypeOK, HandlerSteps, Started, Steps, Reporting, Fault, Delivered
    <3>6. (queue \in [Handlers -> SUBSET Faulting])'
      BY <1>1 DEF MachInv, MachTypeOK, HandlerSteps, Started, Steps, Reporting, Fault, Delivered
    <3>7. (faults \subseteq Faulting /\ told \subseteq Faulting /\ reported \subseteq Faulting)'
      BY <1>1 DEF MachInv, MachTypeOK, HandlerSteps, Started, Steps, Reporting, Fault, Delivered
    <3> QED BY <3>1, <3>2, <3>3, <3>4, <3>5, <3>6, <3>7 DEF MachTypeOK
  <2>2. Started'
    BY <1>1 DEF MachInv, MachTypeOK, Started, Steps, Fault, Delivered
  <2>3. Alive'
    BY <1>1 DEF MachInv, MachTypeOK, Started, Alive, Steps, Fault, Delivered
  <2>4. Reporting'
    BY <1>1 DEF MachInv, MachTypeOK, Reporting, Alive, Fault, Delivered
  <2>5. (~ early => InOrder)'
    <3>1. CASE port = System
      BY <1>1, <3>1 DEF MachInv, MachTypeOK, Started, Alive, InOrder, Busy, Fault, Delivered
    <3>2. CASE port = 1
      <4> SUFFICES ASSUME ~ early' PROVE InOrder'
        OBVIOUS
      <4>1. ~ early /\ InOrder /\ machInstall.step = "idle"
        BY <1>1, <3>2 DEF MachInv, MachTypeOK, Fault
      <4>2. at' = at /\ request' = request /\ port' = port /\ current' = current /\ machInstall' = machInstall
        BY <1>1 DEF Fault
      <4>3. queue' = queue \/ queue' = [queue EXCEPT ![1] = @ \cup {t}]
        BY <1>1, <3>2 DEF Fault, Delivered
      <4>4. t # 1 /\ t # 2
        OBVIOUS
      <4>5. \A g \in Handlers : 1 \notin queue'[g]
        BY <4>1, <4>3, <4>4 DEF InOrder, MachInv, MachTypeOK
      <4>6. 2 \notin queue'[2]
        BY <4>1, <4>3, <4>4 DEF InOrder, MachInv, MachTypeOK
      <4> QED BY <3>2, <4>1, <4>2, <4>5, <4>6 DEF InOrder, Busy
    <3>3. CASE port = 2
      BY <1>1, <3>3 DEF MachInv, MachTypeOK, Started, Alive, InOrder, Busy, Fault, Delivered
    <3> QED BY <3>1, <3>2, <3>3 DEF MachInv, MachTypeOK, Handlers
  <2>6. (~ early /\ ~ broken => HandedBack)'
    BY <1>1 DEF MachInv, MachTypeOK, Started, Alive, InOrder, HandedBack, Busy, Fault, Delivered
  <2>7. ChainKept'
    BY <1>1 DEF MachInv, MachTypeOK, Started, Alive, Reporting, InOrder, HandedBack, ChainKept, Busy,
       Fault, Delivered
  <2> QED BY <2>1, <2>2, <2>3, <2>4, <2>5, <2>6, <2>7 DEF MachInv
<1>2. ASSUME NEW e \in BOOLEAN, machSetEnabled(e) PROVE MachInv'
  <2>1. MachTypeOK'
    BY <1>2 DEF MachInv, MachTypeOK, HandlerSteps, Started, Steps, Reporting, machSetEnabled, MachInstallStep
  <2>2. Started'
    BY <1>2 DEF MachInv, MachTypeOK, Started, Steps, machSetEnabled, MachInstallStep
  <2>3. Alive'
    BY <1>2 DEF MachInv, MachTypeOK, Started, Alive, Steps, machSetEnabled, MachInstallStep
  <2>4. Reporting'
    BY <1>2 DEF MachInv, MachTypeOK, Reporting, Alive, machSetEnabled, MachInstallStep
  <2>5. (~ early => InOrder)'
    BY <1>2 DEF MachInv, MachTypeOK, Started, Alive, InOrder, Busy, machSetEnabled, MachInstallStep
  <2>6. (~ early /\ ~ broken => HandedBack)'
    BY <1>2 DEF MachInv, MachTypeOK, Started, Alive, InOrder, HandedBack, Busy, machSetEnabled,
       MachInstallStep
  <2>7. ChainKept'
    BY <1>2 DEF MachInv, MachTypeOK, Started, Alive, Reporting, InOrder, HandedBack, ChainKept, Busy,
       machSetEnabled, MachInstallStep
  <2> QED BY <2>1, <2>2, <2>3, <2>4, <2>5, <2>6, <2>7 DEF MachInv
<1>3. CASE SaveOriginal
  <2>1. MachTypeOK'
    <3>1. (chained \in BOOLEAN /\ machEnabled \in BOOLEAN /\ machEnded \in BOOLEAN /\ broken \in BOOLEAN /\ early \in BOOLEAN)'
      BY <1>3 DEF MachInv, MachTypeOK, HandlerSteps, Started, Steps, Reporting, SaveOriginal, MachInstallStep
    <3>2. (machState \in {"NotInstalled", "Installed", "Uninstalled", "FailedInstall"})'
      BY <1>3 DEF MachInv, MachTypeOK, HandlerSteps, Started, Steps, Reporting, SaveOriginal, MachInstallStep
    <3>3. (port \in {System} \cup Handlers /\ live \subseteq Handlers /\ current \in {System} \cup Handlers)'
      BY <1>3 DEF MachInv, MachTypeOK, HandlerSteps, Started, Steps, Reporting, SaveOriginal, MachInstallStep
    <3>4. (restore \in [{System} \cup Handlers -> {NoPorts, System} \cup Handlers])'
      BY <1>3 DEF MachInv, MachTypeOK, HandlerSteps, Started, Steps, Reporting, SaveOriginal, MachInstallStep
    <3>5. (at \in [Handlers -> HandlerSteps] /\ request \in [Handlers -> Faulting \cup {NoOne}] /\ handling \subseteq Handlers)'
      BY <1>3 DEF MachInv, MachTypeOK, HandlerSteps, Started, Steps, Reporting, SaveOriginal, MachInstallStep
    <3>6. (queue \in [Handlers -> SUBSET Faulting])'
      BY <1>3 DEF MachInv, MachTypeOK, HandlerSteps, Started, Steps, Reporting, SaveOriginal, MachInstallStep
    <3>7. (faults \subseteq Faulting /\ told \subseteq Faulting /\ reported \subseteq Faulting)'
      BY <1>3 DEF MachInv, MachTypeOK, HandlerSteps, Started, Steps, Reporting, SaveOriginal, MachInstallStep
    <3> QED BY <3>1, <3>2, <3>3, <3>4, <3>5, <3>6, <3>7 DEF MachTypeOK
  <2>2. Started'
    BY <1>3 DEF MachInv, MachTypeOK, Started, Steps, SaveOriginal, MachInstallStep
  <2>3. Alive'
    BY <1>3 DEF MachInv, MachTypeOK, Started, Alive, Steps, SaveOriginal, MachInstallStep
  <2>4. Reporting'
    BY <1>3 DEF MachInv, MachTypeOK, Reporting, Alive, SaveOriginal, MachInstallStep
  <2>5. (~ early => InOrder)'
    BY <1>3 DEF MachInv, MachTypeOK, Started, Alive, InOrder, Busy, SaveOriginal, MachInstallStep
  <2>6. (~ early /\ ~ broken => HandedBack)'
    BY <1>3 DEF MachInv, MachTypeOK, Started, Alive, InOrder, HandedBack, Busy, SaveOriginal, MachInstallStep
  <2>7. ChainKept'
    BY <1>3 DEF MachInv, MachTypeOK, Started, Alive, Reporting, InOrder, HandedBack, ChainKept, Busy,
       SaveOriginal, MachInstallStep
  <2> QED BY <2>1, <2>2, <2>3, <2>4, <2>5, <2>6, <2>7 DEF MachInv
<1>4. CASE AllocatePort
  <2>1. MachTypeOK'
    BY <1>4 DEF MachInv, MachTypeOK, HandlerSteps, Started, Steps, Reporting, AllocatePort, MachInstallStep
  <2>2. Started'
    BY <1>4 DEF MachInv, MachTypeOK, Started, Steps, AllocatePort, MachInstallStep
  <2>3. Alive'
    BY <1>4 DEF MachInv, MachTypeOK, Started, Alive, Steps, AllocatePort, MachInstallStep
  <2>4. Reporting'
    BY <1>4 DEF MachInv, MachTypeOK, Reporting, Alive, AllocatePort, MachInstallStep
  <2>5. (~ early => InOrder)'
    BY <1>4 DEF MachInv, MachTypeOK, Started, Alive, InOrder, Busy, AllocatePort, MachInstallStep
  <2>6. (~ early /\ ~ broken => HandedBack)'
    BY <1>4 DEF MachInv, MachTypeOK, Started, Alive, InOrder, HandedBack, Busy, AllocatePort, MachInstallStep
  <2>7. ChainKept'
    BY <1>4 DEF MachInv, MachTypeOK, Started, Alive, Reporting, InOrder, HandedBack, ChainKept, Busy,
       AllocatePort, MachInstallStep
  <2> QED BY <2>1, <2>2, <2>3, <2>4, <2>5, <2>6, <2>7 DEF MachInv
<1>5. CASE SetPort
  <2>1. MachTypeOK'
    BY <1>5 DEF MachInv, MachTypeOK, HandlerSteps, Started, Steps, Reporting, SetPort, MachInstallStep
  <2>2. Started'
    BY <1>5 DEF MachInv, MachTypeOK, Started, Steps, SetPort, MachInstallStep
  <2>3. Alive'
    BY <1>5 DEF MachInv, MachTypeOK, Started, Alive, Steps, SetPort, MachInstallStep
  <2>4. Reporting'
    BY <1>5 DEF MachInv, MachTypeOK, Reporting, Alive, SetPort, MachInstallStep
  <2>5. (~ early => InOrder)'
    BY <1>5 DEF MachInv, MachTypeOK, Started, Alive, InOrder, Busy, SetPort, MachInstallStep
  <2>6. (~ early /\ ~ broken => HandedBack)'
    BY <1>5 DEF MachInv, MachTypeOK, Started, Alive, InOrder, HandedBack, Busy, SetPort, MachInstallStep
  <2>7. ChainKept'
    BY <1>5 DEF MachInv, MachTypeOK, Started, Alive, Reporting, InOrder, HandedBack, ChainKept, Busy,
       SetPort, MachInstallStep
  <2> QED BY <2>1, <2>2, <2>3, <2>4, <2>5, <2>6, <2>7 DEF MachInv
<1>6. CASE SavePort
  <2>1. MachTypeOK'
    BY <1>6 DEF MachInv, MachTypeOK, HandlerSteps, Started, Steps, Reporting, SavePort, MachInstallStep
  <2>2. Started'
    BY <1>6 DEF MachInv, MachTypeOK, Started, Steps, SavePort, MachInstallStep
  <2>3. Alive'
    BY <1>6 DEF MachInv, MachTypeOK, Started, Alive, Steps, SavePort, MachInstallStep
  <2>4. Reporting'
    BY <1>6 DEF MachInv, MachTypeOK, Reporting, Alive, SavePort, MachInstallStep
  <2>5. (~ early => InOrder)'
    BY <1>6 DEF MachInv, MachTypeOK, Started, Alive, InOrder, Busy, SavePort, MachInstallStep
  <2>6. (~ early /\ ~ broken => HandedBack)'
    BY <1>6 DEF MachInv, MachTypeOK, Started, Alive, InOrder, HandedBack, Busy, SavePort, MachInstallStep
  <2>7. ChainKept'
    BY <1>6 DEF MachInv, MachTypeOK, Started, Alive, Reporting, InOrder, HandedBack, ChainKept, Busy,
       SavePort, MachInstallStep
  <2> QED BY <2>1, <2>2, <2>3, <2>4, <2>5, <2>6, <2>7 DEF MachInv
<1>7. CASE StartThread
  <2>1. MachTypeOK'
    BY <1>7 DEF MachInv, MachTypeOK, HandlerSteps, Started, Steps, Reporting, StartThread, MachInstallStep
  <2>2. Started'
    BY <1>7 DEF MachInv, MachTypeOK, Started, Steps, StartThread, MachInstallStep
  <2>3. Alive'
    BY <1>7 DEF MachInv, MachTypeOK, Started, Alive, Steps, StartThread, MachInstallStep
  <2>4. Reporting'
    BY <1>7 DEF MachInv, MachTypeOK, Reporting, Alive, StartThread, MachInstallStep
  <2>5. (~ early => InOrder)'
    BY <1>7 DEF MachInv, MachTypeOK, Started, Alive, InOrder, Busy, StartThread, MachInstallStep
  <2>6. (~ early /\ ~ broken => HandedBack)'
    BY <1>7 DEF MachInv, MachTypeOK, Started, Alive, InOrder, HandedBack, Busy, StartThread, MachInstallStep
  <2>7. ChainKept'
    BY <1>7 DEF MachInv, MachTypeOK, Started, Alive, Reporting, InOrder, HandedBack, ChainKept, Busy,
       StartThread, MachInstallStep
  <2> QED BY <2>1, <2>2, <2>3, <2>4, <2>5, <2>6, <2>7 DEF MachInv
<1>8. CASE StartFails
  <2>1. MachTypeOK'
    BY <1>8 DEF MachInv, MachTypeOK, HandlerSteps, Started, Steps, Reporting, StartFails, MachInstallStep
  <2>2. Started'
    BY <1>8 DEF MachInv, MachTypeOK, Started, Steps, StartFails, MachInstallStep
  <2>3. Alive'
    BY <1>8 DEF MachInv, MachTypeOK, Started, Alive, Steps, StartFails, MachInstallStep
  <2>4. Reporting'
    BY <1>8 DEF MachInv, MachTypeOK, Reporting, Alive, StartFails, MachInstallStep
  <2>5. (~ early => InOrder)'
    BY <1>8 DEF MachInv, MachTypeOK, Started, Alive, InOrder, Busy, StartFails, MachInstallStep
  <2>6. (~ early /\ ~ broken => HandedBack)'
    BY <1>8 DEF MachInv, MachTypeOK, Started, Alive, InOrder, HandedBack, Busy, StartFails, MachInstallStep
  <2>7. ChainKept'
    BY <1>8 DEF MachInv, MachTypeOK, Started, Alive, Reporting, InOrder, HandedBack, ChainKept, Busy,
       StartFails, MachInstallStep
  <2> QED BY <2>1, <2>2, <2>3, <2>4, <2>5, <2>6, <2>7 DEF MachInv
<1>9. ASSUME NEW h \in Handlers, Handler(h) PROVE MachInv'
  BY <1>9, HandlerKeeps
<1>10. CASE UNCHANGED machVars
  <2>1. MachTypeOK'
    BY <1>10 DEF MachInv, MachTypeOK, HandlerSteps, Started, Steps, Reporting, machVars
  <2>2. Started'
    BY <1>10 DEF MachInv, MachTypeOK, Started, Steps, machVars
  <2>3. Alive'
    BY <1>10 DEF MachInv, MachTypeOK, Started, Alive, Steps, machVars
  <2>4. Reporting'
    BY <1>10 DEF MachInv, MachTypeOK, Reporting, Alive, machVars
  <2>5. (~ early => InOrder)'
    BY <1>10 DEF MachInv, MachTypeOK, Started, Alive, InOrder, Busy, machVars
  <2>6. (~ early /\ ~ broken => HandedBack)'
    BY <1>10 DEF MachInv, MachTypeOK, Started, Alive, InOrder, HandedBack, Busy, machVars
  <2>7. ChainKept'
    BY <1>10 DEF MachInv, MachTypeOK, Started, Alive, Reporting, InOrder, HandedBack, ChainKept, Busy,
       machVars
  <2> QED BY <2>1, <2>2, <2>3, <2>4, <2>5, <2>6, <2>7 DEF MachInv
<1> QED BY <1>1, <1>2, <1>3, <1>4, <1>5, <1>6, <1>7, <1>8, <1>9, <1>10 DEF MachNext, MachEnded

\* Behind a port where somebody waits there is a handler that will answer, no
\* two handlers wait for each other, and whoever was there before is told of
\* every fault, after it has been reported: for any number of threads that fault.
THEOREM MachAlwaysSound == MachSpec => []MachSound
<1>1. MachInv => MachSound
  <2> SUFFICES ASSUME MachInv PROVE MachSound
    OBVIOUS
  <2>1. NobodyHangs
    BY MachAssumption DEF MachInv, MachTypeOK, Started, Steps, Alive, InOrder, NobodyHangs, Waits,
       Handlers, System
  <2> QED BY <2>1 DEF MachInv, MachSound
<1> QED BY <1>1, MachInvInit, MachInvNext, PTL DEF MachSpec
=============================================================================
