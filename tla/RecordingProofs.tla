--------------------------- MODULE RecordingProofs ---------------------------
(***************************************************************************)
(* Proofs about what is recorded before a crash: the traces of C++         *)
(* exceptions, with the __cxa_throw that takes them, and the objects that  *)
(* were deallocated.                                                       *)
(***************************************************************************)
EXTENDS KSCxaThrowSwapper, KSCrashMonitor_CPPException, KSCrashMonitor_Zombie, SequenceTheorems, TLAPS

-----------------------------------------------------------------------------
(***************************************************************************)
(* __cxa_throw: a thread that throws reaches an original one, and a swap   *)
(* or a reset leaves nothing half done.                                    *)
(***************************************************************************)
(***************************************************************************)
(* The invariant                                                           *)
(***************************************************************************)
\* The loader is inside a callback.
Notifying == step["loader"] \notin {"idle", "notify"}

\* The parts of ksct_swap() and ksct_swapReset(), which rebinds only in its
\* scan, and when a callback may be registered.
Phases ==
  /\ step["client"] # "notify"
  /\ step["client"] # "idle" => call.at = "scan"
  /\ callback => handler /\ call.at \in {"idle", "unregister"}
  /\ call.at \in {"images", "scan"} => handler
  /\ call.at \in {"count", "restore", "slot", "store"} => ~ handler
  /\ call.at = "slot" => k < n

\* What is scanned is loaded; so is the image of a rebinder that is at work, and
\* the rebinder has read a function there.
Rebinding ==
  /\ images \subseteq loaded
  /\ \A r \in Rebinders :
       /\ step[r] # "idle" => image[r] \in loaded
       /\ step[r] \in {"reserve", "fill", "publish", "fallback", "write"} => read[r] # NoImage

\* The fallback was set before anything could be decorated, and stays.
Fallbacks ==
  /\ fallback # Decorator
  /\ fallback = NoImage =>
       /\ \A i \in Images : binding[i] # Decorator
       /\ \A r \in Rebinders : step[r] # "write" /\ read[r] # Decorator
       /\ \A j \in 0 .. MaxOriginals - 1 : originals[j].function # Decorator
       /\ \A t \in Throwers : throw[t].at = "idle"

\* What a thread that throws has found so far.
Finding ==
  \A t \in Throwers :
    /\ throw[t].at \in {"match", "call"} => throw[t].function # NoImage
    /\ throw[t].at = "match" => throw[t].k < throw[t].n

\* A callback runs between a swap and the next reset.
Alternate == Notifying => handler /\ call.at \in {"idle", "unregister", "clear"}

\* Nobody takes the decorator for an original.
Originals ==
  /\ \A r \in Rebinders : read[r] # Decorator /\ (step[r] = "read" => binding[image[r]] # Decorator)
  /\ \A j \in 0 .. MaxOriginals - 1 : originals[j].function # Decorator
  /\ \A t \in Throwers : throw[t].function # Decorator

\* A binding is the image's own or the decorator, and so is what the table says.
Own ==
  /\ \A i \in Images : binding[i] \in {i, Decorator}
  /\ \A j \in 0 .. MaxOriginals - 1 : originals[j].function \in {NoImage, originals[j].image}

\* The slots from count on are empty, and those that a reset has passed.
Emptied ==
  /\ \A j \in count .. MaxOriginals - 1 : originals[j].function = NoImage
  /\ call.at \in {"restore", "slot"} => n = count /\ \A j \in 0 .. k - 1 : originals[j].function = NoImage
  /\ ~ handler /\ call.at \in {"idle", "unregister", "clear", "store"} => count = 0

\* A rebinder has the last slot, which it fills step by step.
Filling ==
  \A r \in Rebinders :
    /\ step[r] \in {"reserve", "fill", "publish"} => read[r] = image[r]
    /\ step[r] \in {"fill", "publish", "fallback", "write"} => count > 0 /\ slot[r] = count - 1
    /\ step[r] \in {"fill", "publish"} => originals[slot[r]].function = NoImage
    /\ step[r] = "publish" => originals[slot[r]].image = image[r]
    /\ step[r] \in {"fallback", "write"} => originals[slot[r]] = [image |-> image[r], function |-> image[r]]

\* The first slot that a reset has still to put back.
Rest == CASE call.at = "restore" -> k
          [] call.at = "slot"    -> k + 1
          [] OTHER               -> 0

\* The original of an image that is decorated is in the table.
Recorded ==
  \A i \in Images : binding[i] = Decorator =>
    \E j \in Rest .. count - 1 : originals[j] = [image |-> i, function |-> i]

\* Between a swap and the next reset an image is decorated, or has still to
\* be, or the table was full, or nobody was told of it.
Pending(i) == i \in images \/ \E r \in Rebinders : step[r] # "idle" /\ image[r] = i

Covered ==
  handler /\ call.at \in {"scan", "idle", "unregister", "clear"} =>
    /\ \A i \in loaded : binding[i] = Decorator \/ count = MaxOriginals \/ i \in missed \/ Pending(i)
    /\ call.at # "scan" => images = {}

SwapInv ==
  /\ SwapTypeOK /\ Phases /\ Rebinding /\ Fallbacks /\ Finding
  /\ ~ overlapped => Alternate /\ Originals
  /\ ~ overlapped /\ ~ failed => Own /\ Emptied /\ Filling /\ Recorded /\ Covered

-----------------------------------------------------------------------------
(***************************************************************************)
(* The steps                                                               *)
(***************************************************************************)
Calling ==
  \/ Call \/ Unregister \/ ClearHandler \/ ReadCount \/ RestoreBinding \/ ClearSlot \/ ResetCount
  \/ StoreHandler \/ GetImages \/ ScanImage \/ Register

Throwings == [at : Throwing, from : Images \cup {NoImage}, n : 0 .. MaxOriginals, k : 0 .. MaxOriginals,
              function : Functions]

ThrowStep(t) == Throw(t) \/ FindCount(t) \/ Find(t) \/ Match(t) \/ Fallback(t) \/ CallOriginal(t)

-----------------------------------------------------------------------------
LEMMA SwapInvInit == SwapInit => SwapInv
<1> SUFFICES ASSUME SwapInit PROVE SwapInv
  OBVIOUS
<1> USE SwapAssumption DEF SwapInit
<1>1. SwapTypeOK
  <2>1. 0 \in 0 .. MaxOriginals /\ 0 \in 0 .. MaxOriginals - 1 /\ 0 \in 0 .. MaxCalls
    OBVIOUS
  <2>2. throw \in [Throwers -> [at : Throwing, from : Images \cup {NoImage}, n : 0 .. MaxOriginals,
                               k : 0 .. MaxOriginals, function : Functions]]
    BY <2>1 DEF Functions, Throwing, Idle
  <2>3. originals \in [0 .. MaxOriginals - 1 -> [image : Images \cup {NoImage}, function : Functions]]
    BY DEF Functions
  <2> QED BY <2>1, <2>2, <2>3 DEF SwapTypeOK, Functions, Calls, Steps
<1>2. Phases
  BY DEF Phases, Rebinders
<1>3. Rebinding /\ Filling
  BY DEF Rebinding, Filling, Rebinders
<1>4. Fallbacks /\ Originals
  BY DEF Fallbacks, Originals, Idle
<1>5. Finding
  BY DEF Finding, Idle
<1>6. Alternate
  BY DEF Alternate, Notifying, Rebinders
<1>7. Own /\ Recorded
  BY DEF Own, Recorded
<1>8. Emptied /\ Covered
  BY DEF Emptied, Covered
<1> QED BY <1>1, <1>2, <1>3, <1>4, <1>5, <1>6, <1>7, <1>8 DEF SwapInv

-----------------------------------------------------------------------------
(***************************************************************************)
(* Types                                                                   *)
(***************************************************************************)
\* One field of a slot is written.
Slotted(j, e) ==
  /\ originals' \in [0 .. MaxOriginals - 1 -> [image : Images \cup {NoImage}, function : Functions]]
  /\ originals'[j] = e
  /\ \A i \in 0 .. MaxOriginals - 1 : i # j => originals'[i] = originals[i]

LEMMA SlotWritten ==
  ASSUME SwapTypeOK, NEW j \in 0 .. MaxOriginals - 1
  PROVE  /\ \A i \in Images \cup {NoImage} : originals' = [originals EXCEPT ![j].image = i] =>
              Slotted(j, [image |-> i, function |-> originals[j].function])
         /\ \A f \in Functions : originals' = [originals EXCEPT ![j].function = f] =>
              Slotted(j, [image |-> originals[j].image, function |-> f])
<1> USE DEF Slotted
<1>1. PICK e \in [image : Images \cup {NoImage}, function : Functions] : e = originals[j]
  BY DEF SwapTypeOK
<1>2. originals \in [0 .. MaxOriginals - 1 -> [image : Images \cup {NoImage}, function : Functions]]
  BY DEF SwapTypeOK
<1>3. ASSUME NEW i \in Images \cup {NoImage}, originals' = [originals EXCEPT ![j].image = i]
      PROVE  Slotted(j, [image |-> i, function |-> originals[j].function])
  <2>1. PICK d : d = [e EXCEPT !.image = i]
    OBVIOUS
  <2>2. d = [image |-> i, function |-> e.function] /\ d \in [image : Images \cup {NoImage}, function : Functions]
    BY <2>1
  <2>3. originals' = [originals EXCEPT ![j] = d]
    BY <1>1, <1>3, <2>1
  <2> QED BY <1>1, <1>2, <2>2, <2>3
<1>4. ASSUME NEW f \in Functions, originals' = [originals EXCEPT ![j].function = f]
      PROVE  Slotted(j, [image |-> originals[j].image, function |-> f])
  <2>1. PICK d : d = [e EXCEPT !.function = f]
    OBVIOUS
  <2>2. d = [image |-> e.image, function |-> f] /\ d \in [image : Images \cup {NoImage}, function : Functions]
    BY <2>1
  <2>3. originals' = [originals EXCEPT ![j] = d]
    BY <1>1, <1>4, <2>1
  <2> QED BY <1>1, <1>2, <2>2, <2>3
<1> QED BY <1>3, <1>4

LEMMA RebindTypes ==
  ASSUME SwapInv, NEW r \in Rebinders, Rebind(r) PROVE SwapTypeOK'
<1> SwapTypeOK
  BY DEF SwapInv
<1> USE SwapAssumption DEF SwapTypeOK, Rebind, client, Goes
<1>1. CASE CheckHandler(r)
  BY <1>1 DEF CheckHandler, table, Steps
<1>2. CASE Look(r)
  BY <1>2 DEF Look, table, Steps
<1>3. CASE ReadBinding(r)
  <2>1. image[r] \in Images
    BY <1>3 DEF SwapInv, Rebinding, ReadBinding
  <2> QED BY <1>3, <2>1 DEF ReadBinding, table, Steps, Functions
<1>4. CASE reserveIndex(r)
  <2>1. CASE count >= MaxOriginals
    <3>1. step' = [step EXCEPT ![r] = "idle"] /\ UNCHANGED <<count, slot>>
      BY <1>4, <2>1 DEF reserveIndex
    <3>2. step' \in [Rebinders -> Steps]
      BY <3>1 DEF Steps
    <3> QED BY <1>4, <3>1, <3>2 DEF reserveIndex
  <2>2. CASE ~ (count >= MaxOriginals)
    <3>1. count \in 0 .. MaxOriginals - 1 /\ count + 1 \in 0 .. MaxOriginals
      BY <2>2
    <3>2. count' = count + 1 /\ slot' = [slot EXCEPT ![r] = count] /\ step' = [step EXCEPT ![r] = "fill"]
      BY <1>4, <2>2 DEF reserveIndex
    <3>3. slot' \in [Rebinders -> 0 .. MaxOriginals - 1] /\ step' \in [Rebinders -> Steps]
      BY <3>1, <3>2 DEF Steps
    <3> QED BY <1>4, <3>1, <3>2, <3>3 DEF reserveIndex
  <2> QED BY <2>1, <2>2
<1>5. CASE Fill(r)
  <2>1. originals' = [originals EXCEPT ![slot[r]].image = image[r]] /\ slot[r] \in 0 .. MaxOriginals - 1
        /\ image[r] \in Images \cup {NoImage}
    BY <1>5 DEF Fill
  <2>2. originals' \in [0 .. MaxOriginals - 1 -> [image : Images \cup {NoImage}, function : Functions]]
    BY <2>1, SlotWritten DEF Slotted
  <2> QED BY <1>5, <2>2 DEF Fill, Steps
<1>6. CASE Publish(r)
  <2>1. originals' = [originals EXCEPT ![slot[r]].function = read[r]] /\ slot[r] \in 0 .. MaxOriginals - 1
        /\ read[r] \in Functions
    BY <1>6 DEF Publish
  <2>2. originals' \in [0 .. MaxOriginals - 1 -> [image : Images \cup {NoImage}, function : Functions]]
    BY <2>1, SlotWritten DEF Slotted
  <2> QED BY <1>6, <2>2 DEF Publish, Steps
<1>7. CASE SetFallback(r)
  BY <1>7 DEF SetFallback, Steps
<1>8. CASE WriteBinding(r)
  BY <1>8 DEF WriteBinding, writeProtectedBinding, table, Steps
<1> QED BY <1>1, <1>2, <1>3, <1>4, <1>5, <1>6, <1>7, <1>8 DEF Rebind

LEMMA CallTypes ==
  ASSUME SwapInv, Calling PROVE SwapTypeOK'
<1> SwapTypeOK /\ Phases
  BY DEF SwapInv
<1> USE SwapAssumption DEF SwapTypeOK, table, rebinds, history, Continue, Calls
<1>1. CASE Call
  BY <1>1 DEF Call
<1>2. CASE Unregister
  BY <1>2 DEF Unregister
<1>3. CASE ClearHandler
  BY <1>3 DEF ClearHandler
<1>4. CASE ReadCount
  <2>1. 0 \in 0 .. MaxOriginals
    OBVIOUS
  <2> QED BY <1>4, <2>1 DEF ReadCount
<1>5. CASE RestoreBinding
  <2>1. k \in 0 .. MaxOriginals - 1
    BY <1>5 DEF RestoreBinding
  <2>2. originals[k].function \in Functions
    BY <2>1
  <2>3. binding' \in [Images -> Images \cup {Decorator}] /\ failed' \in BOOLEAN
    BY <1>5, <2>2 DEF RestoreBinding, writeProtectedBinding, Functions
  <2> QED BY <1>5, <2>3 DEF RestoreBinding
<1>6. CASE ClearSlot
  <2>1. k \in 0 .. MaxOriginals - 1 /\ k + 1 \in 0 .. MaxOriginals
    BY <1>6 DEF ClearSlot, Phases
  <2>2. originals' \in [0 .. MaxOriginals - 1 -> [image : Images \cup {NoImage}, function : Functions]]
    BY <1>6, <2>1, SlotWritten DEF ClearSlot, Functions, Slotted
  <2> QED BY <1>6, <2>1, <2>2 DEF ClearSlot
<1>7. CASE ResetCount
  <2>1. 0 \in 0 .. MaxOriginals
    OBVIOUS
  <2> QED BY <1>7, <2>1 DEF ResetCount
<1>8. CASE StoreHandler
  BY <1>8 DEF StoreHandler
<1>9. CASE GetImages
  BY <1>9 DEF GetImages
<1>10. CASE ScanImage
  BY <1>10 DEF ScanImage, Goes, Steps
<1>11. CASE Register
  BY <1>11 DEF Register
<1> QED BY <1>1, <1>2, <1>3, <1>4, <1>5, <1>6, <1>7, <1>8, <1>9, <1>10, <1>11 DEF Calling

LEMMA LoadTypes ==
  ASSUME SwapInv, Load \/ notifier PROVE SwapTypeOK'
<1> SwapTypeOK
  BY DEF SwapInv
<1> USE DEF SwapTypeOK, table, client, history, Goes, Steps, Rebinders
<1>1. CASE Load
  BY <1>1 DEF Load
<1>2. CASE notifier
  <2>1. image["loader"] \in Images
    BY <1>2 DEF SwapInv, Rebinding, notifier
  <2> QED BY <1>2, <2>1 DEF notifier
<1> QED BY <1>1, <1>2

\* What a thread that throws finds is a function, an original one unless a
\* callback has outlived its reset; and there is a fallback.
LEMMA Finds ==
  ASSUME SwapInv, NEW t \in Throwers, ThrowStep(t)
  PROVE  \E x \in Throwings :
           /\ throw' = [throw EXCEPT ![t] = x]
           /\ x.at \in {"match", "call"} => x.function # NoImage
           /\ x.at = "match" => x.k < x.n
           /\ x.at # "idle" => fallback # NoImage
           /\ (~ overlapped => x.function # Decorator)
<1>1. PICK y \in Throwings : y = throw[t]
  BY DEF SwapInv, SwapTypeOK, Throwings
<1>2. /\ count \in 0 .. MaxOriginals /\ fallback \in Functions /\ fallback # Decorator
      /\ originals \in [0 .. MaxOriginals - 1 -> [image : Images \cup {NoImage}, function : Functions]]
      /\ loaded \subseteq Images
  BY DEF SwapInv, SwapTypeOK, Fallbacks
<1>3. /\ y.at \in {"match", "call"} => y.function # NoImage
      /\ y.at = "match" => y.k < y.n
      /\ y.at # "idle" => fallback # NoImage
      /\ (~ overlapped => y.function # Decorator)
  BY <1>1 DEF SwapInv, Finding, Fallbacks, Originals
<1>4. Idle \in Throwings /\ Idle.at = "idle" /\ Idle.function = NoImage
  BY SwapAssumption DEF Idle, Throwings, Throwing, Functions
<1>5. NoImage # Decorator
  BY SwapAssumption
<1>6. ASSUME NEW i \in Images \cup {NoImage}, NEW x, x = [Idle EXCEPT !.at = "count", !.from = i]
      PROVE  x \in Throwings /\ x.at = "count" /\ x.function = NoImage
  BY <1>4, <1>6 DEF Throwings, Throwing, Idle
<1>13. ~ overlapped => \A j \in 0 .. MaxOriginals - 1 : originals[j].function # Decorator
  BY DEF SwapInv, Originals
<1> USE DEF Thrown
<1>7. CASE Throw(t)
  <2>1. PICK i \in loaded :
          throw' = [throw EXCEPT ![t] =
                      IF binding[i] = Decorator THEN [Idle EXCEPT !.at = "count", !.from = i] ELSE Idle]
    BY <1>7 DEF Throw
  <2>2. CASE binding[i] = Decorator
    <3>1. fallback # NoImage
      BY <1>2, <2>2 DEF SwapInv, Fallbacks
    <3> QED BY <1>2, <1>5, <1>6, <2>1, <2>2, <3>1
  <2>3. CASE binding[i] # Decorator
    BY <1>4, <1>5, <2>1, <2>3
  <2> QED BY <2>2, <2>3
<1>8. CASE FindCount(t)
  <2>1. PICK x : x = [y EXCEPT !.at = "find", !.n = count, !.k = 0]
    OBVIOUS
  <2>2. 0 \in 0 .. MaxOriginals
    BY SwapAssumption
  <2>3. x \in Throwings /\ x.at = "find" /\ x.function = y.function
    BY <1>1, <1>2, <2>1, <2>2 DEF Throwings, Throwing
  <2> QED BY <1>1, <1>3, <1>8, <2>1, <2>3 DEF FindCount
<1>9. CASE Find(t)
  <2>1. CASE y.k >= y.n
    <3>1. PICK x : x = [y EXCEPT !.at = "fallback"]
      OBVIOUS
    <3>2. x \in Throwings /\ x.at = "fallback" /\ x.function = y.function
      BY <1>1, <3>1 DEF Throwings, Throwing
    <3> QED BY <1>1, <1>3, <1>9, <2>1, <3>1, <3>2 DEF Find
  <2>2. CASE y.k < y.n
    <3>1. y.k \in 0 .. MaxOriginals - 1 /\ ~ (y.k >= y.n) /\ y.k + 1 \in 0 .. MaxOriginals
      BY <1>1, <2>2, SwapAssumption DEF Throwings
    <3>2. CASE originals[y.k].function = NoImage
      <4>1. PICK x : x = [y EXCEPT !.k = y.k + 1]
        OBVIOUS
      <4>2. x \in Throwings /\ x.at = y.at /\ x.function = y.function
        BY <1>1, <3>1, <4>1 DEF Throwings
      <4>3. throw' = [throw EXCEPT ![t] = x] /\ y.at = "find"
        BY <1>1, <1>9, <3>1, <3>2, <4>1 DEF Find
      <4> QED BY <1>3, <4>2, <4>3
    <3>3. CASE originals[y.k].function # NoImage
      <4>1. PICK x : x = [y EXCEPT !.at = "match", !.function = originals[y.k].function]
        OBVIOUS
      <4>2. x \in Throwings /\ x.at = "match" /\ x.function = originals[y.k].function /\ x.k = y.k /\ x.n = y.n
        BY <1>1, <1>2, <3>1, <4>1 DEF Throwings, Throwing
      <4>3. ~ overlapped => x.function # Decorator
        BY <3>1, <4>2, <1>13
      <4>4. throw' = [throw EXCEPT ![t] = x] /\ y.at = "find"
        BY <1>1, <1>9, <3>1, <3>3, <4>1 DEF Find
      <4> QED BY <1>3, <2>2, <3>3, <4>2, <4>3, <4>4
    <3> QED BY <3>2, <3>3
  <2> QED BY <1>1, <2>1, <2>2, SwapAssumption DEF Throwings
<1>10. CASE Match(t)
  <2>1. y.k < y.n /\ y.k \in 0 .. MaxOriginals - 1 /\ y.n \in Int /\ y.k + 1 \in 0 .. MaxOriginals
    BY <1>1, <1>3, <1>10, SwapAssumption DEF Throwings, Match
  <2>2. CASE originals[y.k].image = y.from
    <3>1. PICK x : x = [y EXCEPT !.at = "call"]
      OBVIOUS
    <3>2. x \in Throwings /\ x.at = "call" /\ x.function = y.function
      BY <1>1, <3>1 DEF Throwings, Throwing
    <3> QED BY <1>1, <1>3, <1>10, <2>2, <3>1, <3>2 DEF Match
  <2>3. CASE originals[y.k].image # y.from
    <3>1. PICK x : x = [y EXCEPT !.at = "find", !.k = y.k + 1, !.function = NoImage]
      OBVIOUS
    <3>2. x \in Throwings /\ x.at = "find" /\ x.function = NoImage
      BY <1>1, <2>1, <3>1 DEF Throwings, Throwing, Functions
    <3> QED BY <1>1, <1>3, <1>5, <1>10, <2>3, <3>1, <3>2 DEF Match
  <2> QED BY <2>2, <2>3
<1>11. CASE Fallback(t)
  <2>1. PICK x : x = [y EXCEPT !.at = "call", !.function = fallback]
    OBVIOUS
  <2>2. x \in Throwings /\ x.at = "call" /\ x.function = fallback
    BY <1>1, <1>2, <2>1 DEF Throwings, Throwing
  <2> QED BY <1>1, <1>2, <1>3, <1>11, <2>1, <2>2 DEF Fallback
<1>12. CASE CallOriginal(t)
  <2>1. CASE y.function = Decorator
    <3>1. PICK x : x = [Idle EXCEPT !.at = "count", !.from = y.from]
      OBVIOUS
    <3>2. y.from \in Images \cup {NoImage}
      BY <1>1 DEF Throwings
    <3>3. x \in Throwings /\ x.at = "count" /\ x.function = NoImage
      BY <1>6, <3>1, <3>2
    <3> QED BY <1>1, <1>3, <1>5, <1>12, <2>1, <3>1, <3>3 DEF CallOriginal
  <2>2. CASE y.function # Decorator
    BY <1>1, <1>4, <1>5, <1>12, <2>2 DEF CallOriginal
  <2> QED BY <2>1, <2>2
<1> QED BY <1>7, <1>8, <1>9, <1>10, <1>11, <1>12 DEF ThrowStep

LEMMA ThrowInv ==
  ASSUME SwapInv, Throws PROVE SwapInv'
<1>1. PICK t \in Throwers : ThrowStep(t)
  BY DEF Throws, ThrowStep
<1>2. PICK x \in Throwings :
           /\ throw' = [throw EXCEPT ![t] = x]
           /\ x.at \in {"match", "call"} => x.function # NoImage
           /\ x.at = "match" => x.k < x.n
           /\ x.at # "idle" => fallback # NoImage
           /\ (~ overlapped => x.function # Decorator)
  BY <1>1, Finds
<1>3. throw \in [Throwers -> Throwings] /\ throw' \in [Throwers -> Throwings]
  BY <1>2 DEF SwapInv, SwapTypeOK, Throwings
<1>4. SwapTypeOK'
  BY <1>3 DEF SwapInv, SwapTypeOK, Throws, table, client, rebinds, history, Throwings
<1> USE DEF Throws, table, client, rebinds, history
<1>5. Phases' /\ Rebinding'
  BY DEF SwapInv, Phases, Rebinding
<1>6. Fallbacks' /\ Finding'
  BY <1>2, <1>3 DEF SwapInv, Fallbacks, Finding
<1>7. ~ overlapped' => Alternate' /\ Originals'
  BY <1>2, <1>3 DEF SwapInv, Alternate, Notifying, Originals
<1>8. ASSUME ~ overlapped', ~ failed' PROVE Own' /\ Emptied' /\ Filling' /\ Recorded' /\ Covered'
  BY <1>8 DEF SwapInv, Own, Emptied, Filling, Recorded, Rest, Covered, Pending
<1> QED BY <1>4, <1>5, <1>6, <1>7, <1>8 DEF SwapInv

-----------------------------------------------------------------------------
(***************************************************************************)
(* The rebinders                                                           *)
(***************************************************************************)
\* Only one rebinds at a time, and not during a reset.
LEMMA Alone ==
  ASSUME SwapInv, ~ overlapped
  PROVE  /\ \A r \in Rebinders : step[r] \notin {"idle", "notify"} =>
              /\ handler /\ call.at \in {"scan", "idle", "unregister", "clear"} /\ Rest = 0
              /\ \A q \in Rebinders : q # r => step[q] \in {"idle", "notify"}
         /\ ~ handler \/ call.at = "images" => \A r \in Rebinders : step[r] \in {"idle", "notify"}
BY DEF SwapInv, Phases, Alternate, Notifying, Rest, Rebinders

LEMMA RebindInv ==
  ASSUME SwapInv, NEW r \in Rebinders, Rebind(r) PROVE SwapInv'
<1> SwapTypeOK /\ Phases /\ Rebinding /\ Fallbacks /\ Finding
  BY DEF SwapInv
<1> ~ overlapped => Alternate /\ Originals
  BY DEF SwapInv
<1> ~ overlapped /\ ~ failed => Own /\ Emptied /\ Filling /\ Recorded /\ Covered
  BY DEF SwapInv
<1>t. SwapTypeOK'
  BY RebindTypes
<1>u. UNCHANGED <<loaded, handler, callback, client, throw, overlapped, missed>>
  BY DEF Rebind
<1> /\ step \in [Rebinders -> Steps] /\ image \in [Rebinders -> Images \cup {NoImage}]
    /\ read \in [Rebinders -> Functions] /\ slot \in [Rebinders -> 0 .. MaxOriginals - 1]
    /\ binding \in [Images -> Images \cup {Decorator}] /\ loaded \subseteq Images /\ count \in 0 .. MaxOriginals
  BY DEF SwapTypeOK
<1> USE <1>u DEF client, table, Goes
<1>1. CASE CheckHandler(r)
  <2>1. Phases'
    BY <1>1 DEF CheckHandler, Phases
  <2>2. Rebinding'
    BY <1>1 DEF CheckHandler, Rebinding
  <2>3. Fallbacks' /\ Finding'
    BY <1>1 DEF CheckHandler, Fallbacks, Finding
  <2>4. ASSUME ~ overlapped PROVE Alternate'
    BY <1>1, <2>4 DEF CheckHandler, Alternate, Notifying
  <2>5. ASSUME ~ overlapped PROVE Originals'
    BY <1>1, <2>5 DEF CheckHandler, Originals
  <2>6. ASSUME ~ overlapped, ~ failed' PROVE Own'
    BY <1>1, <2>6 DEF CheckHandler, Own
  <2>7. ASSUME ~ overlapped, ~ failed' PROVE Emptied'
    BY <1>1, <2>7 DEF CheckHandler, Emptied
  <2>8. ASSUME ~ overlapped, ~ failed' PROVE Filling'
    BY <1>1, <2>8, Alone DEF CheckHandler, Filling
  <2>9. ASSUME ~ overlapped, ~ failed' PROVE Recorded'
    BY <1>1, <2>9 DEF CheckHandler, Recorded, Rest
  <2>10. ASSUME ~ overlapped, ~ failed' PROVE Covered'
    BY <1>1, <2>10 DEF CheckHandler, Covered, Pending
  <2> QED BY <1>t, <2>1, <2>2, <2>3, <2>4, <2>5, <2>6, <2>7, <2>8, <2>9, <2>10, <1>1
         DEF SwapInv, CheckHandler
<1>2. CASE Look(r)
  <2>1. Phases'
    BY <1>2 DEF Look, Phases
  <2>2. Rebinding'
    BY <1>2 DEF Look, Rebinding
  <2>3. Fallbacks' /\ Finding'
    BY <1>2 DEF Look, Fallbacks, Finding
  <2>4. ASSUME ~ overlapped PROVE Alternate'
    BY <1>2, <2>4 DEF Look, Alternate, Notifying
  <2>5. ASSUME ~ overlapped PROVE Originals'
    BY <1>2, <2>5 DEF Look, Originals
  <2>6. ASSUME ~ overlapped, ~ failed' PROVE Own'
    BY <1>2, <2>6 DEF Look, Own
  <2>7. ASSUME ~ overlapped, ~ failed' PROVE Emptied'
    BY <1>2, <2>7 DEF Look, Emptied
  <2>8. ASSUME ~ overlapped, ~ failed' PROVE Filling'
    BY <1>2, <2>8, Alone DEF Look, Filling
  <2>9. ASSUME ~ overlapped, ~ failed' PROVE Recorded'
    BY <1>2, <2>9 DEF Look, Recorded, Rest
  <2>10. ASSUME ~ overlapped, ~ failed' PROVE Covered'
    BY <1>2, <2>10 DEF Look, Covered, Pending
  <2> QED BY <1>t, <2>1, <2>2, <2>3, <2>4, <2>5, <2>6, <2>7, <2>8, <2>9, <2>10, <1>2
         DEF SwapInv, Look
<1>3. CASE ReadBinding(r)
  <2>a. /\ image[r] \in Images /\ binding[image[r]] \in Images \cup {Decorator} /\ binding[image[r]] # NoImage
        /\ step[r] = "read" /\ step' = [step EXCEPT ![r] = "reserve"]
        /\ read' = [read EXCEPT ![r] = binding[image[r]]] /\ UNCHANGED <<binding, table, image, slot, failed>>
    BY <1>3, SwapAssumption DEF ReadBinding, Rebinding
  <2>1. Phases'
    BY <1>3 DEF ReadBinding, Phases
  <2>2. Rebinding'
    BY <2>a DEF Rebinding
  <2>3. Fallbacks' /\ Finding'
    BY <2>a DEF Fallbacks, Finding
  <2>4. ASSUME ~ overlapped PROVE Alternate'
    BY <1>3, <2>4 DEF ReadBinding, Alternate, Notifying
  <2>5. ASSUME ~ overlapped PROVE Originals'
    BY <1>3, <2>5 DEF ReadBinding, Originals
  <2>6. ASSUME ~ overlapped, ~ failed' PROVE Own'
    BY <1>3, <2>6 DEF ReadBinding, Own
  <2>7. ASSUME ~ overlapped, ~ failed' PROVE Emptied'
    BY <1>3, <2>7 DEF ReadBinding, Emptied
  <2>8. ASSUME ~ overlapped, ~ failed' PROVE Filling'
    <3>1. read'[r] = image'[r]
      BY <2>a, <2>8 DEF Own, Originals
    <3>2. \A q \in Rebinders : q # r => step'[q] \in {"idle", "notify"}
      BY <2>a, <2>8, Alone
    <3> QED BY <2>a, <3>1, <3>2 DEF Filling
  <2>9. ASSUME ~ overlapped, ~ failed' PROVE Recorded'
    BY <1>3, <2>9 DEF ReadBinding, Recorded, Rest
  <2>10. ASSUME ~ overlapped, ~ failed' PROVE Covered'
    BY <1>3, <2>10 DEF ReadBinding, Covered, Pending
  <2> QED BY <1>t, <2>1, <2>2, <2>3, <2>4, <2>5, <2>6, <2>7, <2>8, <2>9, <2>10, <1>3
         DEF SwapInv, ReadBinding
<1>4. CASE reserveIndex(r)
  <2>a. /\ step[r] = "reserve" /\ UNCHANGED <<binding, originals, fallback, image, read, failed>>
        /\ \/ step' = [step EXCEPT ![r] = "idle"] /\ count' = count /\ slot' = slot /\ count = MaxOriginals
           \/ /\ step' = [step EXCEPT ![r] = "fill"] /\ count' = count + 1 /\ slot' = [slot EXCEPT ![r] = count]
              /\ count \in 0 .. MaxOriginals - 1
    BY <1>4, SwapAssumption DEF reserveIndex
  <2>b. step'[r] \in {"idle", "fill"} /\ \A q \in Rebinders : q # r => step'[q] = step[q]
    BY <2>a
  <2>1. Phases'
    BY <2>a, <2>b DEF Phases, Rebinders
  <2>2. Rebinding'
    BY <1>4 DEF reserveIndex, Rebinding
  <2>3. Fallbacks' /\ Finding'
    BY <1>4 DEF reserveIndex, Fallbacks, Finding
  <2>4. ASSUME ~ overlapped PROVE Alternate'
    BY <2>a, <2>b, <2>4 DEF Alternate, Notifying, Rebinders
  <2>5. ASSUME ~ overlapped PROVE Originals'
    BY <1>4, <2>5 DEF reserveIndex, Originals
  <2>6. ASSUME ~ overlapped, ~ failed' PROVE Own'
    BY <1>4, <2>6 DEF reserveIndex, Own
  <2>7. ASSUME ~ overlapped, ~ failed' PROVE Emptied'
    <3>1. handler /\ call.at \in {"scan", "idle", "unregister", "clear"}
      BY <2>a, <2>7, Alone
    <3> QED BY <2>a, <2>7, <3>1, SwapAssumption DEF Emptied
  <2>8. ASSUME ~ overlapped, ~ failed' PROVE Filling'
    <3>1. \A q \in Rebinders : q # r => step'[q] \in {"idle", "notify"}
      BY <2>a, <2>8, Alone
    <3>2. CASE step' = [step EXCEPT ![r] = "idle"]
      BY <3>1, <3>2 DEF Filling
    <3>3. CASE step' = [step EXCEPT ![r] = "fill"]
      <4>1. count' = count + 1 /\ slot'[r] = count /\ count \in 0 .. MaxOriginals - 1
        BY <2>a, <3>3
      <4>2. originals[count].function = NoImage /\ read[r] = image[r]
        <5>1. Emptied /\ Filling /\ step[r] = "reserve"
          BY <2>a, <2>8
        <5>2. count \in count .. MaxOriginals - 1
          BY <4>1, SwapAssumption
        <5> QED BY <5>1, <5>2 DEF Emptied, Filling
      <4>3. step'[r] = "fill" /\ UNCHANGED <<originals, image, read>>
        BY <2>a, <3>3
      <4>4. count' > 0 /\ slot'[r] = count' - 1
        BY <4>1
      <4> QED BY <3>1, <4>1, <4>2, <4>3, <4>4 DEF Filling
    <3> QED BY <2>a, <3>2, <3>3
  <2>9. ASSUME ~ overlapped, ~ failed' PROVE Recorded'
    <3>1. Rest = 0 /\ Rest' = 0
      BY <2>a, <2>9, Alone DEF Rest
    <3>2. 0 .. count - 1 \subseteq 0 .. count' - 1
      BY <2>a
    <3> QED BY <2>a, <2>9, <3>1, <3>2 DEF Recorded
  <2>10. ASSUME ~ overlapped, ~ failed' PROVE Covered'
    <3>1. CASE count' = MaxOriginals
      BY <2>a, <2>10, <3>1 DEF Covered, Pending
    <3>2. CASE count' # MaxOriginals
      BY <2>a, <2>10, <3>2 DEF Covered, Pending
    <3> QED BY <3>1, <3>2
  <2> QED BY <1>t, <2>1, <2>2, <2>3, <2>4, <2>5, <2>6, <2>7, <2>8, <2>9, <2>10, <1>4
         DEF SwapInv, reserveIndex
<1>5. CASE Fill(r)
  <2>a. /\ slot[r] \in 0 .. MaxOriginals - 1
        /\ Slotted(slot[r], [image |-> image[r], function |-> originals[slot[r]].function])
        /\ step[r] = "fill" /\ step' = [step EXCEPT ![r] = "publish"]
        /\ UNCHANGED <<binding, count, fallback, image, read, slot, failed>>
    BY <1>5, SlotWritten DEF Fill
  <2>1. Phases'
    BY <1>5 DEF Fill, Phases
  <2>2. Rebinding'
    BY <1>5 DEF Fill, Rebinding
  <2>3. Fallbacks' /\ Finding'
    BY <1>5 DEF Fill, Fallbacks, Finding
  <2>4. ASSUME ~ overlapped PROVE Alternate'
    BY <1>5, <2>4 DEF Fill, Alternate, Notifying
  <2>5. ASSUME ~ overlapped PROVE Originals'
    BY <1>5, <2>5 DEF Fill, Originals
  <2>6. ASSUME ~ overlapped, ~ failed' PROVE Own'
    <3>1. originals'[slot[r]].function \in {NoImage, originals'[slot[r]].image}
      <4>1. originals[slot[r]].function = NoImage
        BY <2>a, <2>6 DEF Filling
      <4> QED BY <2>a, <4>1 DEF Slotted
    <3>2. \A j \in 0 .. MaxOriginals - 1 : j # slot[r] => originals'[j].function \in {NoImage, originals'[j].image}
      BY <2>a, <2>6 DEF Own, Slotted
    <3> QED BY <2>a, <2>6, <3>1, <3>2 DEF Own
  <2>7. ASSUME ~ overlapped, ~ failed' PROVE Emptied'
    BY <1>5, <2>7 DEF Fill, Emptied
  <2>8. ASSUME ~ overlapped, ~ failed' PROVE Filling'
    <3>1. \A q \in Rebinders : q # r => step'[q] \in {"idle", "notify"}
      BY <2>a, <2>8, Alone
    <3> QED BY SMTT(30), <2>a, <2>8, <3>1 DEF Filling, Slotted
  <2>9. ASSUME ~ overlapped, ~ failed' PROVE Recorded'
    <3>1. Rest = 0 /\ Rest' = 0
      BY <2>a, <2>9, Alone DEF Rest
    <3>2. originals[slot[r]].function = NoImage
      BY <2>a, <2>9 DEF Filling
    <3>3. ASSUME NEW i \in Images, binding[i] = Decorator
          PROVE  \E j \in 0 .. count - 1 : originals'[j] = [image |-> i, function |-> i]
      <4>1. PICK j \in 0 .. count - 1 : originals[j] = [image |-> i, function |-> i]
        BY <2>a, <2>9, <3>1, <3>3 DEF Recorded
      <4>2. j # slot[r] /\ j \in 0 .. MaxOriginals - 1
        BY <3>2, <4>1, SwapAssumption
      <4> QED BY <2>a, <4>1, <4>2 DEF Slotted
    <3> QED BY <2>a, <3>1, <3>3 DEF Recorded
  <2>10. ASSUME ~ overlapped, ~ failed' PROVE Covered'
    BY <1>5, <2>10 DEF Fill, Covered, Pending
  <2> QED BY <1>t, <2>1, <2>2, <2>3, <2>4, <2>5, <2>6, <2>7, <2>8, <2>9, <2>10, <1>5
         DEF SwapInv, Fill
<1>6. CASE Publish(r)
  <2>a. /\ slot[r] \in 0 .. MaxOriginals - 1
        /\ Slotted(slot[r], [image |-> originals[slot[r]].image, function |-> read[r]])
        /\ step[r] = "publish" /\ step' = [step EXCEPT ![r] = "fallback"]
        /\ UNCHANGED <<binding, count, fallback, image, read, slot, failed>>
    BY <1>6, SlotWritten DEF Publish
  <2>1. Phases'
    BY <1>6 DEF Publish, Phases
  <2>2. Rebinding'
    BY <1>6 DEF Publish, Rebinding
  <2>3. Fallbacks' /\ Finding'
    BY <1>6 DEF Publish, Fallbacks, Finding
  <2>4. ASSUME ~ overlapped PROVE Alternate'
    BY <1>6, <2>4 DEF Publish, Alternate, Notifying
  <2>5. ASSUME ~ overlapped PROVE Originals'
    BY <1>6, <2>5 DEF Publish, Originals
  <2>6. ASSUME ~ overlapped, ~ failed' PROVE Own'
    <3>1. originals'[slot[r]].function \in {NoImage, originals'[slot[r]].image}
      <4>1. originals[slot[r]].image = image[r] /\ read[r] = image[r]
        BY <2>a, <2>6 DEF Filling
      <4> QED BY <2>a, <4>1 DEF Slotted
    <3>2. \A j \in 0 .. MaxOriginals - 1 : j # slot[r] => originals'[j].function \in {NoImage, originals'[j].image}
      BY <2>a, <2>6 DEF Own, Slotted
    <3> QED BY <2>a, <2>6, <3>1, <3>2 DEF Own
  <2>7. ASSUME ~ overlapped, ~ failed' PROVE Emptied'
    <3>1. handler /\ call.at \in {"scan", "idle", "unregister", "clear"}
      BY <2>a, <2>7, Alone
    <3>2. slot[r] = count - 1
      BY <2>a, <2>7 DEF Filling
    <3>3. \A j \in count .. MaxOriginals - 1 : j \in 0 .. MaxOriginals - 1 /\ j # slot[r]
      BY <3>2, SwapAssumption
    <3> QED BY <2>a, <2>7, <3>1, <3>2, <3>3 DEF Emptied, Slotted
  <2>8. ASSUME ~ overlapped, ~ failed' PROVE Filling'
    <3>1. \A q \in Rebinders : q # r => step'[q] \in {"idle", "notify"}
      BY <2>a, <2>8, Alone
    <3> QED BY <2>a, <2>8, <3>1 DEF Filling, Slotted
  <2>9. ASSUME ~ overlapped, ~ failed' PROVE Recorded'
    <3>1. Rest = 0 /\ Rest' = 0
      BY <2>a, <2>9, Alone DEF Rest
    <3>2. originals[slot[r]].function = NoImage
      BY <2>a, <2>9 DEF Filling
    <3>3. ASSUME NEW i \in Images, binding[i] = Decorator
          PROVE  \E j \in 0 .. count - 1 : originals'[j] = [image |-> i, function |-> i]
      <4>1. PICK j \in 0 .. count - 1 : originals[j] = [image |-> i, function |-> i]
        BY <2>a, <2>9, <3>1, <3>3 DEF Recorded
      <4>2. j # slot[r] /\ j \in 0 .. MaxOriginals - 1
        BY <3>2, <4>1, SwapAssumption
      <4> QED BY <2>a, <4>1, <4>2 DEF Slotted
    <3> QED BY <2>a, <3>1, <3>3 DEF Recorded
  <2>10. ASSUME ~ overlapped, ~ failed' PROVE Covered'
    BY <1>6, <2>10 DEF Publish, Covered, Pending
  <2> QED BY <1>t, <2>1, <2>2, <2>3, <2>4, <2>5, <2>6, <2>7, <2>8, <2>9, <2>10, <1>6
         DEF SwapInv, Publish
<1>7. CASE SetFallback(r)
  <2>1. Phases'
    BY <1>7 DEF SetFallback, Phases
  <2>2. Rebinding'
    BY <1>7 DEF SetFallback, Rebinding
  <2>3. Fallbacks' /\ Finding'
    <3>1. read[r] # NoImage /\ fallback' # NoImage
      BY <1>7 DEF SetFallback, Rebinding
    <3>2. fallback' # Decorator
      BY <1>7 DEF SetFallback, Fallbacks
    <3> QED BY <3>1, <3>2 DEF Fallbacks, Finding
  <2>4. ASSUME ~ overlapped PROVE Alternate'
    BY <1>7, <2>4 DEF SetFallback, Alternate, Notifying
  <2>5. ASSUME ~ overlapped PROVE Originals'
    BY <1>7, <2>5 DEF SetFallback, Originals
  <2>6. ASSUME ~ overlapped, ~ failed' PROVE Own'
    BY <1>7, <2>6 DEF SetFallback, Own
  <2>7. ASSUME ~ overlapped, ~ failed' PROVE Emptied'
    BY <1>7, <2>7 DEF SetFallback, Emptied
  <2>8. ASSUME ~ overlapped, ~ failed' PROVE Filling'
    BY <1>7, <2>8, Alone DEF SetFallback, Filling
  <2>9. ASSUME ~ overlapped, ~ failed' PROVE Recorded'
    BY <1>7, <2>9 DEF SetFallback, Recorded, Rest
  <2>10. ASSUME ~ overlapped, ~ failed' PROVE Covered'
    BY <1>7, <2>10 DEF SetFallback, Covered, Pending
  <2> QED BY <1>t, <2>1, <2>2, <2>3, <2>4, <2>5, <2>6, <2>7, <2>8, <2>9, <2>10, <1>7
         DEF SwapInv, SetFallback
<1>8. CASE WriteBinding(r)
  <2>1. Phases'
    BY <1>8 DEF WriteBinding, writeProtectedBinding, Phases
  <2>2. Rebinding'
    BY <1>8 DEF WriteBinding, writeProtectedBinding, Rebinding
  <2>3. Fallbacks' /\ Finding'
    BY <1>8 DEF WriteBinding, writeProtectedBinding, Fallbacks, Finding
  <2>4. ASSUME ~ overlapped PROVE Alternate'
    BY <1>8, <2>4 DEF WriteBinding, writeProtectedBinding, Alternate, Notifying
  <2>5. ASSUME ~ overlapped PROVE Originals'
    <3>1. \A q \in Rebinders : step'[q] # "read"
      BY <1>8, <2>5, Alone DEF WriteBinding
    <3> QED BY <1>8, <2>5, <3>1 DEF WriteBinding, Originals
  <2>6. ASSUME ~ overlapped, ~ failed' PROVE Own'
    BY <1>8, <2>6 DEF WriteBinding, writeProtectedBinding, Own
  <2>7. ASSUME ~ overlapped, ~ failed' PROVE Emptied'
    BY <1>8, <2>7 DEF WriteBinding, writeProtectedBinding, Emptied
  <2>8. ASSUME ~ overlapped, ~ failed' PROVE Filling'
    BY <1>8, <2>8, Alone DEF WriteBinding, writeProtectedBinding, Filling
  <2>9. ASSUME ~ overlapped, ~ failed' PROVE Recorded'
    <3>1. Rest = 0 /\ Rest' = 0 /\ UNCHANGED <<originals, count>>
      BY <1>8, <2>9, Alone DEF Rest, WriteBinding
    <3>2. /\ slot[r] \in 0 .. count - 1 /\ originals[slot[r]] = [image |-> image[r], function |-> image[r]]
          /\ binding' = [binding EXCEPT ![image[r]] = Decorator] /\ ~ failed
      BY <1>8, <2>9 DEF WriteBinding, writeProtectedBinding, Filling
    <3>3. ASSUME NEW i \in Images, binding'[i] = Decorator
          PROVE  \E j \in 0 .. count - 1 : originals[j] = [image |-> i, function |-> i]
      BY <2>9, <3>1, <3>2, <3>3 DEF Recorded
    <3> QED BY <3>1, <3>3 DEF Recorded
  <2>10. ASSUME ~ overlapped, ~ failed' PROVE Covered'
    BY <1>8, <2>10 DEF WriteBinding, writeProtectedBinding, Covered, Pending
  <2> QED BY <1>t, <2>1, <2>2, <2>3, <2>4, <2>5, <2>6, <2>7, <2>8, <2>9, <2>10, <1>8
         DEF SwapInv, WriteBinding, writeProtectedBinding
<1> QED BY <1>1, <1>2, <1>3, <1>4, <1>5, <1>6, <1>7, <1>8 DEF Rebind

-----------------------------------------------------------------------------
(***************************************************************************)
(* The client                                                              *)
(***************************************************************************)
LEMMA CallInv ==
  ASSUME SwapInv, Calling PROVE SwapInv'
<1> SwapTypeOK /\ Phases /\ Rebinding /\ Fallbacks /\ Finding
  BY DEF SwapInv
<1> ~ overlapped => Alternate /\ Originals
  BY DEF SwapInv
<1> ~ overlapped /\ ~ failed => Own /\ Emptied /\ Filling /\ Recorded /\ Covered
  BY DEF SwapInv
<1>t. SwapTypeOK'
  BY CallTypes
<1> /\ step \in [Rebinders -> Steps] /\ image \in [Rebinders -> Images \cup {NoImage}]
    /\ binding \in [Images -> Images \cup {Decorator}] /\ loaded \subseteq Images /\ count \in 0 .. MaxOriginals
    /\ call \in [at : Calls, swaps : BOOLEAN] /\ n \in 0 .. MaxOriginals /\ k \in 0 .. MaxOriginals
  BY DEF SwapTypeOK
<1> USE DEF table, rebinds, history, Continue, Goes
<1>1. CASE Call
  <2>1. Phases'
    BY <1>1 DEF Call, Phases
  <2>2. Rebinding' /\ Fallbacks' /\ Finding'
    BY <1>1 DEF Call, Rebinding, Fallbacks, Finding
  <2>3. ASSUME ~ overlapped' PROVE Alternate' /\ Originals'
    BY <1>1, <2>3 DEF Call, Alternate, Notifying, Originals
  <2>4. ASSUME ~ overlapped', ~ failed' PROVE Own' /\ Filling'
    BY <1>1, <2>4 DEF Call, Own, Filling
  <2>5. ASSUME ~ overlapped', ~ failed' PROVE Emptied'
    BY <1>1, <2>5 DEF Call, Emptied
  <2>6. ASSUME ~ overlapped', ~ failed' PROVE Recorded'
    <3>1. Rest = 0 /\ Rest' = 0
      BY <1>1 DEF Call, Rest
    <3> QED BY <1>1, <2>6, <3>1 DEF Call, Recorded
  <2>7. ASSUME ~ overlapped', ~ failed' PROVE Covered'
    BY <1>1, <2>7 DEF Call, Covered, Pending
  <2> QED BY <1>t, <2>1, <2>2, <2>3, <2>4, <2>5, <2>6, <2>7 DEF SwapInv
<1>2. CASE Unregister
  <2>1. Phases'
    BY <1>2 DEF Unregister, Phases
  <2>2. Rebinding' /\ Fallbacks' /\ Finding'
    BY <1>2 DEF Unregister, Rebinding, Fallbacks, Finding
  <2>3. ASSUME ~ overlapped' PROVE Alternate' /\ Originals'
    BY <1>2, <2>3 DEF Unregister, Alternate, Notifying, Originals
  <2>4. ASSUME ~ overlapped', ~ failed' PROVE Own' /\ Filling'
    BY <1>2, <2>4 DEF Unregister, Own, Filling
  <2>5. ASSUME ~ overlapped', ~ failed' PROVE Emptied'
    BY <1>2, <2>5 DEF Unregister, Emptied
  <2>6. ASSUME ~ overlapped', ~ failed' PROVE Recorded'
    BY <1>2, <2>6 DEF Unregister, Recorded, Rest
  <2>7. ASSUME ~ overlapped', ~ failed' PROVE Covered'
    BY <1>2, <2>7 DEF Unregister, Covered, Pending
  <2> QED BY <1>t, <2>1, <2>2, <2>3, <2>4, <2>5, <2>6, <2>7 DEF SwapInv
<1>3. CASE ClearHandler
  <2>1. Phases'
    BY <1>3 DEF ClearHandler, Phases
  <2>2. Rebinding' /\ Fallbacks' /\ Finding'
    BY <1>3 DEF ClearHandler, Rebinding, Fallbacks, Finding
  <2>3. ASSUME ~ overlapped' PROVE Alternate' /\ Originals'
    BY <1>3, <2>3 DEF ClearHandler, Alternate, Notifying, Originals
  <2>4. ASSUME ~ overlapped', ~ failed' PROVE Own' /\ Filling'
    BY <1>3, <2>4 DEF ClearHandler, Own, Filling
  <2>5. ASSUME ~ overlapped', ~ failed' PROVE Emptied'
    BY <1>3, <2>5 DEF ClearHandler, Emptied
  <2>6. ASSUME ~ overlapped', ~ failed' PROVE Recorded'
    BY <1>3, <2>6 DEF ClearHandler, Recorded, Rest
  <2>7. ASSUME ~ overlapped', ~ failed' PROVE Covered'
    BY <1>3, <2>7 DEF ClearHandler, Covered, Pending
  <2> QED BY <1>t, <2>1, <2>2, <2>3, <2>4, <2>5, <2>6, <2>7 DEF SwapInv
<1>4. CASE ReadCount
  <2>1. Phases'
    BY <1>4 DEF ReadCount, Phases
  <2>2. Rebinding' /\ Fallbacks' /\ Finding'
    BY <1>4 DEF ReadCount, Rebinding, Fallbacks, Finding
  <2>3. ASSUME ~ overlapped' PROVE Alternate' /\ Originals'
    BY <1>4, <2>3 DEF ReadCount, Alternate, Notifying, Originals
  <2>4. ASSUME ~ overlapped', ~ failed' PROVE Own' /\ Filling'
    BY <1>4, <2>4 DEF ReadCount, Own, Filling
  <2>5. ASSUME ~ overlapped', ~ failed' PROVE Emptied'
    BY <1>4, <2>5 DEF ReadCount, Emptied
  <2>6. ASSUME ~ overlapped', ~ failed' PROVE Recorded'
    BY <1>4, <2>6 DEF ReadCount, Recorded, Rest
  <2>7. ASSUME ~ overlapped', ~ failed' PROVE Covered'
    BY <1>4, <2>7 DEF ReadCount, Covered, Pending
  <2> QED BY <1>t, <2>1, <2>2, <2>3, <2>4, <2>5, <2>6, <2>7 DEF SwapInv
<1>5. CASE RestoreBinding
  <2>a. /\ k < n /\ k \in 0 .. MaxOriginals - 1 /\ call.at = "restore" /\ call'.at = "slot" /\ ~ handler
        /\ UNCHANGED <<loaded, handler, callback, originals, count, fallback, k, n, images, step, image, read, slot>>
        /\ UNCHANGED <<throw, overlapped, missed>>
        /\ \/ originals[k].function = NoImage /\ binding' = binding /\ failed' = failed
           \/ /\ binding' = [binding EXCEPT ![originals[k].image] = originals[k].function] /\ failed' = failed
              /\ originals[k].function # NoImage
           \/ binding' = binding /\ failed'
    BY <1>5, SwapAssumption DEF RestoreBinding, writeProtectedBinding, Phases
  <2>b. \A i \in Images : binding'[i] \in {binding[i], originals[k].function}
    BY <2>a
  <2>1. Phases'
    BY <1>5 DEF RestoreBinding, writeProtectedBinding, Phases
  <2>2. Rebinding' /\ Fallbacks' /\ Finding'
    BY <2>a, <2>b DEF Rebinding, Fallbacks, Finding
  <2>3. ASSUME ~ overlapped' PROVE Alternate' /\ Originals'
    <3>1. \A r \in Rebinders : step[r] # "read"
      BY <2>a, <2>3, Alone
    <3> QED BY <2>a, <2>3, <3>1 DEF Alternate, Notifying, Originals
  <2>4. ASSUME ~ overlapped', ~ failed' PROVE Own' /\ Filling'
    BY <2>a, <2>4 DEF Own, Filling
  <2>5. ASSUME ~ overlapped', ~ failed' PROVE Emptied'
    BY <1>5, <2>5 DEF RestoreBinding, writeProtectedBinding, Emptied
  <2>6. ASSUME ~ overlapped', ~ failed' PROVE Recorded'
    <3>1. Rest = k /\ Rest' = k + 1
      BY <2>a DEF Rest
    <3>2. originals[k].function # NoImage =>
            binding'[originals[k].image] # Decorator \/ originals[k].image \notin Images
      BY <2>a, <2>6 DEF Originals
    <3>3. ASSUME NEW i \in Images, binding'[i] = Decorator
          PROVE  \E j \in k + 1 .. count - 1 : originals[j] = [image |-> i, function |-> i]
      <4>1. originals[k].function # Decorator
        BY <2>a, <2>6 DEF Originals
      <4>2. binding[i] = Decorator
        BY <2>a, <2>b, <3>3, <4>1
      <4>3. PICK j \in k .. count - 1 : originals[j] = [image |-> i, function |-> i]
        BY <2>a, <2>6, <3>1, <4>2 DEF Recorded
      <4>4. j # k
        BY <2>a, <2>6, <3>2, <3>3, <4>3, SwapAssumption
      <4>5. j \in k + 1 .. count - 1
        BY <2>a, <4>4
      <4> QED BY <4>3, <4>5
    <3> QED BY <2>a, <3>1, <3>3 DEF Recorded
  <2>7. ASSUME ~ overlapped', ~ failed' PROVE Covered'
    BY <1>5, <2>7 DEF RestoreBinding, writeProtectedBinding, Covered, Pending
  <2> QED BY <1>t, <2>1, <2>2, <2>3, <2>4, <2>5, <2>6, <2>7 DEF SwapInv
<1>6. CASE ClearSlot
  <2>a. /\ k < n /\ k \in 0 .. MaxOriginals - 1 /\ call.at = "slot" /\ call'.at = "restore" /\ ~ handler
        /\ Slotted(k, [image |-> originals[k].image, function |-> NoImage]) /\ k' = k + 1
        /\ UNCHANGED <<binding, loaded, handler, callback, count, fallback, n, images, step, image, read, slot>>
        /\ UNCHANGED <<throw, overlapped, failed, missed>>
    <3>1. k < n /\ k \in 0 .. MaxOriginals - 1
      BY <1>6, SwapAssumption DEF ClearSlot, Phases
    <3>2. originals' = [originals EXCEPT ![k].function = NoImage] /\ NoImage \in Functions
      BY <1>6 DEF ClearSlot, Functions
    <3>3. Slotted(k, [image |-> originals[k].image, function |-> NoImage])
      BY <3>1, <3>2, SlotWritten
    <3> QED BY <1>6, <3>1, <3>3 DEF ClearSlot, Phases
  <2>1. Phases'
    BY <1>6 DEF ClearSlot, Phases
  <2>2. Rebinding' /\ Fallbacks' /\ Finding'
    BY <1>6 DEF ClearSlot, Rebinding, Fallbacks, Finding
  <2>3. ASSUME ~ overlapped' PROVE Alternate' /\ Originals'
    BY SMTT(30), <2>a, <2>3, SwapAssumption DEF Alternate, Notifying, Originals, Slotted
  <2>4. ASSUME ~ overlapped', ~ failed' PROVE Own' /\ Filling'
    <3>1. \A r \in Rebinders : step[r] \in {"idle", "notify"}
      BY <2>a, <2>4, Alone
    <3>2. Own'
      BY <2>a, <2>4 DEF Own, Slotted
    <3> QED BY <2>a, <3>1, <3>2 DEF Filling
  <2>5. ASSUME ~ overlapped', ~ failed' PROVE Emptied'
    <3>1. \A j \in count .. MaxOriginals - 1 : originals'[j].function = NoImage
      BY <2>a, <2>5 DEF Emptied, Slotted
    <3>2. n = count /\ \A j \in 0 .. k : originals'[j].function = NoImage
      <4>1. n = count /\ \A j \in 0 .. k - 1 : originals[j].function = NoImage
        BY <2>a, <2>5 DEF Emptied
      <4>2. ASSUME NEW j \in 0 .. k PROVE originals'[j].function = NoImage
        <5>1. j \in 0 .. MaxOriginals - 1 /\ (j = k \/ j \in 0 .. k - 1)
          BY <2>a, SwapAssumption
        <5> QED BY <2>a, <4>1, <5>1 DEF Slotted
      <4> QED BY <4>1, <4>2
    <3>3. k + 1 - 1 = k
      BY <2>a
    <3> QED BY <2>a, <3>1, <3>2, <3>3 DEF Emptied
  <2>6. ASSUME ~ overlapped', ~ failed' PROVE Recorded'
    <3>1. Rest = k + 1 /\ Rest' = k + 1
      BY <2>a DEF Rest
    <3>2. \A j \in k + 1 .. count - 1 : originals'[j] = originals[j]
      BY <2>a, SwapAssumption DEF Slotted
    <3> QED BY ZenonT(40), <2>a, <2>6, <3>1, <3>2 DEF Recorded
  <2>7. ASSUME ~ overlapped', ~ failed' PROVE Covered'
    BY <1>6, <2>7 DEF ClearSlot, Covered, Pending
  <2> QED BY <1>t, <2>1, <2>2, <2>3, <2>4, <2>5, <2>6, <2>7 DEF SwapInv
<1>7. CASE ResetCount
  <2>a. /\ k >= n /\ call.at = "restore" /\ call'.at \in {"store", "idle"} /\ ~ handler /\ count' = 0
        /\ UNCHANGED <<binding, loaded, handler, callback, originals, fallback, k, n, images, step, image, read, slot>>
        /\ UNCHANGED <<throw, overlapped, failed, missed>>
    BY <1>7 DEF ResetCount, Phases
  <2>1. Phases'
    BY <1>7 DEF ResetCount, Phases
  <2>2. Rebinding' /\ Fallbacks' /\ Finding'
    BY <1>7 DEF ResetCount, Rebinding, Fallbacks, Finding
  <2>3. ASSUME ~ overlapped' PROVE Alternate' /\ Originals'
    BY <1>7, <2>3 DEF ResetCount, Alternate, Notifying, Originals
  <2>4. ASSUME ~ overlapped', ~ failed' PROVE Own' /\ Filling'
    <3>1. \A r \in Rebinders : step[r] \in {"idle", "notify"}
      BY <2>a, <2>4, Alone
    <3> QED BY <2>a, <2>4, <3>1 DEF Own, Filling
  <2>5. ASSUME ~ overlapped', ~ failed' PROVE Emptied'
    BY <1>7, <2>5 DEF ResetCount, Emptied
  <2>6. ASSUME ~ overlapped', ~ failed' PROVE Recorded'
    <3>1. \A i \in Images : binding[i] # Decorator
      <4>1. Rest = k /\ n = count
        BY <2>a, <2>6 DEF Rest, Emptied
      <4>2. k .. count - 1 = {}
        BY <2>a, <4>1
      <4> QED BY <2>a, <2>6, <4>1, <4>2 DEF Recorded
    <3> QED BY <2>a, <3>1 DEF Recorded
  <2>7. ASSUME ~ overlapped', ~ failed' PROVE Covered'
    BY <2>a DEF Covered
  <2> QED BY <1>t, <2>1, <2>2, <2>3, <2>4, <2>5, <2>6, <2>7 DEF SwapInv
<1>8. CASE StoreHandler
  <2>1. Phases'
    BY <1>8 DEF StoreHandler, Phases
  <2>2. Rebinding' /\ Fallbacks' /\ Finding'
    BY <1>8 DEF StoreHandler, Rebinding, Fallbacks, Finding
  <2>3. ASSUME ~ overlapped' PROVE Alternate' /\ Originals'
    BY <1>8, <2>3 DEF StoreHandler, Alternate, Notifying, Originals
  <2>4. ASSUME ~ overlapped', ~ failed' PROVE Own' /\ Filling'
    BY <1>8, <2>4 DEF StoreHandler, Own, Filling
  <2>5. ASSUME ~ overlapped', ~ failed' PROVE Emptied'
    BY <1>8, <2>5 DEF StoreHandler, Emptied
  <2>6. ASSUME ~ overlapped', ~ failed' PROVE Recorded'
    BY <1>8, <2>6 DEF StoreHandler, Recorded, Rest
  <2>7. ASSUME ~ overlapped', ~ failed' PROVE Covered'
    BY <1>8, <2>7 DEF StoreHandler, Covered, Pending
  <2> QED BY <1>t, <2>1, <2>2, <2>3, <2>4, <2>5, <2>6, <2>7 DEF SwapInv
<1>9. CASE GetImages
  <2>1. Phases'
    BY <1>9 DEF GetImages, Phases
  <2>2. Rebinding' /\ Fallbacks' /\ Finding'
    BY <1>9 DEF GetImages, Rebinding, Fallbacks, Finding
  <2>3. ASSUME ~ overlapped' PROVE Alternate' /\ Originals'
    BY <1>9, <2>3 DEF GetImages, Alternate, Notifying, Originals
  <2>4. ASSUME ~ overlapped', ~ failed' PROVE Own' /\ Filling'
    BY <1>9, <2>4 DEF GetImages, Own, Filling
  <2>5. ASSUME ~ overlapped', ~ failed' PROVE Emptied'
    BY <1>9, <2>5 DEF GetImages, Emptied
  <2>6. ASSUME ~ overlapped', ~ failed' PROVE Recorded'
    BY <1>9, <2>6 DEF GetImages, Recorded, Rest
  <2>7. ASSUME ~ overlapped', ~ failed' PROVE Covered'
    BY <1>9, <2>7 DEF GetImages, Covered, Pending
  <2> QED BY <1>t, <2>1, <2>2, <2>3, <2>4, <2>5, <2>6, <2>7 DEF SwapInv
<1>10. CASE ScanImage
  <2>a. PICK i \in images : /\ images' = images \ {i} /\ image' = [image EXCEPT !["client"] = i]
                            /\ step["client"] = "idle" /\ step' = [step EXCEPT !["client"] = "handler"]
                            /\ call.at = "scan"
                            /\ UNCHANGED <<binding, loaded, handler, table, call, read, throw, history>>
    BY <1>10 DEF ScanImage
  <2>b. "client" \in Rebinders /\ image'["client"] = i /\ step'["client"] = "handler"
    BY <2>a DEF Rebinders
  <2>1. Phases'
    BY <1>10 DEF ScanImage, Phases
  <2>2. Rebinding' /\ Fallbacks' /\ Finding'
    <3>1. i \in loaded
      BY <2>a DEF Rebinding
    <3> QED BY <2>a, <2>b, <3>1 DEF Rebinding, Fallbacks, Finding
  <2>3. ASSUME ~ overlapped' PROVE Alternate' /\ Originals'
    BY <1>10, <2>3 DEF ScanImage, Alternate, Notifying, Originals
  <2>4. ASSUME ~ overlapped', ~ failed' PROVE Own' /\ Filling'
    BY <1>10, <2>4 DEF ScanImage, Own, Filling
  <2>5. ASSUME ~ overlapped', ~ failed' PROVE Emptied'
    BY <1>10, <2>5 DEF ScanImage, Emptied
  <2>6. ASSUME ~ overlapped', ~ failed' PROVE Recorded'
    BY <1>10, <2>6 DEF ScanImage, Recorded, Rest
  <2>7. ASSUME ~ overlapped', ~ failed' PROVE Covered'
    <3>1. \A j \in Images : Pending(j) => Pending(j)'
      BY <2>a, <2>b DEF Pending
    <3> QED BY <2>a, <2>7, <3>1 DEF Covered
  <2> QED BY <1>t, <2>1, <2>2, <2>3, <2>4, <2>5, <2>6, <2>7 DEF SwapInv
<1>11. CASE Register
  <2>1. Phases'
    BY <1>11 DEF Register, Phases
  <2>2. Rebinding' /\ Fallbacks' /\ Finding'
    BY <1>11 DEF Register, Rebinding, Fallbacks, Finding
  <2>3. ASSUME ~ overlapped' PROVE Alternate' /\ Originals'
    BY <1>11, <2>3 DEF Register, Alternate, Notifying, Originals
  <2>4. ASSUME ~ overlapped', ~ failed' PROVE Own' /\ Filling'
    BY <1>11, <2>4 DEF Register, Own, Filling
  <2>5. ASSUME ~ overlapped', ~ failed' PROVE Emptied'
    <3>1. handler /\ call'.at = "idle" /\ UNCHANGED <<handler, originals, count, failed, overlapped>>
      BY <1>11 DEF Register, Phases
    <3> QED BY <2>5, <3>1 DEF Emptied
  <2>6. ASSUME ~ overlapped', ~ failed' PROVE Recorded'
    BY <1>11, <2>6 DEF Register, Recorded, Rest
  <2>7. ASSUME ~ overlapped', ~ failed' PROVE Covered'
    BY <1>11, <2>7 DEF Register, Covered, Pending
  <2> QED BY <1>t, <2>1, <2>2, <2>3, <2>4, <2>5, <2>6, <2>7 DEF SwapInv
<1> QED BY <1>1, <1>2, <1>3, <1>4, <1>5, <1>6, <1>7, <1>8, <1>9, <1>10, <1>11 DEF Calling

-----------------------------------------------------------------------------
(***************************************************************************)
(* The loader                                                              *)
(***************************************************************************)
LEMMA LoadInv ==
  ASSUME SwapInv, Load \/ notifier PROVE SwapInv'
<1> SwapTypeOK /\ Phases /\ Rebinding /\ Fallbacks /\ Finding
  BY DEF SwapInv
<1> ~ overlapped => Alternate /\ Originals
  BY DEF SwapInv
<1> ~ overlapped /\ ~ failed => Own /\ Emptied /\ Filling /\ Recorded /\ Covered
  BY DEF SwapInv
<1>t. SwapTypeOK'
  BY LoadTypes
<1> /\ step \in [Rebinders -> Steps] /\ image \in [Rebinders -> Images \cup {NoImage}]
    /\ binding \in [Images -> Images \cup {Decorator}] /\ loaded \subseteq Images /\ count \in 0 .. MaxOriginals
    /\ call \in [at : Calls, swaps : BOOLEAN] /\ n \in 0 .. MaxOriginals /\ k \in 0 .. MaxOriginals
  BY DEF SwapTypeOK
<1> USE DEF table, client, history, Goes
<1>1. CASE Load
  <2>1. Phases'
    BY <1>1 DEF Load, Phases
  <2>2. Rebinding' /\ Fallbacks' /\ Finding'
    BY <1>1 DEF Load, Rebinding, Fallbacks, Finding
  <2>3. ASSUME ~ overlapped' PROVE Alternate' /\ Originals'
    BY <1>1, <2>3 DEF Load, Alternate, Notifying, Originals
  <2>4. ASSUME ~ overlapped', ~ failed' PROVE Own' /\ Filling'
    BY <1>1, <2>4 DEF Load, Own, Filling
  <2>5. ASSUME ~ overlapped', ~ failed' PROVE Emptied'
    BY <1>1, <2>5 DEF Load, Emptied
  <2>6. ASSUME ~ overlapped', ~ failed' PROVE Recorded'
    BY <1>1, <2>6 DEF Load, Recorded, Rest
  <2>7. ASSUME ~ overlapped', ~ failed' PROVE Covered'
    <3>1. PICK i \in Images \ loaded : loaded' = loaded \cup {i} /\ image' = [image EXCEPT !["loader"] = i]
      BY <1>1 DEF Load
    <3>2. /\ "loader" \in Rebinders /\ image'["loader"] = i /\ step["loader"] = "idle" /\ step'["loader"] = "notify"
          /\ \A r \in Rebinders : r # "loader" => step'[r] = step[r] /\ image'[r] = image[r]
      BY <1>1, <3>1 DEF Load, Rebinders
    <3>3. Pending(i)' /\ \A j \in Images : Pending(j) => Pending(j)'
      BY <1>1, <3>2 DEF Load, Pending
    <3> QED BY <1>1, <2>7, <3>1, <3>3 DEF Load, Covered
  <2> QED BY <1>t, <2>1, <2>2, <2>3, <2>4, <2>5, <2>6, <2>7 DEF SwapInv
<1>2. CASE notifier
  <2>1. Phases'
    BY <1>2 DEF notifier, Phases
  <2>2. Rebinding' /\ Fallbacks' /\ Finding'
    BY <1>2 DEF notifier, Rebinding, Fallbacks, Finding
  <2>3. ASSUME ~ overlapped' PROVE Alternate' /\ Originals'
    <3>1. callback => handler /\ call.at \in {"idle", "unregister"}
      BY DEF Phases
    <3>2. step'["loader"] = IF callback THEN "handler" ELSE "idle"
      BY <1>2 DEF notifier, Rebinders
    <3>3. Alternate'
      BY <1>2, <2>3, <3>1, <3>2 DEF notifier, Alternate, Notifying
    <3>4. \A r \in Rebinders : step'[r] = "read" => step[r] = "read"
      BY <1>2 DEF notifier
    <3> QED BY <1>2, <2>3, <3>3, <3>4 DEF notifier, Originals
  <2>4. ASSUME ~ overlapped', ~ failed' PROVE Own' /\ Filling'
    BY <1>2, <2>4 DEF notifier, Own, Filling
  <2>5. ASSUME ~ overlapped', ~ failed' PROVE Emptied'
    BY <1>2, <2>5 DEF notifier, Emptied
  <2>6. ASSUME ~ overlapped', ~ failed' PROVE Recorded'
    BY <1>2, <2>6 DEF notifier, Recorded, Rest
  <2>7. ASSUME ~ overlapped', ~ failed' PROVE Covered'
    BY <1>2, <2>7 DEF notifier, Covered, Pending
  <2> QED BY <1>t, <2>1, <2>2, <2>3, <2>4, <2>5, <2>6, <2>7 DEF SwapInv
<1> QED BY <1>1, <1>2

LEMMA SwapInvNext == SwapInv /\ [SwapNext]_swapVars => SwapInv'
<1> SUFFICES ASSUME SwapInv, [SwapNext]_swapVars PROVE SwapInv'
  OBVIOUS
<1>1. ASSUME NEW r \in Rebinders, Rebind(r) PROVE SwapInv'
  BY <1>1, RebindInv
<1>2. CASE Calling
  BY <1>2, CallInv
<1>3. CASE Load \/ notifier
  BY <1>3, LoadInv
<1>4. CASE Throws
  BY <1>4, ThrowInv
<1>5. CASE UNCHANGED swapVars
  <2>1. SwapTypeOK' /\ Phases' /\ Rebinding' /\ Fallbacks' /\ Finding'
    BY <1>5 DEF SwapInv, SwapTypeOK, Phases, Rebinding, Fallbacks, Finding, swapVars, table, client,
       rebinds, history
  <2>2. ~ overlapped' => Alternate' /\ Originals'
    BY <1>5 DEF SwapInv, Alternate, Notifying, Originals, swapVars, table, client, rebinds, history
  <2>3. ASSUME ~ overlapped', ~ failed' PROVE Own' /\ Emptied' /\ Filling' /\ Recorded' /\ Covered'
    BY <1>5, <2>3 DEF SwapInv, Own, Emptied, Filling, Recorded, Rest, Covered, Pending,
                         swapVars, table, client, rebinds, history
  <2> QED BY <2>1, <2>2, <2>3 DEF SwapInv
<1> QED BY <1>1, <1>2, <1>3, <1>4, <1>5 DEF SwapNext, Calling

-----------------------------------------------------------------------------
LEMMA SwapInvReaches == SwapInv => ThrowReaches
BY DEF SwapInv, Finding, Originals, ThrowReaches

LEMMA SwapInvExact == SwapInv => SwapExact
<1> SUFFICES ASSUME SwapInv, Quiet, ~ failed, ~ overlapped
             PROVE  IF handler
                    THEN \A i \in loaded :
                           \/ /\ binding[i] = Decorator
                              /\ \E j \in 0 .. count - 1 : originals[j] = [image |-> i, function |-> i]
                           \/ binding[i] = i /\ (count = MaxOriginals \/ i \in missed)
                    ELSE \A i \in Images : binding[i] = i
  BY DEF SwapExact
<1>1. Own /\ Emptied /\ Recorded /\ Covered /\ Rest = 0 /\ loaded \subseteq Images
  BY DEF SwapInv, SwapTypeOK, Quiet, Rest
<1>2. ASSUME NEW i \in Images, binding[i] = Decorator
      PROVE  \E j \in 0 .. count - 1 : originals[j] = [image |-> i, function |-> i]
  BY <1>1, <1>2 DEF Recorded
<1>3. CASE handler
  <2>1. ASSUME NEW i \in loaded PROVE binding[i] = Decorator \/ count = MaxOriginals \/ i \in missed
    BY <1>1, <1>3 DEF Covered, Pending, Quiet
  <2>2. ASSUME NEW i \in loaded PROVE i \in Images /\ binding[i] \in {i, Decorator}
    BY <1>1 DEF Own
  <2> QED BY <1>2, <1>3, <2>1, <2>2
<1>4. CASE ~ handler
  <2>1. count = 0
    BY <1>1, <1>4 DEF Emptied, Quiet
  <2>2. ASSUME NEW i \in Images PROVE binding[i] # Decorator
    BY <1>2, <2>1
  <2> QED BY <1>1, <1>4, <2>2 DEF Own
<1> QED BY <1>3, <1>4

\* A thread that throws through the decorator reaches an original __cxa_throw,
\* whatever is rebound, put back or loaded around it, a refusing mprotect() and
\* a full table included; and unless mprotect() has refused, or a callback has
\* outlived its reset, a swap leaves every image decorated and its original in
\* the table, but for those the code names, and a reset leaves none.
THEOREM SwapAlwaysSound == SwapSpec => []SwapSound
<1>1. SwapInv => SwapSound
  BY SwapInvReaches, SwapInvExact DEF SwapSound
<1> QED BY <1>1, SwapInvInit, SwapInvNext, PTL DEF SwapSpec

-----------------------------------------------------------------------------
(***************************************************************************)
(* The traces of C++ exceptions, for any number of threads and exceptions  *)
(***************************************************************************)
\* A report ends the process.
Reported == report # Nothing => cppEnded

\* The thread inside the handler has an exception that is no NSException.
Unhandled == \A t \in terminating : t \in CppThreads /\ flying[t] # <<>> /\ Last(flying[t]) \notin objc

\* The thread that has enabled the monitor takes traces, but for the time it
\* is in the handler; a thread that never set it takes none.
Takers ==
  /\ enabler # Nothing => cppEnabled /\ cppState = "Installed" /\ (capture[enabler] \/ enabler \in terminating)
  /\ \A t \in CppThreads \ callers : ~ cppEnded => stackCursor[t] = Unset /\ ~ capture[t]

\* The cursor has the trace of the thread's last throw if that was to be taken.
Traced ==
  /\ covered \subseteq thrown /\ (covered # {} => cppState = "Installed")
  /\ \A t \in CppThreads : latest[t] \in thrown \cup {Nothing}
  /\ \A t \in CppThreads : latest[t] \in covered \ objc => stackCursor[t] = latest[t]

CppInv == CppTypeOK /\ Reported /\ Unhandled /\ Takers /\ Traced /\ TraceExact

LEMMA CppInvInit == ASSUME CppInit PROVE CppInv
<1> USE CppAssumption DEF Unset, Empty, Here, cppProgram, switches, swap, traces, flight, outcome, setters,
  throws
<1>1. CppTypeOK
  <2>1. flying \in [CppThreads -> Seq(Exceptions)]
    <3>1. << >> \in Seq(Exceptions)
      OBVIOUS
    <3> QED BY <3>1 DEF CppInit
  <2> QED BY <2>1 DEF CppInit, CppTypeOK, Traces
<1>2. Reported
  BY DEF CppInit, Reported
<1>3. Unhandled
  BY DEF CppInit, CppTypeOK, Unhandled
<1>4. Takers
  BY DEF CppInit, CppTypeOK, Takers, cppIsEnabled, Reported
<1>5. Traced
  BY DEF CppInit, CppTypeOK, Traces, Takers, Unhandled, Traced, Reported
<1>6. TraceExact
  BY DEF CppInit, CppTypeOK, TraceExact, Reported
<1> QED BY <1>1, <1>2, <1>3, <1>4, <1>5, <1>6 DEF CppInv

LEMMA CppInvNext == ASSUME CppInv, [CppNext]_cppVars PROVE CppInv'
<1> USE CppAssumption DEF Unset, Empty, Here, cppProgram, switches, swap, traces, flight, outcome, setters,
  throws
<1>1. ASSUME NEW t \in CppThreads, NEW e \in BOOLEAN, cppSetEnabled(t, e) PROVE CppInv'
  <2>1. CppTypeOK'
    BY <1>1 DEF CppInv, CppTypeOK, Traces, cppSetEnabled, Unhindered
  <2>2. Reported'
    BY <1>1 DEF CppInv, Reported, cppSetEnabled, Unhindered
  <2>3. Unhandled'
    BY <1>1 DEF CppInv, CppTypeOK, Unhandled, cppSetEnabled, Unhindered
  <2>4. Takers'
    BY <1>1 DEF CppInv, CppTypeOK, Takers, cppIsEnabled, Reported, cppSetEnabled, Unhindered
  <2>5. Traced'
    BY <1>1 DEF CppInv, CppTypeOK, Traces, Takers, Unhandled, Traced, Reported, cppSetEnabled, Unhindered
  <2>6. TraceExact'
    BY <1>1 DEF CppInv, CppTypeOK, TraceExact, Reported, cppSetEnabled, Unhindered
  <2> QED BY <2>1, <2>2, <2>3, <2>4, <2>5, <2>6 DEF CppInv
<1>2. CASE enableSwap
  <2>1. CppTypeOK'
    BY <1>2 DEF CppInv, CppTypeOK, Traces, enableSwap
  <2>2. Reported'
    BY <1>2 DEF CppInv, Reported, enableSwap
  <2>3. Unhandled'
    BY <1>2 DEF CppInv, CppTypeOK, Unhandled, enableSwap
  <2>4. Takers'
    BY <1>2 DEF CppInv, CppTypeOK, Takers, cppIsEnabled, Reported, enableSwap
  <2>5. Traced'
    BY <1>2 DEF CppInv, CppTypeOK, Traces, Takers, Unhandled, Traced, Reported, enableSwap
  <2>6. TraceExact'
    BY <1>2 DEF CppInv, CppTypeOK, TraceExact, Reported, enableSwap
  <2> QED BY <2>1, <2>2, <2>3, <2>4, <2>5, <2>6 DEF CppInv
<1>3. CASE SwapImages
  <2>1. CppTypeOK'
    BY <1>3 DEF CppInv, CppTypeOK, Traces, SwapImages
  <2>2. Reported'
    BY <1>3 DEF CppInv, Reported, SwapImages
  <2>3. Unhandled'
    BY <1>3 DEF CppInv, CppTypeOK, Unhandled, SwapImages
  <2>4. Takers'
    BY <1>3 DEF CppInv, CppTypeOK, Takers, cppIsEnabled, Reported, SwapImages
  <2>5. Traced'
    BY <1>3 DEF CppInv, CppTypeOK, Traces, Takers, Unhandled, Traced, Reported, SwapImages
  <2>6. TraceExact'
    BY <1>3 DEF CppInv, CppTypeOK, TraceExact, Reported, SwapImages
  <2> QED BY <2>1, <2>2, <2>3, <2>4, <2>5, <2>6 DEF CppInv
<1>4. ASSUME NEW t \in CppThreads, NEW e \in Exceptions, ThrowException(t, e) PROVE CppInv'
  <2>1. CppTypeOK'
    <3>1. flying' \in [CppThreads -> Seq(Exceptions)]
      <4>1. Append(flying[t], e) \in Seq(Exceptions)
        BY DEF CppInv, CppTypeOK
      <4> QED BY <1>4, <4>1 DEF CppInv, CppTypeOK, ThrowException
    <3>2. stackCursor' \in [CppThreads -> Traces]
      BY ZenonT(40), <1>4 DEF CppInv, CppTypeOK, Traces, ThrowException, captureStackTrace
    <3> QED BY <1>4, <3>1, <3>2 DEF CppInv, CppTypeOK, ThrowException
  <2>2. Reported'
    BY <1>4 DEF CppInv, Reported, ThrowException, Unhindered, captureStackTrace
  <2>3. Unhandled'
    BY <1>4 DEF CppInv, CppTypeOK, Unhandled, ThrowException, Unhindered, captureStackTrace
  <2>4. Takers'
    BY <1>4 DEF CppInv, CppTypeOK, Takers, cppIsEnabled, Reported, ThrowException, Unhindered,
       captureStackTrace
  <2>5. Traced'
    BY <1>4 DEF CppInv, CppTypeOK, Traces, Takers, Unhandled, Traced, Reported, ThrowException, Unhindered,
       captureStackTrace
  <2>6. TraceExact'
    BY <1>4 DEF CppInv, CppTypeOK, TraceExact, Reported, ThrowException, Unhindered, captureStackTrace
  <2> QED BY <2>1, <2>2, <2>3, <2>4, <2>5, <2>6 DEF CppInv
<1>5. ASSUME NEW t \in CppThreads, NEW e \in Exceptions, Rethrow(t, e) PROVE CppInv'
  <2>1. CppTypeOK'
    BY <1>5 DEF CppInv, CppTypeOK, Traces, Rethrow, Unhindered
  <2>2. Reported'
    BY <1>5 DEF CppInv, Reported, Rethrow, Unhindered
  <2>3. Unhandled'
    BY <1>5 DEF CppInv, CppTypeOK, Unhandled, Rethrow, Unhindered
  <2>4. Takers'
    BY <1>5 DEF CppInv, CppTypeOK, Takers, cppIsEnabled, Reported, Rethrow, Unhindered
  <2>5. Traced'
    BY <1>5 DEF CppInv, CppTypeOK, Traces, Takers, Unhandled, Traced, Reported, Rethrow, Unhindered
  <2>6. TraceExact'
    BY <1>5 DEF CppInv, CppTypeOK, TraceExact, Reported, Rethrow, Unhindered
  <2> QED BY <2>1, <2>2, <2>3, <2>4, <2>5, <2>6 DEF CppInv
<1>6. ASSUME NEW t \in CppThreads, Catch(t) PROVE CppInv'
  <2>1. CppTypeOK'
    <3>1. flying[t] \in Seq(Exceptions) /\ flying[t] # << >>
      BY <1>6 DEF CppInv, CppTypeOK, Catch
    <3>2. Last(flying[t]) \in Exceptions /\ Front(flying[t]) \in Seq(Exceptions)
      BY <3>1 DEF Last, Front
    <3> QED BY <1>6, <3>2 DEF CppInv, CppTypeOK, Catch
  <2>2. Reported'
    BY <1>6 DEF CppInv, Reported, Catch, Unhindered
  <2>3. Unhandled'
    BY <1>6 DEF CppInv, CppTypeOK, Unhandled, Catch, Unhindered
  <2>4. Takers'
    BY <1>6 DEF CppInv, CppTypeOK, Takers, cppIsEnabled, Reported, Catch, Unhindered
  <2>5. Traced'
    BY <1>6 DEF CppInv, CppTypeOK, Traces, Takers, Unhandled, Traced, Reported, Catch, Unhindered
  <2>6. TraceExact'
    BY <1>6 DEF CppInv, CppTypeOK, TraceExact, Reported, Catch, Unhindered
  <2> QED BY <2>1, <2>2, <2>3, <2>4, <2>5, <2>6 DEF CppInv
<1>7. ASSUME NEW t \in CppThreads, Terminate(t) PROVE CppInv'
  <2>1. CppTypeOK'
    <3>1. /\ terminating' \subseteq CppThreads /\ capture' \in [CppThreads -> BOOLEAN] /\ cppEnded' \in BOOLEAN
      BY <1>7 DEF CppInv, CppTypeOK, Terminate, Unhindered, cppIsEnabled
    <3>2. UNCHANGED <<cppProgram, switches, swap, stackCursor, flight, report, setters, throws>>
      BY <1>7 DEF Terminate
    <3> QED BY <3>1, <3>2 DEF CppInv, CppTypeOK, Traces, cppProgram, switches, swap, flight, setters, throws
  <2>2. Reported'
    BY <1>7 DEF CppInv, Reported, Terminate, Unhindered, cppIsEnabled
  <2>3. Unhandled'
    BY <1>7 DEF CppInv, CppTypeOK, Unhandled, Terminate, Unhindered, cppIsEnabled
  <2>4. Takers'
    BY <1>7 DEF CppInv, CppTypeOK, Takers, cppIsEnabled, Reported, Terminate, Unhindered, cppIsEnabled
  <2>5. Traced'
    BY <1>7 DEF CppInv, CppTypeOK, Traces, Takers, Unhandled, Traced, Reported, Terminate, Unhindered,
       cppIsEnabled
  <2>6. TraceExact'
    BY <1>7 DEF CppInv, CppTypeOK, TraceExact, Reported, Terminate, Unhindered, cppIsEnabled
  <2> QED BY <2>1, <2>2, <2>3, <2>4, <2>5, <2>6 DEF CppInv
<1>8. ASSUME NEW t \in CppThreads, ReportException(t) PROVE CppInv'
  <2>1. CppTypeOK'
    <3>1. flying[t] \in Seq(Exceptions) /\ flying[t] # << >>
      BY <1>8 DEF CppInv, CppTypeOK, Unhandled, ReportException
    <3>2. Last(flying[t]) \in Exceptions
      BY <3>1 DEF Last
    <3>3. stackCursor' \in [CppThreads -> Traces]
      BY <1>8, <3>2 DEF CppInv, CppTypeOK, Traces, ReportException
    <3> QED BY <1>8, <3>2, <3>3 DEF CppInv, CppTypeOK, ReportException, cppIsEnabled
  <2>2. Reported'
    BY <1>8 DEF CppInv, Reported, ReportException, cppIsEnabled
  <2>3. Unhandled'
    BY <1>8 DEF CppInv, CppTypeOK, Unhandled, ReportException, cppIsEnabled
  <2>4. Takers'
    BY <1>8 DEF CppInv, CppTypeOK, Takers, cppIsEnabled, Reported, ReportException, cppIsEnabled
  <2>5. Traced'
    BY <1>8 DEF CppInv, CppTypeOK, Traces, Takers, Unhandled, Traced, Reported, ReportException, cppIsEnabled
  <2>6. TraceExact'
    BY <1>8 DEF CppInv, CppTypeOK, TraceExact, Reported, Unhandled, Takers, Traced, Traces,
       ReportException, cppIsEnabled
  <2> QED BY <2>1, <2>2, <2>3, <2>4, <2>5, <2>6 DEF CppInv
<1>9. CASE UNCHANGED cppVars
  <2>1. CppTypeOK'
    BY <1>9 DEF CppInv, CppTypeOK, Traces, cppVars
  <2>2. Reported'
    BY <1>9 DEF CppInv, Reported, cppVars
  <2>3. Unhandled'
    BY <1>9 DEF CppInv, CppTypeOK, Unhandled, cppVars
  <2>4. Takers'
    BY <1>9 DEF CppInv, CppTypeOK, Takers, cppIsEnabled, Reported, cppVars
  <2>5. Traced'
    BY <1>9 DEF CppInv, CppTypeOK, Traces, Takers, Unhandled, Traced, Reported, cppVars
  <2>6. TraceExact'
    BY <1>9 DEF CppInv, CppTypeOK, TraceExact, Reported, cppVars
  <2> QED BY <2>1, <2>2, <2>3, <2>4, <2>5, <2>6 DEF CppInv
<1> QED BY <1>1, <1>2, <1>3, <1>4, <1>5, <1>6, <1>7, <1>8, <1>9 DEF CppNext, CppEnded

\* The trace reported with an exception is that of its throw, under the
\* conditions of TraceExact: for any number of threads and of exceptions.
THEOREM TracesExact == CppSpec => []TraceExact
<1>1. CppInv => TraceExact
  BY DEF CppInv
<1> QED BY <1>1, CppInvInit, CppInvNext, PTL DEF CppSpec

-----------------------------------------------------------------------------
(***************************************************************************)
(* Zombies: any number of threads deallocate objects whose addresses share *)
(* slots and are used again, field by field.                               *)
(***************************************************************************)
\* A thread that deallocates has an object, which nobody else has; objects are
\* numbered as they are made.
Owning ==
  /\ \A t \in Deallocators : IF freeing[t] = "idle" THEN object[t] = Nobody ELSE object[t] # Nobody /\ heap[object[t]] # Nobody
  /\ \A t, u \in Deallocators : object[t] = object[u] /\ object[t] # Nobody => t = u
  /\ \A a \in Addresses : heap[a] # Nobody => heap[a] <= made
  /\ \A a \in Addresses : deallocated[a] # Nobody => deallocated[a] <= made

\* Nothing is recorded before the implementations of dealloc are replaced.
Replacing ==
  /\ ~ zombieEnabled => zombieInstall = "none"
  /\ ~ Replaced =>
       /\ \A s \in CacheSlots : cache[s].object = Nobody
       /\ \A t \in Deallocators : freeing[t] \in {"idle", "free"}

\* A slot is written by one thread at a time, or else is torn.
Written(a) ==
  \/ \E t \in Deallocators : object[t] = a /\ cache[hashIndex[a]].name = class[Of(t)]
  \/ /\ \A t \in Deallocators : object[t] # a
     /\ deallocated[a] # Nobody /\ cache[hashIndex[a]].name = class[deallocated[a]]

Whole ==
  \A s \in CacheSlots \ torn :
    /\ \A t \in Writing(s) : Writing(s) = {t} /\ cache[s].object = object[t]
    /\ Writing(s) = {} => \A a \in Addresses : hashIndex[a] = s /\ cache[s].object = a => Written(a)

\* What is kept of the last exception is written by one thread at a time, or
\* else is mixed.
Kept(f) == last[f] = newest \/ <<newest, f>> \in lacking

Unmixed ==
  /\ last.address = newest
  /\ ~ mixed =>
       /\ \A t, u \in Storing : t = u
       /\ \A t \in Storing : Of(t) = newest /\ (freeing[t] = "reason" => Kept("name"))
       /\ Storing = {} => Kept("name") /\ Kept("reason")

ZombieInv == ZombieTypeOK /\ Owning /\ Replacing /\ Whole /\ Unmixed

LEMMA ZombieInvInit == ASSUME ZombieInit PROVE ZombieInv
<1> USE ZombieAssumption DEF memory, zombieHistory
<1>1. ZombieTypeOK
  <2>1. zombieEnabled \in BOOLEAN /\ zombieInstall \in {"none", "failed", "cache", "NSObject", "done"}
    BY DEF ZombieInit, NoException, Objects, Classes
  <2>2. cache \in [CacheSlots -> [object : Addresses \cup {Nobody}, name : Classes \cup {Nobody}]]
    BY DEF ZombieInit, NoException, Objects, Classes
  <2>3. last \in [address : Objects \cup {Nobody}, name : Objects \cup {Nobody}, reason : Objects \cup {Nobody}]
    BY DEF ZombieInit, NoException, Objects, Classes
  <2>4. heap \in [Addresses -> Objects \cup {Nobody}] /\ class \in [Objects -> Classes] /\ made \in 0 .. MaxObjects
    BY DEF ZombieInit, NoException, Objects, Classes
  <2>5. freeing \in [Deallocators -> {"idle", "class", "address", "name", "reason", "free"}]
    BY DEF ZombieInit, NoException, Objects, Classes
  <2>6. object \in [Deallocators -> Addresses \cup {Nobody}]
    BY DEF ZombieInit, NoException, Objects, Classes
  <2>7. deallocated \in [Addresses -> Objects \cup {Nobody}] /\ newest \in Objects \cup {Nobody}
    BY DEF ZombieInit, NoException, Objects, Classes
  <2>8. lacking \subseteq Objects \X {"name", "reason"}
    BY DEF ZombieInit, NoException, Objects, Classes
  <2>9. torn \subseteq CacheSlots /\ mixed \in BOOLEAN
    BY DEF ZombieInit, NoException, Objects, Classes
  <2> QED BY <2>1, <2>2, <2>3, <2>4, <2>5, <2>6, <2>7, <2>8, <2>9 DEF ZombieTypeOK
<1>2. Owning
  BY DEF ZombieInit, NoException, ZombieTypeOK, CacheSlots, Objects, Classes, Owning, Of
<1>3. Replacing
  BY DEF ZombieInit, NoException, ZombieTypeOK, Replacing, Replaced
<1>4. Whole
  BY DEF ZombieInit, NoException, ZombieTypeOK, CacheSlots, Objects, Classes, Owning, Replacing, Replaced,
     Whole, Written, Writing, Of
<1>5. Unmixed
  BY DEF ZombieInit, NoException, ZombieTypeOK, CacheSlots, Objects, Classes, Owning, Unmixed, Kept,
     Storing, Of
<1> QED BY <1>1, <1>2, <1>3, <1>4, <1>5 DEF ZombieInv

\* What a thread is about is in the heap.
LEMMA Held ==
  ASSUME ZombieTypeOK, Owning, NEW t \in Deallocators, freeing[t] # "idle"
  PROVE  object[t] \in Addresses /\ Of(t) \in Objects /\ hashIndex[object[t]] \in CacheSlots
BY DEF ZombieTypeOK, Owning, Of, CacheSlots

\* What is kept of the last exception, if nobody is writing it now
LEMMA UnmixedKept ==
  ASSUME Unmixed, Storing' = Storing, UNCHANGED <<last, newest, lacking, mixed>>,
         \A u \in Storing : Of(u)' = Of(u) /\ freeing'[u] = freeing[u]
  PROVE  Unmixed'
BY DEF Unmixed, Kept

LEMMA ZombieInvNext == ASSUME ZombieInv, [ZombieNext]_zombieVars PROVE ZombieInv'
<1> USE ZombieAssumption DEF memory, zombieHistory
<1>1. ASSUME NEW e \in BOOLEAN, zombieSetEnabled(e) PROVE ZombieInv'
  <2>1. ZombieTypeOK'
    BY <1>1 DEF ZombieInv, ZombieTypeOK, CacheSlots, Objects, Classes, Owning, zombieSetEnabled
  <2>2. Owning'
    BY <1>1 DEF ZombieInv, ZombieTypeOK, CacheSlots, Objects, Classes, Owning, Of, zombieSetEnabled
  <2>3. Replacing'
    BY <1>1 DEF ZombieInv, ZombieTypeOK, Replacing, Replaced, zombieSetEnabled
  <2>4. Whole'
    BY <1>1 DEF ZombieInv, ZombieTypeOK, CacheSlots, Objects, Classes, Owning, Replacing, Replaced, Whole,
       Written, Writing, Of, zombieSetEnabled
  <2>5. Unmixed'
    BY <1>1 DEF ZombieInv, ZombieTypeOK, CacheSlots, Objects, Classes, Owning, Unmixed, Kept, Storing, Of,
       zombieSetEnabled
  <2> QED BY <2>1, <2>2, <2>3, <2>4, <2>5 DEF ZombieInv
<1>2. CASE installDealloc
  <2>1. ZombieTypeOK'
    BY <1>2 DEF ZombieInv, ZombieTypeOK, CacheSlots, Objects, Classes, Owning, installDealloc
  <2>2. Owning'
    BY <1>2 DEF ZombieInv, ZombieTypeOK, CacheSlots, Objects, Classes, Owning, Of, installDealloc
  <2>3. Replacing'
    BY <1>2 DEF ZombieInv, ZombieTypeOK, Replacing, Replaced, installDealloc
  <2>4. Whole'
    BY <1>2 DEF ZombieInv, ZombieTypeOK, CacheSlots, Objects, Classes, Owning, Replacing, Replaced, Whole,
       Written, Writing, Of, installDealloc
  <2>5. Unmixed'
    BY <1>2 DEF ZombieInv, ZombieTypeOK, CacheSlots, Objects, Classes, Owning, Unmixed, Kept, Storing, Of,
       installDealloc
  <2> QED BY <2>1, <2>2, <2>3, <2>4, <2>5 DEF ZombieInv
<1>3. ASSUME NEW a \in Addresses, NEW c \in Classes, Allocate(a, c) PROVE ZombieInv'
  <2>1. ZombieTypeOK'
    BY <1>3 DEF ZombieInv, ZombieTypeOK, CacheSlots, Objects, Classes, Owning, Allocate
  <2>2. Owning'
    BY <1>3 DEF ZombieInv, ZombieTypeOK, CacheSlots, Objects, Classes, Owning, Of, Allocate
  <2>3. Replacing'
    BY <1>3 DEF ZombieInv, ZombieTypeOK, Replacing, Replaced, Allocate
  <2>4. Whole'
    <3> USE DEF ZombieInv, ZombieTypeOK, Allocate
    <3>1. \A u \in Deallocators : freeing[u] # "idle" => Of(u)' = Of(u) /\ class'[Of(u)] = class[Of(u)]
      BY <1>3 DEF Owning, Of, Objects
    <3>2. \A b \in Addresses : deallocated[b] # Nobody => class'[deallocated[b]] = class[deallocated[b]]
      BY <1>3 DEF Owning, Objects
    <3>3. ASSUME NEW b \in Addresses, Written(b) PROVE Written(b)'
      <4>1. \A u \in Deallocators : object[u] = b => freeing[u] # "idle"
        BY DEF Owning
      <4>2. cache' = cache /\ object' = object /\ deallocated' = deallocated
        BY <1>3
      <4> QED BY <3>1, <3>2, <3>3, <4>1, <4>2 DEF Written
    <3>4. \A s \in CacheSlots : Writing(s)' = Writing(s)
      BY <1>3 DEF Writing
    <3>5. cache' = cache /\ object' = object /\ torn' = torn
      BY <1>3
    <3> QED BY <3>3, <3>4, <3>5 DEF Whole
  <2>5. Unmixed'
    BY ZenonT(40), <1>3
    DEF ZombieInv, ZombieTypeOK, CacheSlots, Objects, Classes, Owning, Unmixed, Kept, Storing, Of,
        Allocate
  <2> QED BY <2>1, <2>2, <2>3, <2>4, <2>5 DEF ZombieInv
<1>4. ASSUME NEW t \in Deallocators, NEW a \in Addresses, Dealloc(t, a) PROVE ZombieInv'
  <2>1. ZombieTypeOK'
    <3>0. hashIndex[a] \in CacheSlots
      BY DEF CacheSlots
    <3>1. (zombieEnabled \in BOOLEAN /\ zombieInstall \in {"none", "failed", "cache", "NSObject", "done"})'
      BY <1>4, <3>0 DEF ZombieInv, ZombieTypeOK, Dealloc, Continues
    <3>2. (cache \in [CacheSlots -> [object : Addresses \cup {Nobody}, name : Classes \cup {Nobody}]])'
      BY <1>4, <3>0 DEF ZombieInv, ZombieTypeOK, Dealloc, Continues
    <3>3. (last \in [address : Objects \cup {Nobody}, name : Objects \cup {Nobody}, reason : Objects \cup {Nobody}])'
      BY <1>4, <3>0 DEF ZombieInv, ZombieTypeOK, Dealloc, Continues
    <3>4. (heap \in [Addresses -> Objects \cup {Nobody}] /\ class \in [Objects -> Classes] /\ made \in 0 .. MaxObjects)'
      BY <1>4, <3>0 DEF ZombieInv, ZombieTypeOK, Dealloc, Continues
    <3>5. (freeing \in [Deallocators -> {"idle", "class", "address", "name", "reason", "free"}])'
      BY <1>4, <3>0 DEF ZombieInv, ZombieTypeOK, Dealloc, Continues
    <3>6. (object \in [Deallocators -> Addresses \cup {Nobody}])'
      BY <1>4, <3>0 DEF ZombieInv, ZombieTypeOK, Dealloc, Continues
    <3>7. (deallocated \in [Addresses -> Objects \cup {Nobody}] /\ newest \in Objects \cup {Nobody})'
      BY <1>4, <3>0 DEF ZombieInv, ZombieTypeOK, Dealloc, Continues
    <3>8. (lacking \subseteq Objects \X {"name", "reason"})'
      BY <1>4, <3>0 DEF ZombieInv, ZombieTypeOK, Dealloc, Continues
    <3>9. (torn \subseteq CacheSlots /\ mixed \in BOOLEAN)'
      BY <1>4, <3>0 DEF ZombieInv, ZombieTypeOK, Dealloc, Continues
    <3> QED BY <3>1, <3>2, <3>3, <3>4, <3>5, <3>6, <3>7, <3>8, <3>9 DEF ZombieTypeOK
  <2>2. Owning'
    BY <1>4 DEF ZombieInv, ZombieTypeOK, CacheSlots, Objects, Classes, Owning, Of, Dealloc, Continues,
       Replaced
  <2>3. Replacing'
    BY <1>4 DEF ZombieInv, ZombieTypeOK, Replacing, Replaced, Dealloc, Continues
  <2>4. Whole'
    <3>1. CASE ~ Replaced
      <4>1. \A s \in CacheSlots : Writing(s)' = {}
        BY <1>4, <3>1 DEF ZombieInv, ZombieTypeOK, Replacing, Dealloc, Continues, Writing
      <4>2. \A s \in CacheSlots : cache'[s].object = Nobody
        BY <1>4, <3>1 DEF ZombieInv, Replacing, Dealloc
      <4> QED BY <4>1, <4>2 DEF Whole
    <3>2. CASE Replaced
      <4> USE DEF ZombieInv, ZombieTypeOK, Owning
      <4>0. hashIndex[a] \in CacheSlots /\ freeing[t] = "idle" /\ object[t] = Nobody
        BY <1>4 DEF Dealloc, CacheSlots
      <4>1. /\ cache' = [cache EXCEPT ![hashIndex[a]].object = a]
            /\ torn' = IF Writing(hashIndex[a]) # {} THEN torn \cup {hashIndex[a]} ELSE torn \ {hashIndex[a]}
            /\ object' = [object EXCEPT ![t] = a] /\ freeing' = [freeing EXCEPT ![t] = "class"]
            /\ heap' = heap /\ class' = class /\ deallocated' = deallocated
        BY <1>4, <3>2 DEF Dealloc, Continues
      <4>2. ASSUME NEW s \in CacheSlots \ torn', s # hashIndex[a]
            PROVE  /\ \A u \in Writing(s)' : Writing(s)' = {u} /\ cache'[s].object = object'[u]
                   /\ Writing(s)' = {} => \A b \in Addresses : hashIndex[b] = s /\ cache'[s].object = b => Written(b)'
        <5>1. cache'[s] = cache[s] /\ s \notin torn
          BY <4>0, <4>1, <4>2
        <5>2. Writing(s)' = Writing(s) /\ t \notin Writing(s)
          BY <4>0, <4>1, <4>2 DEF Writing
        <5>3. ASSUME NEW b \in Addresses, hashIndex[b] = s, Written(b) PROVE Written(b)'
          BY <4>0, <4>1, <4>2, <5>1, <5>3 DEF Written, Of
        <5>4. \A u \in Writing(s) : object'[u] = object[u]
          BY <4>1, <5>2 DEF Writing
        <5> QED BY <5>1, <5>2, <5>3, <5>4 DEF Whole
      <4>3. ASSUME hashIndex[a] \notin torn'
            PROVE  Writing(hashIndex[a])' = {t} /\ cache'[hashIndex[a]].object = object'[t]
        <5>1. Writing(hashIndex[a]) = {}
          BY <4>0, <4>1, <4>3
        <5> QED BY <4>0, <4>1, <5>1 DEF Writing
      <4> QED BY ZenonT(40), <4>2, <4>3 DEF Whole
    <3> QED BY <3>1, <3>2
  <2>5. Unmixed'
    <3>1. freeing[t] = "idle" /\ freeing'[t] \in {"class", "free"} /\ UNCHANGED <<last, newest, lacking, mixed>>
      BY <1>4 DEF ZombieInv, ZombieTypeOK, Dealloc, Continues
    <3>2. \A u \in Deallocators \ {t} : Of(u)' = Of(u) /\ freeing'[u] = freeing[u]
      BY <1>4 DEF ZombieInv, ZombieTypeOK, Dealloc, Continues, Of
    <3>3. Storing' = Storing /\ t \notin Storing
      BY <3>1, <3>2 DEF Storing
    <3>4. Unmixed
      BY DEF ZombieInv
    <3>5. \A u \in Storing : u \in Deallocators \ {t}
      BY <3>3 DEF Storing
    <3> QED BY <3>1, <3>2, <3>3, <3>4, <3>5, UnmixedKept
  <2> QED BY <2>1, <2>2, <2>3, <2>4, <2>5 DEF ZombieInv
<1>5. ASSUME NEW t \in Deallocators, WriteClass(t) PROVE ZombieInv'
  <2>1. ZombieTypeOK'
    <3>0. freeing[t] # "idle" /\ object[t] \in Addresses /\ Of(t) \in Objects /\ hashIndex[object[t]] \in CacheSlots
      BY <1>5, Held DEF WriteClass, ZombieInv
    <3>1. (zombieEnabled \in BOOLEAN /\ zombieInstall \in {"none", "failed", "cache", "NSObject", "done"})'
      BY <1>5, <3>0 DEF ZombieInv, ZombieTypeOK, WriteClass, Continues
    <3>2. (cache \in [CacheSlots -> [object : Addresses \cup {Nobody}, name : Classes \cup {Nobody}]])'
      BY <1>5, <3>0 DEF ZombieInv, ZombieTypeOK, WriteClass, Continues
    <3>3. (last \in [address : Objects \cup {Nobody}, name : Objects \cup {Nobody}, reason : Objects \cup {Nobody}])'
      BY <1>5, <3>0 DEF ZombieInv, ZombieTypeOK, WriteClass, Continues
    <3>4. (heap \in [Addresses -> Objects \cup {Nobody}] /\ class \in [Objects -> Classes] /\ made \in 0 .. MaxObjects)'
      BY <1>5, <3>0 DEF ZombieInv, ZombieTypeOK, WriteClass, Continues
    <3>5. (freeing \in [Deallocators -> {"idle", "class", "address", "name", "reason", "free"}])'
      BY <1>5, <3>0 DEF ZombieInv, ZombieTypeOK, WriteClass, Continues
    <3>6. (object \in [Deallocators -> Addresses \cup {Nobody}])'
      BY <1>5, <3>0 DEF ZombieInv, ZombieTypeOK, WriteClass, Continues
    <3>7. (deallocated \in [Addresses -> Objects \cup {Nobody}] /\ newest \in Objects \cup {Nobody})'
      BY <1>5, <3>0 DEF ZombieInv, ZombieTypeOK, WriteClass, Continues
    <3>8. (lacking \subseteq Objects \X {"name", "reason"})'
      BY <1>5, <3>0 DEF ZombieInv, ZombieTypeOK, WriteClass, Continues
    <3>9. (torn \subseteq CacheSlots /\ mixed \in BOOLEAN)'
      BY <1>5, <3>0 DEF ZombieInv, ZombieTypeOK, WriteClass, Continues
    <3> QED BY <3>1, <3>2, <3>3, <3>4, <3>5, <3>6, <3>7, <3>8, <3>9 DEF ZombieTypeOK
  <2>2. Owning'
    BY <1>5 DEF ZombieInv, ZombieTypeOK, CacheSlots, Objects, Classes, Owning, Of, WriteClass, Continues
  <2>3. Replacing'
    BY <1>5 DEF ZombieInv, ZombieTypeOK, Replacing, Replaced, WriteClass, Continues
  <2>4. Whole'
    <3> USE DEF ZombieInv, ZombieTypeOK
    <3>0. object[t] \in Addresses /\ Of(t) \in Objects /\ hashIndex[object[t]] \in CacheSlots
      BY <1>5, Held DEF WriteClass
    <3>w. PICK w \in CacheSlots : w = hashIndex[object[t]]
      BY <3>0
    <3>1. /\ cache' = [cache EXCEPT ![w].name = class[Of(t)]]
          /\ torn' = IF Writing(w) # {t} THEN torn \cup {w} ELSE torn
          /\ freeing[t] = "class" /\ \E x \in {"address", "free"} : freeing' = [freeing EXCEPT ![t] = x]
          /\ object' = object /\ heap' = heap /\ class' = class /\ deallocated' = deallocated
      BY <1>5, <3>w DEF WriteClass, Continues
    <3>2. ASSUME NEW s \in CacheSlots \ torn', s # w
          PROVE  /\ \A u \in Writing(s)' : Writing(s)' = {u} /\ cache'[s].object = object'[u]
                 /\ Writing(s)' = {} => \A b \in Addresses : hashIndex[b] = s /\ cache'[s].object = b => Written(b)'
      <4>1. cache'[s] = cache[s] /\ s \notin torn
        BY <3>0, <3>1, <3>2
      <4>2. Writing(s)' = Writing(s)
        BY <3>w, <3>1, <3>2 DEF Writing
      <4>3. ASSUME NEW b \in Addresses, hashIndex[b] = s, Written(b) PROVE Written(b)'
        BY <3>1, <4>1, <4>3 DEF Written, Of
      <4> QED BY <3>1, <4>1, <4>2, <4>3 DEF Whole
    <3>3. ASSUME w \notin torn'
          PROVE  /\ Writing(w)' = {} /\ cache'[w].object = object[t]
                 /\ \A b \in Addresses : b = object[t] => Written(b)'
      <4>1. w \notin torn /\ Writing(w) = {t}
        BY <3>0, <3>1, <3>3
      <4>2. Writing(w)' = {}
        BY <3>w, <3>1, <4>1 DEF Writing
      <4>3. cache[w].object = object[t]
        BY <3>w, <4>1 DEF Whole
      <4>4. cache'[w].name = class[Of(t)] /\ cache'[w].object = object[t]
        BY <3>0, <3>1, <4>3
      <4>5. Of(t)' = Of(t)
        BY <3>1 DEF Of
      <4>6. ASSUME NEW b \in Addresses, b = object[t] PROVE Written(b)'
        <5>1. object'[t] = b /\ cache'[hashIndex[b]].name = class'[Of(t)']
          BY <3>w, <3>1, <4>4, <4>5, <4>6
        <5> QED BY <5>1 DEF Written
      <4> QED BY <4>2, <4>4, <4>6
    <3> QED BY <3>w, <3>2, <3>3 DEF Whole
  <2>5. Unmixed'
    BY ZenonT(40), <1>5
    DEF ZombieInv, ZombieTypeOK, CacheSlots, Objects, Classes, Owning, Unmixed, Kept, Storing, Of,
        WriteClass, Continues
  <2> QED BY <2>1, <2>2, <2>3, <2>4, <2>5 DEF ZombieInv
<1>6. ASSUME NEW t \in Deallocators, StoreAddress(t) PROVE ZombieInv'
  <2>1. ZombieTypeOK'
    <3>0. freeing[t] # "idle" /\ object[t] \in Addresses /\ Of(t) \in Objects /\ hashIndex[object[t]] \in CacheSlots
      BY <1>6, Held DEF StoreAddress, ZombieInv
    <3>1. (zombieEnabled \in BOOLEAN /\ zombieInstall \in {"none", "failed", "cache", "NSObject", "done"})'
      BY <1>6, <3>0 DEF ZombieInv, ZombieTypeOK, StoreAddress, Continues
    <3>2. (cache \in [CacheSlots -> [object : Addresses \cup {Nobody}, name : Classes \cup {Nobody}]])'
      BY <1>6, <3>0 DEF ZombieInv, ZombieTypeOK, StoreAddress, Continues
    <3>3. (last \in [address : Objects \cup {Nobody}, name : Objects \cup {Nobody}, reason : Objects \cup {Nobody}])'
      BY <1>6, <3>0 DEF ZombieInv, ZombieTypeOK, StoreAddress, Continues
    <3>4. (heap \in [Addresses -> Objects \cup {Nobody}] /\ class \in [Objects -> Classes] /\ made \in 0 .. MaxObjects)'
      BY <1>6, <3>0 DEF ZombieInv, ZombieTypeOK, StoreAddress, Continues
    <3>5. (freeing \in [Deallocators -> {"idle", "class", "address", "name", "reason", "free"}])'
      BY <1>6, <3>0 DEF ZombieInv, ZombieTypeOK, StoreAddress, Continues
    <3>6. (object \in [Deallocators -> Addresses \cup {Nobody}])'
      BY <1>6, <3>0 DEF ZombieInv, ZombieTypeOK, StoreAddress, Continues
    <3>7. (deallocated \in [Addresses -> Objects \cup {Nobody}] /\ newest \in Objects \cup {Nobody})'
      BY <1>6, <3>0 DEF ZombieInv, ZombieTypeOK, StoreAddress, Continues
    <3>8. (lacking \subseteq Objects \X {"name", "reason"})'
      BY <1>6, <3>0 DEF ZombieInv, ZombieTypeOK, StoreAddress, Continues
    <3>9. (torn \subseteq CacheSlots /\ mixed \in BOOLEAN)'
      BY <1>6, <3>0 DEF ZombieInv, ZombieTypeOK, StoreAddress, Continues
    <3> QED BY <3>1, <3>2, <3>3, <3>4, <3>5, <3>6, <3>7, <3>8, <3>9 DEF ZombieTypeOK
  <2>2. Owning'
    BY <1>6 DEF ZombieInv, ZombieTypeOK, CacheSlots, Objects, Classes, Owning, Of, StoreAddress, Continues
  <2>3. Replacing'
    BY <1>6 DEF ZombieInv, ZombieTypeOK, Replacing, Replaced, StoreAddress, Continues
  <2>4. Whole'
    BY <1>6 DEF ZombieInv, ZombieTypeOK, CacheSlots, Objects, Classes, Owning, Replacing, Replaced, Whole,
       Written, Writing, Of, StoreAddress, Continues
  <2>5. Unmixed'
    <3> USE DEF ZombieInv, ZombieTypeOK
    <3>1. /\ last' = [last EXCEPT !.address = Of(t)] /\ newest' = Of(t) /\ mixed' = (Storing # {})
          /\ freeing[t] = "address" /\ freeing' = [freeing EXCEPT ![t] = "name"]
          /\ object' = object /\ heap' = heap /\ lacking' = lacking
      BY <1>6 DEF StoreAddress, Continues
    <3>2. last'.address = newest'
      BY <3>1
    <3>3. CASE Storing = {}
      <4>1. Storing' = {t}
        BY <3>1, <3>3 DEF Storing
      <4>2. Of(t)' = newest' /\ freeing'[t] = "name"
        BY <3>1 DEF Of
      <4> QED BY <3>2, <4>1, <4>2 DEF Unmixed
    <3>4. CASE Storing # {}
      BY <3>1, <3>2, <3>4 DEF Unmixed
    <3> QED BY <3>3, <3>4
  <2> QED BY <2>1, <2>2, <2>3, <2>4, <2>5 DEF ZombieInv
<1>7. ASSUME NEW t \in Deallocators, NEW f \in {"name", "reason"}, CopyString(t, f) PROVE ZombieInv'
  <2>1. ZombieTypeOK'
    <3>0. freeing[t] # "idle" /\ object[t] \in Addresses /\ Of(t) \in Objects /\ hashIndex[object[t]] \in CacheSlots
      BY <1>7, Held DEF CopyString, ZombieInv
    <3>1. (zombieEnabled \in BOOLEAN /\ zombieInstall \in {"none", "failed", "cache", "NSObject", "done"})'
      BY <1>7, <3>0 DEF ZombieInv, ZombieTypeOK, CopyString, Continues
    <3>2. (cache \in [CacheSlots -> [object : Addresses \cup {Nobody}, name : Classes \cup {Nobody}]])'
      BY <1>7, <3>0 DEF ZombieInv, ZombieTypeOK, CopyString, Continues
    <3>3. (last \in [address : Objects \cup {Nobody}, name : Objects \cup {Nobody}, reason : Objects \cup {Nobody}])'
      BY <1>7, <3>0 DEF ZombieInv, ZombieTypeOK, CopyString, Continues
    <3>4. (heap \in [Addresses -> Objects \cup {Nobody}] /\ class \in [Objects -> Classes] /\ made \in 0 .. MaxObjects)'
      BY <1>7, <3>0 DEF ZombieInv, ZombieTypeOK, CopyString, Continues
    <3>5. (freeing \in [Deallocators -> {"idle", "class", "address", "name", "reason", "free"}])'
      BY <1>7, <3>0 DEF ZombieInv, ZombieTypeOK, CopyString, Continues
    <3>6. (object \in [Deallocators -> Addresses \cup {Nobody}])'
      BY <1>7, <3>0 DEF ZombieInv, ZombieTypeOK, CopyString, Continues
    <3>7. (deallocated \in [Addresses -> Objects \cup {Nobody}] /\ newest \in Objects \cup {Nobody})'
      BY <1>7, <3>0 DEF ZombieInv, ZombieTypeOK, CopyString, Continues
    <3>8. (lacking \subseteq Objects \X {"name", "reason"})'
      BY <1>7, <3>0 DEF ZombieInv, ZombieTypeOK, CopyString, Continues
    <3>9. (torn \subseteq CacheSlots /\ mixed \in BOOLEAN)'
      BY <1>7, <3>0 DEF ZombieInv, ZombieTypeOK, CopyString, Continues
    <3> QED BY <3>1, <3>2, <3>3, <3>4, <3>5, <3>6, <3>7, <3>8, <3>9 DEF ZombieTypeOK
  <2>2. Owning'
    BY <1>7 DEF ZombieInv, ZombieTypeOK, CacheSlots, Objects, Classes, Owning, Of, CopyString, Continues
  <2>3. Replacing'
    BY <1>7 DEF ZombieInv, ZombieTypeOK, Replacing, Replaced, CopyString, Continues
  <2>4. Whole'
    BY <1>7 DEF ZombieInv, ZombieTypeOK, CacheSlots, Objects, Classes, Owning, Replacing, Replaced, Whole,
       Written, Writing, Of, CopyString, Continues
  <2>5. Unmixed'
    BY SMTT(30), <1>7
    DEF ZombieInv, ZombieTypeOK, CacheSlots, Objects, Classes, Owning, Unmixed, Kept, Storing, Of,
        CopyString, Continues
  <2> QED BY <2>1, <2>2, <2>3, <2>4, <2>5 DEF ZombieInv
<1>8. ASSUME NEW t \in Deallocators, FreeObject(t) PROVE ZombieInv'
  <2>1. ZombieTypeOK'
    <3>0. freeing[t] # "idle" /\ object[t] \in Addresses /\ Of(t) \in Objects /\ hashIndex[object[t]] \in CacheSlots
      BY <1>8, Held DEF FreeObject, ZombieInv
    <3>1. (zombieEnabled \in BOOLEAN /\ zombieInstall \in {"none", "failed", "cache", "NSObject", "done"})'
      BY <1>8, <3>0 DEF ZombieInv, ZombieTypeOK, FreeObject, Continues
    <3>2. (cache \in [CacheSlots -> [object : Addresses \cup {Nobody}, name : Classes \cup {Nobody}]])'
      BY <1>8, <3>0 DEF ZombieInv, ZombieTypeOK, FreeObject, Continues
    <3>3. (last \in [address : Objects \cup {Nobody}, name : Objects \cup {Nobody}, reason : Objects \cup {Nobody}])'
      BY <1>8, <3>0 DEF ZombieInv, ZombieTypeOK, FreeObject, Continues
    <3>4. (heap \in [Addresses -> Objects \cup {Nobody}] /\ class \in [Objects -> Classes] /\ made \in 0 .. MaxObjects)'
      BY <1>8, <3>0 DEF ZombieInv, ZombieTypeOK, FreeObject, Continues
    <3>5. (freeing \in [Deallocators -> {"idle", "class", "address", "name", "reason", "free"}])'
      BY <1>8, <3>0 DEF ZombieInv, ZombieTypeOK, FreeObject, Continues
    <3>6. (object \in [Deallocators -> Addresses \cup {Nobody}])'
      BY <1>8, <3>0 DEF ZombieInv, ZombieTypeOK, FreeObject, Continues
    <3>7. (deallocated \in [Addresses -> Objects \cup {Nobody}] /\ newest \in Objects \cup {Nobody})'
      BY <1>8, <3>0 DEF ZombieInv, ZombieTypeOK, FreeObject, Continues
    <3>8. (lacking \subseteq Objects \X {"name", "reason"})'
      BY <1>8, <3>0 DEF ZombieInv, ZombieTypeOK, FreeObject, Continues
    <3>9. (torn \subseteq CacheSlots /\ mixed \in BOOLEAN)'
      BY <1>8, <3>0 DEF ZombieInv, ZombieTypeOK, FreeObject, Continues
    <3> QED BY <3>1, <3>2, <3>3, <3>4, <3>5, <3>6, <3>7, <3>8, <3>9 DEF ZombieTypeOK
  <2>2. Owning'
    BY <1>8 DEF ZombieInv, ZombieTypeOK, CacheSlots, Objects, Classes, Owning, Of, FreeObject, Continues,
       Replaced
  <2>3. Replacing'
    BY <1>8 DEF ZombieInv, ZombieTypeOK, Replacing, Replaced, FreeObject, Continues
  <2>4. Whole'
    <3> USE DEF ZombieInv, ZombieTypeOK
    <3>0. freeing[t] = "free" /\ object[t] \in Addresses /\ Of(t) \in Objects
      BY <1>8, Held DEF FreeObject
    <3>1. /\ deallocated' = IF Replaced THEN [deallocated EXCEPT ![object[t]] = Of(t)] ELSE deallocated
          /\ heap' = [heap EXCEPT ![object[t]] = Nobody] /\ object' = [object EXCEPT ![t] = Nobody]
          /\ freeing' = [freeing EXCEPT ![t] = "idle"]
          /\ cache' = cache /\ class' = class /\ torn' = torn
      BY <1>8 DEF FreeObject, Continues
    <3>2. \A u \in Deallocators \ {t} : object'[u] = object[u] /\ (freeing[u] # "idle" => Of(u)' = Of(u))
      BY <3>0, <3>1 DEF Owning, Of
    <3>3. \A s \in CacheSlots : Writing(s)' = Writing(s) /\ t \notin Writing(s)
      BY <3>0, <3>1 DEF Writing
    <3>4. ASSUME NEW b \in Addresses, Written(b), Replaced, b = object[t] PROVE Written(b)'
      <4>1. cache[hashIndex[b]].name = class[Of(t)]
        BY <3>0, <3>4 DEF Written, Owning
      <4>2. deallocated'[b] = Of(t) /\ Of(t) # Nobody
        BY <3>0, <3>1, <3>4, ZombieAssumption
      <4>3. \A u \in Deallocators : object'[u] # b
        BY <3>0, <3>1, <3>4 DEF Owning
      <4> QED BY <3>1, <4>1, <4>2, <4>3 DEF Written
    <3>5. ASSUME NEW b \in Addresses, Written(b), b # object[t] PROVE Written(b)'
      <4>1. CASE \E u \in Deallocators : object[u] = b /\ cache[hashIndex[b]].name = class[Of(u)]
        <5>1. PICK u \in Deallocators : object[u] = b /\ cache[hashIndex[b]].name = class[Of(u)]
          BY <4>1
        <5>2. u # t /\ freeing[u] # "idle"
          BY <3>5, <5>1 DEF Owning
        <5> QED BY <3>1, <3>2, <5>1, <5>2 DEF Written
      <4>2. CASE /\ \A u \in Deallocators : object[u] # b
                 /\ deallocated[b] # Nobody /\ cache[hashIndex[b]].name = class[deallocated[b]]
        <5>1. deallocated'[b] = deallocated[b] /\ \A u \in Deallocators : object'[u] # b
          BY <3>1, <3>5, <4>2
        <5> QED BY <3>1, <4>2, <5>1 DEF Written
      <4> QED BY <3>5, <4>1, <4>2 DEF Written
    <3>6. ASSUME NEW b \in Addresses, cache[hashIndex[b]].object = b PROVE Replaced
      BY <3>6 DEF Replacing, CacheSlots
    <3>7. \A s \in CacheSlots : \A u \in Writing(s) : object'[u] = object[u]
      BY <3>2, <3>3 DEF Writing
    <3> QED BY <3>1, <3>3, <3>4, <3>5, <3>6, <3>7 DEF Whole
  <2>5. Unmixed'
    BY ZenonT(40), <1>8
    DEF ZombieInv, ZombieTypeOK, CacheSlots, Objects, Classes, Owning, Unmixed, Kept, Storing, Of,
        FreeObject, Continues, Replaced
  <2> QED BY <2>1, <2>2, <2>3, <2>4, <2>5 DEF ZombieInv
<1>9. CASE UNCHANGED zombieVars
  <2>1. ZombieTypeOK'
    BY <1>9 DEF ZombieInv, ZombieTypeOK, CacheSlots, Objects, Classes, Owning, zombieVars
  <2>2. Owning'
    BY <1>9 DEF ZombieInv, ZombieTypeOK, CacheSlots, Objects, Classes, Owning, Of, zombieVars
  <2>3. Replacing'
    BY <1>9 DEF ZombieInv, ZombieTypeOK, Replacing, Replaced, zombieVars
  <2>4. Whole'
    <3>1. \A s \in CacheSlots : Writing(s)' = Writing(s)
      BY <1>9 DEF zombieVars, Writing
    <3>2. \A a \in Addresses : Written(a)' <=> Written(a)
      BY <1>9 DEF zombieVars, Written, Of
    <3> QED BY <1>9, <3>1, <3>2 DEF ZombieInv, zombieVars, Whole
  <2>5. Unmixed'
    BY <1>9 DEF ZombieInv, ZombieTypeOK, CacheSlots, Objects, Classes, Owning, Unmixed, Kept, Storing, Of,
       zombieVars
  <2> QED BY <2>1, <2>2, <2>3, <2>4, <2>5 DEF ZombieInv
<1> QED BY <1>1, <1>2, <1>3, <1>4, <1>5, <1>6, <1>7, <1>8, <1>9 DEF ZombieNext

\* The class found for an address, and the last exception's name and reason,
\* are those of the object they are said to be of, under the conditions of
\* ZombieExact: for any number of threads, addresses and objects.
THEOREM ZombiesExact == ZombieSpec => []ZombieExact
<1>1. ASSUME ZombieInv PROVE ZombieExact
  <2>1. ASSUME NEW a \in Addresses, className(a) # Nobody, Writing(hashIndex[a]) = {}, hashIndex[a] \notin torn
        PROVE  \/ deallocated[a] # Nobody /\ className(a) = class[deallocated[a]]
               \/ \E t \in Deallocators : object[t] = a /\ className(a) = class[Of(t)]
    <3>1. hashIndex[a] \in CacheSlots /\ cache[hashIndex[a]].object = a /\ className(a) = cache[hashIndex[a]].name
      BY <2>1 DEF className, CacheSlots
    <3>2. Written(a)
      BY <1>1, <2>1, <3>1 DEF ZombieInv, Whole
    <3> QED BY <3>1, <3>2 DEF Written
  <2>2. ASSUME Storing = {}, ~ mixed
        PROVE  last.address = newest /\ \A f \in {"name", "reason"} : last[f] = newest \/ <<newest, f>> \in lacking
    BY <1>1, <2>2 DEF ZombieInv, Unmixed, Kept
  <2> QED BY <2>1, <2>2 DEF ZombieExact
<1> QED BY <1>1, ZombieInvInit, ZombieInvNext, PTL DEF ZombieSpec
=============================================================================
