-------------------------- MODULE KSCxaThrowSwapper --------------------------
(***************************************************************************)
(* KSCxaThrowSwapper.c: ksct_swap() replaces every image's binding of      *)
(* __cxa_throw by a decorator, ksct_swapReset() puts them back, and the    *)
(* callback for added images replaces theirs, while other threads throw.   *)
(* Nothing is locked: every access to what is shared is one step.          *)
(*                                                                         *)
(* An original is named after its image.  An image has one binding, as the *)
(* code says, in __DATA or in __DATA_CONST.                                *)
(***************************************************************************)
EXTENDS Integers, FiniteSets

CONSTANTS
  Images,     \* images that throw
  AtStart,    \* those that are loaded before the first swap
  Const,      \* those whose binding is in __DATA_CONST
  Throwers,   \* threads that throw
  MaxOriginals,  \* MAX_CXA_ORIGINALS
  MaxCalls,   \* bound: how many times ksct_swap() and ksct_swapReset() are called
  NoImage     \* 0, as the address of a function

Decorator == "decorator"

ASSUME SwapAssumption ==
  /\ MaxOriginals \in Nat \ {0} /\ MaxCalls \in Nat
  /\ AtStart \subseteq Images
  /\ Images \cap {NoImage, Decorator} = {} /\ NoImage # Decorator

Rebinders == {"client", "loader"}   \* who rebinds: ksct_swap(), or dyld's notifier

VARIABLES
  binding,            \* what __cxa_throw is bound to, by image
  loaded,             \* the images that are loaded
  handler, callback,  \* g_cxa_throw_handler and g_image_added_callback: whether there is one
  originals, count,   \* g_cxa_originals and g_cxa_originals_count
  fallback,           \* g_fallback_cxa_throw
  call, calls,        \* what the client is doing, where, and how often it has called
  k, n, images,         \* i and count of ksct_swapReset(); the images still to scan
  step, image, read, slot,   \* of a rebinder: where it is, and its locals
  throw,              \* of a thread that throws: where it is, and its locals
  overlapped, failed, \* history: a callback was running when a reset began; mprotect() has failed
  missed              \* history: images whose callback was not called, since the last swap began

table   == <<originals, count, fallback>>
client  == <<call, calls, k, n, images>>
rebinds == <<step, image, read, slot>>
history == <<overlapped, failed, missed>>
swapVars == <<binding, loaded, handler, callback, table, client, rebinds, throw, history>>

Functions == Images \cup {Decorator, NoImage}
Idle      == [at |-> "idle", from |-> NoImage, n |-> 0, k |-> 0, function |-> NoImage]

Calls     == {"idle", "unregister", "clear", "count", "restore", "slot", "store", "images", "scan"}
Steps     == {"idle", "notify", "handler", "look", "read", "reserve", "fill", "publish", "fallback", "write"}
Throwing  == {"idle", "count", "find", "match", "fallback", "call"}

SwapTypeOK ==
  /\ binding \in [Images -> Images \cup {Decorator}]
  /\ loaded \subseteq Images
  /\ {handler, callback, overlapped, failed} \subseteq BOOLEAN
  /\ originals \in [0 .. MaxOriginals - 1 -> [image : Images \cup {NoImage}, function : Functions]]
  /\ count \in 0 .. MaxOriginals /\ fallback \in Functions
  /\ call \in [at : Calls, swaps : BOOLEAN] /\ calls \in 0 .. MaxCalls
  /\ n \in 0 .. MaxOriginals /\ k \in 0 .. MaxOriginals
  /\ images \subseteq Images /\ missed \subseteq Images
  /\ step \in [Rebinders -> Steps] /\ image \in [Rebinders -> Images \cup {NoImage}]
  /\ read \in [Rebinders -> Functions] /\ slot \in [Rebinders -> 0 .. MaxOriginals - 1]
  /\ throw \in [Throwers -> [at : Throwing, from : Images \cup {NoImage}, n : 0 .. MaxOriginals,
                             k : 0 .. MaxOriginals, function : Functions]]

SwapInit ==
  /\ binding = [i \in Images |-> i] /\ loaded = AtStart
  /\ handler = FALSE /\ callback = FALSE
  /\ originals = [j \in 0 .. MaxOriginals - 1 |-> [image |-> NoImage, function |-> NoImage]]
  /\ count = 0 /\ fallback = NoImage
  /\ call = [at |-> "idle", swaps |-> FALSE] /\ calls = 0 /\ k = 0 /\ n = 0 /\ images = {}
  /\ step = [r \in Rebinders |-> "idle"] /\ image = [r \in Rebinders |-> NoImage]
  /\ read = [r \in Rebinders |-> NoImage] /\ slot = [r \in Rebinders |-> 0]
  /\ throw = [t \in Throwers |-> Idle]
  /\ overlapped = FALSE /\ failed = FALSE /\ missed = {}

-----------------------------------------------------------------------------
(***************************************************************************)
(* rebind_symbols_for_image(), perform_rebinding_with_section(), addPair() *)
(***************************************************************************)
Goes(r, s) == step' = [step EXCEPT ![r] = s]

\* Nothing is rebound while there is no handler.
CheckHandler(r) ==
  /\ step[r] = "handler"
  /\ Goes(r, IF handler THEN "look" ELSE "idle")
  /\ UNCHANGED <<binding, table, image, read, slot, failed>>

\* "Already rebound - skip"
Look(r) ==
  /\ step[r] = "look"
  /\ Goes(r, IF binding[image[r]] = Decorator THEN "idle" ELSE "read")
  /\ UNCHANGED <<binding, table, image, read, slot, failed>>

\* The binding is read again, as an argument of addPair().
ReadBinding(r) ==
  /\ step[r] = "read"
  /\ read' = [read EXCEPT ![r] = binding[image[r]]]
  /\ Goes(r, "reserve")
  /\ UNCHANGED <<binding, table, image, slot, failed>>

\* Mutant of reserveIndex: one slot too many.
reserveIndexLate(r) ==
  /\ step[r] = "reserve"
  /\ IF count > MaxOriginals THEN Goes(r, "idle") /\ UNCHANGED <<count, slot>>
     ELSE /\ slot' = [slot EXCEPT ![r] = count]
          /\ count' = count + 1
          /\ Goes(r, "fill")
  /\ UNCHANGED <<binding, originals, fallback, image, read, failed>>

\* reserveIndex(): an image that finds no slot keeps its binding.
reserveIndex(r) ==
  /\ step[r] = "reserve"
  /\ IF count >= MaxOriginals THEN Goes(r, "idle") /\ UNCHANGED <<count, slot>>
     ELSE /\ slot' = [slot EXCEPT ![r] = count]
          /\ count' = count + 1
          /\ Goes(r, "fill")
  /\ UNCHANGED <<binding, originals, fallback, image, read, failed>>

\* addPair(): the image, and then the function, which says that the slot is ready.
Fill(r) ==
  /\ step[r] = "fill"
  /\ originals' = [originals EXCEPT ![slot[r]].image = image[r]]
  /\ Goes(r, "publish")
  /\ UNCHANGED <<binding, count, fallback, image, read, slot, failed>>

Publish(r) ==
  /\ step[r] = "publish"
  /\ originals' = [originals EXCEPT ![slot[r]].function = read[r]]
  /\ Goes(r, "fallback")
  /\ UNCHANGED <<binding, count, fallback, image, read, slot, failed>>

\* "Capture the first valid __cxa_throw as fallback (only once, never cleared)"
SetFallback(r) ==
  /\ step[r] = "fallback"
  /\ fallback' = IF fallback = NoImage THEN read[r] ELSE fallback
  /\ Goes(r, "write")
  /\ UNCHANGED <<binding, originals, count, image, read, slot, failed>>

\* writeProtectedBinding(): mprotect() may fail.
writeProtectedBinding(i, f) ==
  \/ binding' = [binding EXCEPT ![i] = f] /\ UNCHANGED failed
  \/ i \in Const /\ failed' = TRUE /\ UNCHANGED binding

WriteBinding(r) ==
  /\ step[r] = "write"
  /\ writeProtectedBinding(image[r], Decorator)
  /\ Goes(r, "idle")
  /\ UNCHANGED <<table, image, read, slot>>

Rebind(r) ==
  /\ \/ CheckHandler(r) \/ Look(r) \/ ReadBinding(r) \/ reserveIndex(r)
     \/ Fill(r) \/ Publish(r) \/ SetFallback(r) \/ WriteBinding(r)
  /\ UNCHANGED <<loaded, handler, callback, client, throw, overlapped, missed>>

-----------------------------------------------------------------------------
(***************************************************************************)
(* ksct_swap() and ksct_swapReset(), called by one thread                  *)
(***************************************************************************)
Continue(a) == call' = [call EXCEPT !.at = a]

\* ksct_swap() resets first.
Call ==
  /\ call.at = "idle" /\ calls < MaxCalls
  /\ \E swaps \in BOOLEAN : call' = [at |-> "unregister", swaps |-> swaps]
  /\ calls' = calls + 1
  /\ UNCHANGED <<binding, loaded, handler, callback, table, k, n, images, rebinds, throw, history>>

Unregister ==
  /\ call.at = "unregister"
  /\ callback' = FALSE
  /\ Continue("clear")
  /\ UNCHANGED <<binding, loaded, handler, table, calls, k, n, images, rebinds, throw, history>>

ClearHandler ==
  /\ call.at = "clear"
  /\ handler' = FALSE
  /\ overlapped' = (overlapped \/ step["loader"] # "idle")
  /\ Continue("count")
  /\ UNCHANGED <<binding, loaded, callback, table, calls, k, n, images, rebinds, throw, failed, missed>>

ReadCount ==
  /\ call.at = "count"
  /\ n' = count /\ k' = 0
  /\ Continue("restore")
  /\ UNCHANGED <<binding, loaded, handler, callback, table, calls, images, rebinds, throw, history>>

\* A slot that is ready is put back; a failure is only asserted against.
RestoreBinding ==
  /\ call.at = "restore" /\ k < n
  /\ LET pair == originals[k] IN
     IF pair.function = NoImage THEN UNCHANGED <<binding, failed>>
     ELSE writeProtectedBinding(pair.image, pair.function)
  /\ Continue("slot")
  /\ UNCHANGED <<loaded, handler, callback, table, calls, k, n, images, rebinds, throw, overlapped, missed>>

ClearSlot ==
  /\ call.at = "slot"
  /\ originals' = [originals EXCEPT ![k].function = NoImage]
  /\ k' = k + 1
  /\ Continue("restore")
  /\ UNCHANGED <<binding, loaded, handler, callback, count, fallback, calls, n, images, rebinds, throw, history>>

\* Mutant of ResetCount: the fallback goes with the table.
ResetCountAndFallback ==
  /\ call.at = "restore" /\ k >= n
  /\ count' = 0 /\ fallback' = NoImage
  /\ Continue(IF call.swaps THEN "store" ELSE "idle")
  /\ UNCHANGED <<binding, loaded, handler, callback, originals, calls, k, n, images, rebinds, throw, history>>

ResetCount ==
  /\ call.at = "restore" /\ k >= n
  /\ count' = 0
  /\ Continue(IF call.swaps THEN "store" ELSE "idle")
  /\ UNCHANGED <<binding, loaded, handler, callback, originals, fallback, calls, k, n, images, rebinds, throw, history>>

StoreHandler ==
  /\ call.at = "store"
  /\ handler' = TRUE
  /\ Continue("images")
  /\ UNCHANGED <<binding, loaded, callback, table, calls, k, n, images, rebinds, throw, history>>

\* ksbic_getImages(): those that are loaded now.
GetImages ==
  /\ call.at = "images"
  /\ images' = loaded /\ missed' = {}
  /\ Continue("scan")
  /\ UNCHANGED <<binding, loaded, handler, callback, table, calls, k, n, rebinds, throw, overlapped, failed>>

ScanImage ==
  /\ call.at = "scan" /\ step["client"] = "idle" /\ images # {}
  /\ \E i \in images : images' = images \ {i} /\ image' = [image EXCEPT !["client"] = i]
  /\ Goes("client", "handler")
  /\ UNCHANGED <<binding, loaded, handler, callback, table, call, calls, k, n, read, slot, throw, history>>

Register ==
  /\ call.at = "scan" /\ step["client"] = "idle" /\ images = {}
  /\ callback' = TRUE
  /\ Continue("idle")
  /\ UNCHANGED <<binding, loaded, handler, table, calls, k, n, images, rebinds, throw, history>>

-----------------------------------------------------------------------------
\* dyld loads an image; its notifier, which runs behind dyld's lock, calls the
\* callback, if there is one now.
Load ==
  /\ step["loader"] = "idle"
  /\ \E i \in Images \ loaded :
       /\ loaded' = loaded \cup {i}
       /\ image' = [image EXCEPT !["loader"] = i]
  /\ Goes("loader", "notify")
  /\ UNCHANGED <<binding, handler, callback, table, client, read, slot, throw, history>>

notifier ==
  /\ step["loader"] = "notify"
  /\ Goes("loader", IF callback THEN "handler" ELSE "idle")
  /\ missed' = IF callback THEN missed ELSE missed \cup {image["loader"]}
  /\ UNCHANGED <<binding, loaded, handler, callback, table, client, image, read, slot, throw, overlapped, failed>>

-----------------------------------------------------------------------------
(***************************************************************************)
(* A thread throws: __cxa_throw_decorator(), findAddress()                 *)
(***************************************************************************)
Thrown(t, r) == throw' = [throw EXCEPT ![t] = r]

\* The image's own __cxa_throw, or the decorator, which calls the handler.
Throw(t) ==
  /\ throw[t].at = "idle"
  /\ \E i \in loaded :
       Thrown(t, IF binding[i] = Decorator THEN [Idle EXCEPT !.at = "count", !.from = i] ELSE Idle)

FindCount(t) ==
  /\ throw[t].at = "count"
  /\ Thrown(t, [throw[t] EXCEPT !.at = "find", !.n = count, !.k = 0])

\* The function of a slot is read, and its image if there is one.
Find(t) ==
  /\ throw[t].at = "find"
  /\ LET x == throw[t] IN
     IF x.k >= x.n THEN Thrown(t, [x EXCEPT !.at = "fallback"])
     ELSE IF originals[x.k].function = NoImage THEN Thrown(t, [x EXCEPT !.k = @ + 1])
     ELSE Thrown(t, [x EXCEPT !.at = "match", !.function = originals[x.k].function])

Match(t) ==
  /\ throw[t].at = "match"
  /\ LET x == throw[t] IN
     IF originals[x.k].image = x.from THEN Thrown(t, [x EXCEPT !.at = "call"])
     ELSE Thrown(t, [x EXCEPT !.at = "find", !.k = @ + 1, !.function = NoImage])

Fallback(t) ==
  /\ throw[t].at = "fallback"
  /\ Thrown(t, [throw[t] EXCEPT !.at = "call", !.function = fallback])

\* The original takes over; the decorator would start again.
CallOriginal(t) ==
  /\ throw[t].at = "call" /\ throw[t].function # NoImage
  /\ Thrown(t, IF throw[t].function = Decorator THEN [Idle EXCEPT !.at = "count", !.from = throw[t].from] ELSE Idle)

Throws ==
  /\ \E t \in Throwers : Throw(t) \/ FindCount(t) \/ Find(t) \/ Match(t) \/ Fallback(t) \/ CallOriginal(t)
  /\ UNCHANGED <<binding, loaded, handler, callback, table, client, rebinds, history>>

SwapNext ==
  \/ \E r \in Rebinders : Rebind(r)
  \/ Call \/ Unregister \/ ClearHandler \/ ReadCount \/ RestoreBinding \/ ClearSlot \/ ResetCount
  \/ StoreHandler \/ GetImages \/ ScanImage \/ Register
  \/ Load \/ notifier
  \/ Throws

SwapSpec == SwapInit /\ [][SwapNext]_swapVars

-----------------------------------------------------------------------------
\* "This ensures the decorator never returns": a thread that throws always gets
\* to an original __cxa_throw, whatever is put in place or taken away around
\* it, and failures of mprotect() or a full table included; and never back to
\* the decorator, unless a callback outlived the reset that should have ended it.
ThrowReaches ==
  \A t \in Throwers : throw[t].at = "call" =>
    /\ throw[t].function # NoImage
    /\ throw[t].function = Decorator => overlapped

Quiet == call.at = "idle" /\ \A r \in Rebinders : step[r] = "idle"

\* A reset leaves nothing decorated, and after a swap every image that was
\* loaded before it or has been loaded since is decorated and has its own
\* original in the table; but for what mprotect() has refused, for images that
\* came when the table was full, and for those that are loaded between the
\* scan and the registration of the callback.
SwapExact ==
  Quiet /\ calls > 0 /\ ~ failed /\ ~ overlapped =>
    IF handler
    THEN \A i \in loaded :
           \/ binding[i] = Decorator /\ \E j \in 0 .. count - 1 : originals[j] = [image |-> i, function |-> i]
           \/ binding[i] = i /\ (count = MaxOriginals \/ i \in missed)
    ELSE \A i \in Images : binding[i] = i

\* While images are rebound, put back and loaded, and others throw, a thread
\* that throws reaches an original __cxa_throw, and what a swap or a reset
\* leaves behind is complete.
SwapSound == ThrowReaches /\ SwapExact
=============================================================================
